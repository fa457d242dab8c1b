------------------------- MODULE UriGrammar_proofs -------------------------
(* What the parsing functions of the URI library promise of every text:    *)
(* the read position moves forward and stays in the text, the components   *)
(* lie in it.  The loops of the code are recursive functions; what they    *)
(* compute is proved by induction from the end of the text.                *)
EXTENDS UriGrammar, WellFoundedInduction, SequenceTheorems, TLAPS

LessThan == {ss \in Nat \X Nat : ss[1] < ss[2]}

\* Every set of naturals has a least element.
LEMMA LeastElement ==
  ASSUME NEW T, T \subseteq Nat, T # {}
  PROVE  \E x \in T : \A y \in T : x <= y
<1>1. IsWellFoundedOn(LessThan, Nat)
  BY NatLessThanWellFounded DEF OpToRel, LessThan
<1>2. PICK x \in T : \A y \in T : ~(<<y, x>> \in LessThan)
  BY <1>1, WFMin
<1>3. \A y \in T : <<y, x>> \in Nat \X Nat
  OBVIOUS
<1>4. \A y \in T : ~(y < x)
  BY <1>2, <1>3 DEF LessThan
<1>5. \A y \in T : x <= y
  BY <1>4
<1> QED
  BY <1>5

\* Induction from n down to 0.
LEMMA DownwardInduction ==
  ASSUME NEW n \in Nat, NEW S,
         \A q \in 0..n : (\A k \in q + 1..n : k \in S) => q \in S
  PROVE  0..n \subseteq S
<1> SUFFICES ASSUME ~(0..n \subseteq S) PROVE FALSE
  OBVIOUS
<1> DEFINE T == {m \in Nat : m \in 0..n /\ n - m \notin S}
<1>1. T # {}
  <2>1. PICK q \in 0..n : q \notin S
    OBVIOUS
  <2>2. n - q \in 0..n /\ n - (n - q) = q
    OBVIOUS
  <2>3. n - q \in T
    BY <2>1, <2>2
  <2> QED
    BY <2>3
<1>2. PICK m \in T : \A y \in T : m <= y
  BY <1>1, LeastElement
<1>3. n - m \in 0..n /\ n - m \notin S
  BY <1>2
<1>4. ASSUME NEW k \in n - m + 1..n PROVE k \in S
  <2>1. n - k \in 0..n /\ n - (n - k) = k /\ n - k < m
    BY <1>2
  <2>2. n - k \notin T
    BY <1>2, <2>1
  <2> QED
    BY <2>1, <2>2
<1> QED
  BY <1>3, <1>4

\* F gives the value of a function at q from its values beyond q.
FromBeyond(F, n, V) ==
  /\ F \in [(0..n) \X [0..n -> V] -> V]
  /\ \A q \in 0..n, g, h \in [0..n -> V] :
       (\A k \in q + 1..n : g[k] = h[k]) => F[<<q, g>>] = F[<<q, h>>]
Solution(g, F, n) == \A q \in 0..n : g[q] = F[<<q, g>>]

\* Such a function exists.
LEMMA RecursionFromEnd ==
  ASSUME NEW n \in Nat, NEW V, NEW v \in V, NEW F, FromBeyond(F, n, V)
  PROVE  \E g \in [0..n -> V] : Solution(g, F, n)
<1> USE DEF FromBeyond
<1> DEFINE Solved(g, r) == \A q \in r..n : g[q] = F[<<q, g>>]
           S == {r \in 0..n : \E g \in [0..n -> V] : Solved(g, r)}
<1>1. ASSUME NEW r \in 0..n, NEW g \in [0..n -> V], Solved(g, r + 1)
      PROVE  \E h \in [0..n -> V] : Solved(h, r)
  <2> DEFINE h == [g EXCEPT ![r] = F[<<r, g>>]]
  <2>1. <<r, g>> \in (0..n) \X [0..n -> V]
    OBVIOUS
  <2>2. h \in [0..n -> V] /\ h[r] = F[<<r, g>>] /\ \A k \in r + 1..n : h[k] = g[k]
    BY <2>1
  <2> HIDE DEF h
  <2>3. ASSUME NEW q \in r..n PROVE h[q] = F[<<q, h>>]
    <3>1. q \in 0..n /\ \A k \in q + 1..n : h[k] = g[k]
      BY <2>2
    <3>2. F[<<q, g>>] = F[<<q, h>>]
      BY <2>2, <3>1
    <3>3. h[q] = F[<<q, g>>]
      <4>1. CASE q = r
        BY <2>2, <4>1
      <4>2. CASE q # r
        <5>1. q \in r + 1..n
          BY <4>2
        <5> QED
          BY <1>1, <2>2, <5>1
      <4> QED
        BY <4>1, <4>2
    <3> QED
      BY <3>2, <3>3
  <2> QED
    BY <2>2, <2>3
<1>2. ASSUME NEW r \in 0..n, \A k \in r + 1..n : k \in S PROVE r \in S
  <2>1. \E g \in [0..n -> V] : Solved(g, r + 1)
    <3>1. CASE r = n
      <4>1. [k \in 0..n |-> v] \in [0..n -> V] /\ r + 1..n = {}
        BY <3>1
      <4> QED
        BY <4>1
    <3>2. CASE r # n
      <4>1. r + 1 \in r + 1..n
        BY <3>2
      <4> QED
        BY <1>2, <4>1
    <3> QED
      BY <3>1, <3>2
  <2> QED
    BY <1>1, <2>1
<1> HIDE DEF S
<1>3. 0..n \subseteq S
  BY <1>2, DownwardInduction
<1>4. 0 \in S
  BY <1>3
<1> QED
  BY <1>4 DEF S, Solution

\* A loop at q goes on at the later position step[q], or stops at stop[q].
IsLoop(n, More, step, stop) ==
  /\ step \in [0..n -> 0..n] /\ stop \in [0..n -> 0..n]
  /\ \A q \in 0..n : IF q \in More THEN step[q] > q ELSE stop[q] >= q
Unrolled(g, n, More, step, stop) ==
  g = [q \in 0..n |-> IF q \in More THEN g[step[q]] ELSE stop[q]]

\* Its recursive definition has a solution ...
LEMMA LoopIsDefined ==
  ASSUME NEW n \in Nat, NEW More, NEW step, NEW stop, IsLoop(n, More, step, stop)
  PROVE  \E g : Unrolled(g, n, More, step, stop)
<1> USE DEF IsLoop
<1> DEFINE Body(g, q) == IF q \in More THEN g[step[q]] ELSE stop[q]
           F == [x \in (0..n) \X [0..n -> 0..n] |-> Body(x[2], x[1])]
<1>1. ASSUME NEW q \in 0..n, NEW g \in [0..n -> 0..n]
      PROVE  Body(g, q) \in 0..n
  OBVIOUS
<1>2. \A q \in 0..n, g \in [0..n -> 0..n] : F[<<q, g>>] = Body(g, q)
  OBVIOUS
<1>3. ASSUME NEW q \in 0..n, NEW g \in [0..n -> 0..n], NEW h \in [0..n -> 0..n],
             \A k \in q + 1..n : g[k] = h[k]
      PROVE  Body(g, q) = Body(h, q)
  <2>1. q \in More => step[q] \in q + 1..n
    OBVIOUS
  <2> QED
    BY <1>3, <2>1
<1>4. F \in [(0..n) \X [0..n -> 0..n] -> 0..n]
  BY <1>1
<1>5. 0 \in 0..n
  OBVIOUS
<1> HIDE DEF F, Body
<1>a. \A q \in 0..n, g, h \in [0..n -> 0..n] :
        (\A k \in q + 1..n : g[k] = h[k]) => F[<<q, g>>] = F[<<q, h>>]
  <2> SUFFICES ASSUME NEW q \in 0..n, NEW g \in [0..n -> 0..n], NEW h \in [0..n -> 0..n],
                      \A k \in q + 1..n : g[k] = h[k]
               PROVE  F[<<q, g>>] = F[<<q, h>>]
    OBVIOUS
  <2>1. F[<<q, g>>] = Body(g, q) /\ F[<<q, h>>] = Body(h, q)
    BY <1>2
  <2>2. Body(g, q) = Body(h, q)
    BY <1>3
  <2> QED
    BY <2>1, <2>2
<1>b. FromBeyond(F, n, 0..n)
  BY <1>4, <1>a DEF FromBeyond
<1>6. PICK g \in [0..n -> 0..n] : Solution(g, F, n)
  BY <1>5, <1>b, RecursionFromEnd
<1>7. g = [q \in 0..n |-> Body(g, q)]
  BY <1>2, <1>6 DEF Solution
<1> QED
  BY <1>7 DEF Body, Unrolled

\* ... and every solution gives the position where the loop stops.
LEMMA LoopStops ==
  ASSUME NEW n \in Nat, NEW More, NEW step, NEW stop, NEW P, NEW g,
         IsLoop(n, More, step, stop), Unrolled(g, n, More, step, stop),
         \A q \in 0..n : q \notin More => stop[q] \in P
  PROVE  \A q \in 0..n : g[q] \in q..n /\ g[q] \in P
<1> USE DEF IsLoop, Unrolled
<1> DEFINE S == {q \in 0..n : g[q] \in q..n /\ g[q] \in P}
<1>1. ASSUME NEW q \in 0..n, \A k \in q + 1..n : k \in S PROVE q \in S
  <2>1. g[q] = IF q \in More THEN g[step[q]] ELSE stop[q]
    OBVIOUS
  <2>2. CASE q \in More
    <3>1. step[q] \in q + 1..n
      BY <2>2
    <3>2. g[q] \in step[q]..n /\ g[q] \in P
      BY <1>1, <2>1, <2>2, <3>1
    <3> QED
      BY <3>1, <3>2
  <2>3. CASE q \notin More
    BY <2>1, <2>3
  <2> QED
    BY <2>2, <2>3
<1> HIDE DEF S
<1>2. 0..n \subseteq S
  BY <1>1, DownwardInduction
<1> QED
  BY <1>2 DEF S

-----------------------------------------------------------------------------
\* What the code passes over are characters of a reference, or stand behind an
\* escape, where nobody looks.
Passed(p, q) == \A k \in p..q - 1 : Char(k) \in UriChars \/ BehindEscape(k)

\* Its parts.
LEMMA PassedParts ==
  /\ \A p \in Nat : Passed(p, p) /\ (Char(p) \in UriChars => Passed(p, p + 1))
  /\ \A p, q, r \in Nat : Passed(p, q) /\ Passed(q, r) => Passed(p, r)
  BY DEF Passed

LEMMA ClassesInUriChars ==
  /\ LOWALPHA \subseteq UriChars /\ DIGIT \subseteq UriChars
  /\ ALPHANUM \cup {"-"} \subseteq UriChars /\ SCHEME \subseteq UriChars
  /\ URIC \subseteq UriChars /\ PCHAR \subseteq UriChars /\ USERINFO \subseteq UriChars
  /\ REL_SEGMENT \subseteq UriChars /\ URIC_NO_SLASH \subseteq UriChars
  /\ HEX \subseteq UriChars
  /\ {"%", "#", ":", ".", "@", "/", "?", ";"} \subseteq UriChars
<1>1. /\ UNRESERVED \subseteq URIC /\ URIC \subseteq UriChars
      /\ RESERVED \subseteq URIC /\ {"%", "#"} \subseteq UriChars
  BY DEF UriChars, URIC
<1>2. /\ {";", "/", "?", ":", "@", "&", "=", "+", "$", ","} \subseteq RESERVED
      /\ {"-", "."} \subseteq MARK /\ MARK \subseteq UNRESERVED
      /\ ALPHANUM \subseteq UNRESERVED
  BY DEF RESERVED, MARK, UNRESERVED
<1>3. LOWALPHA \subseteq ALPHANUM /\ DIGIT \subseteq ALPHANUM
  BY DEF ALPHANUM
<1>4. {"a", "b", "c", "d", "e", "f"} \subseteq LOWALPHA
  BY DEF LOWALPHA
<1>5. HEX \subseteq ALPHANUM
  BY <1>3, <1>4 DEF HEX
<1> QED
  BY <1>1, <1>2, <1>3, <1>5 DEF SCHEME, PCHAR, USERINFO, REL_SEGMENT, URIC_NO_SLASH

\* A character of the text that is one of them is passed over.
LEMMA CharPasses ==
  ASSUME Size \in Nat, NEW p \in 0..Size, Char(p) \in UriChars
  PROVE  Passed(p, p + 1)
  BY PassedParts

LEMMA DelimiterPasses ==
  ASSUME Size \in Nat, NEW p \in 0..Size,
         Char(p) \in {"%", "#", ":", ".", "@", "/", "?", ";"}
  PROVE  Passed(p, p + 1)
  BY ClassesInUriChars, CharPasses

\* What a loop passes over when each of its rounds does.
LEMMA LoopPasses ==
  ASSUME Size \in Nat, NEW More, NEW step, NEW stop, NEW g,
         IsLoop(Size, More, step, stop), Unrolled(g, Size, More, step, stop),
         \A q \in 0..Size : Passed(q, IF q \in More THEN step[q] ELSE stop[q])
  PROVE  \A q \in 0..Size : g[q] \in q..Size /\ Passed(q, g[q])
<1> USE DEF IsLoop, Unrolled
<1> DEFINE S == {q \in 0..Size : g[q] \in q..Size /\ Passed(q, g[q])}
<1>1. ASSUME NEW q \in 0..Size, \A k \in q + 1..Size : k \in S PROVE q \in S
  <2>1. g[q] = IF q \in More THEN g[step[q]] ELSE stop[q]
    OBVIOUS
  <2>2. CASE q \in More
    <3>1. step[q] \in q + 1..Size /\ Passed(q, step[q])
      BY <2>2
    <3>2. g[q] \in step[q]..Size /\ Passed(step[q], g[q])
      BY <1>1, <2>1, <2>2, <3>1
    <3>3. g[q] \in q..Size /\ g[q] \in Nat /\ step[q] \in Nat
      BY <3>1, <3>2
    <3> QED
      BY <3>1, <3>2, <3>3, PassedParts
  <2>3. CASE q \notin More
    BY <2>1, <2>3
  <2> QED
    BY <2>2, <2>3
<1> HIDE DEF S
<1>2. 0..Size \subseteq S
  BY <1>1, DownwardInduction
<1> QED
  BY <1>2 DEF S

\* stringaa_next_read_pos at a position of the text.
LEMMA NextMoves ==
  ASSUME Size \in Nat, NEW p \in 0..Size
  PROVE  /\ Next1(p) \in p..Size
         /\ p < Size => Next1(p) = p + 1
  BY DEF Next1, next_read_pos

\* The end of the text is in no class.
LEMMA CharInText ==
  ASSUME Size \in Nat, NEW p \in 0..Size, NEW C, "nul" \notin C
  PROVE  /\ Char(p) \in C => p < Size
         /\ Char(Size) \notin C
  BY DEF Char

\* The loops over the characters of a class stop in the text.
LEMMA SkipOverStops ==
  ASSUME Size \in Nat, NEW p \in 0..Size, NEW C
  PROVE  /\ SkipOver(p, C) \in p..Size
         /\ SkipOver(p, C) = Size \/ Char(SkipOver(p, C)) \notin C
         /\ \A k \in p..SkipOver(p, C) - 1 : Char(k) \in C
         /\ C \subseteq UriChars => Passed(p, SkipOver(p, C))
<1> DEFINE T == {q \in p..Size : q = Size \/ Char(q) \notin C}
<1>1. Size \in T /\ T \subseteq Nat
  OBVIOUS
<1>2. PICK q \in T : \A y \in T : q <= y
  BY <1>1, LeastElement
<1>3. q \in p..Size /\ (q = Size \/ Char(q) \notin C)
  BY <1>2
<1>4. ASSUME NEW k \in p..q - 1 PROVE Char(k) \in C
  BY <1>2, <1>3
<1> DEFINE Stop(x) == (x = Size \/ Char(x) \notin C) /\ \A k \in p..x - 1 : Char(k) \in C
<1>5. \E x \in p..Size : Stop(x)
  BY <1>3, <1>4
<1>6. SkipOver(p, C) = CHOOSE x \in p..Size : Stop(x)
  BY DEF SkipOver
<1> HIDE DEF Stop
<1>7. SkipOver(p, C) \in p..Size /\ Stop(SkipOver(p, C))
  BY <1>5, <1>6
<1> QED
  BY <1>7 DEF Stop, Passed

\* escaped: forward when it succeeds, else it stays or goes to the end.
LEMMA EscapedMoves ==
  ASSUME Size \in Nat, NEW p \in 0..Size
  PROVE  /\ escaped(p).ok \in BOOLEAN
         /\ escaped(p).pos \in p..Size
         /\ escaped(p).ok => p < Size /\ escaped(p).pos > p
         /\ ~escaped(p).ok => escaped(p).pos = p \/ escaped(p).pos = Size
         /\ Passed(p, escaped(p).pos)
         /\ escaped(p).ok => Passed(p, Next1(escaped(p).pos))
<1>1. has_next(p, Size) => p + 2 \in 0..Size \/ p + 1 = Size
  BY DEF has_next
<1>2. "nul" \notin HEX
  BY DEF HEX, DIGIT
<1>3. CASE /\ Char(p) = "%" /\ has_next(p, Size)
           /\ Char(p + 1) \in HEX /\ Char(p + 2) \in HEX
  <2>1. p + 2 \in 0..Size /\ p < Size
    BY <1>3 DEF has_next
  <2>2. p + 2 < Size
    BY <1>2, <1>3, <2>1, CharInText
  <2>3. Next1(p + 2) = p + 3 /\ p + 3 \in 0..Size
    BY <2>1, <2>2 DEF Next1, next_read_pos
  <2>4. escaped(p) = [ok |-> TRUE, pos |-> p + 3]
    BY <1>3, <2>3 DEF escaped
  <2>5. escaped(p).ok = TRUE /\ escaped(p).pos = p + 3
    BY <2>4
  <2>6. Passed(p, p + 3)
    <3>1. ASSUME NEW k \in p..p + 3 - 1 PROVE Char(k) \in UriChars
      <4>1. k = p \/ k = p + 1 \/ k = p + 2
        OBVIOUS
      <4>2. Char(p) \in UriChars
        BY <1>3, ClassesInUriChars
      <4>3. Char(p + 1) \in UriChars /\ Char(p + 2) \in UriChars
        BY <1>3, ClassesInUriChars
      <4> QED
        BY <4>1, <4>2, <4>3
    <3> QED
      BY <3>1 DEF Passed
  <2>7. Passed(p, Next1(p + 3))
    <3>1. CASE p + 3 < Size
      <4>1. Next1(p + 3) = p + 4
        BY <2>3, <3>1 DEF Next1, next_read_pos
      <4>2. BehindEscape(p + 3)
        BY <1>3 DEF BehindEscape
      <4>3. Passed(p + 3, p + 4)
        BY <4>2 DEF Passed
      <4> QED
        BY <2>3, <2>6, <4>1, <4>3, PassedParts
    <3>2. CASE p + 3 = Size
      <4>1. Next1(p + 3) = p + 3
        BY <3>2 DEF Next1, next_read_pos
      <4> QED
        BY <2>6, <4>1
    <3> QED
      BY <2>3, <3>1, <3>2
  <2>8. escaped(p).ok \in BOOLEAN
    BY <2>5, Zenon
  <2>9. escaped(p).pos \in p..Size /\ escaped(p).pos > p
    BY <2>3, <2>5
  <2> QED
    BY <2>1, <2>5, <2>6, <2>7, <2>8, <2>9
<1>4. CASE ~(/\ Char(p) = "%" /\ has_next(p, Size)
             /\ Char(p + 1) \in HEX /\ Char(p + 2) \in HEX)
  <2>1. \/ escaped(p) = [ok |-> FALSE, pos |-> p]
        \/ escaped(p) = [ok |-> FALSE, pos |-> Size]
    BY <1>4 DEF escaped
  <2>2. escaped(p).ok = FALSE
    BY <2>1
  <2>3. escaped(p).pos = p \/ escaped(p).pos = Size
    BY <2>1
  <2>4. escaped(p).pos \in p..Size
    BY <2>3
  <2>5. Passed(p, escaped(p).pos)
    <3>1. CASE escaped(p).pos = p
      BY <3>1, PassedParts
    <3>2. CASE escaped(p).pos # p
      <4>1. Char(p) = "%" /\ ~has_next(p, Size) /\ escaped(p).pos = Size
        BY <1>4, <3>2 DEF escaped
      <4>2. p + 1 = Size
        BY <4>1 DEF Char, has_next
      <4> QED
        BY <4>1, <4>2, DelimiterPasses
    <3> QED
      BY <3>1, <3>2
  <2> QED
    BY <2>2, <2>3, <2>4, <2>5, Zenon
<1> QED
  BY <1>3, <1>4

\* The loop over the characters of a class and escapes stops in the text, at
\* a character that is not in the class; where, its rounds say.
LEMMA SkipEscapedStops ==
  ASSUME Size \in Nat, NEW p \in 0..Size, NEW C, "nul" \notin C
  PROVE  /\ SkipEscaped(p, C) \in p..Size /\ Char(SkipEscaped(p, C)) \notin C
         /\ C \subseteq UriChars => Passed(p, SkipEscaped(p, C))
         /\ SkipEscaped(p, C) =
              IF Char(p) \in C THEN SkipEscaped(Next1(p), C)
              ELSE IF escaped(p).ok THEN SkipEscaped(Next1(escaped(p).pos), C)
              ELSE escaped(p).pos
<1> DEFINE More == {q \in 0..Size : Char(q) \in C \/ escaped(q).ok}
           step == [q \in 0..Size |-> IF Char(q) \in C THEN Next1(q)
                                      ELSE Next1(escaped(q).pos)]
           stop == [q \in 0..Size |-> escaped(q).pos]
           IsSkip(g) == g = [q \in 0..Size |->
                               IF Char(q) \in C THEN g[Next1(q)]
                               ELSE LET e == escaped(q)
                                    IN IF e.ok THEN g[Next1(e.pos)] ELSE e.pos]
           skip == CHOOSE g : IsSkip(g)
           P == {q \in 0..Size : Char(q) \notin C}
<1>1. ASSUME NEW q \in 0..Size
      PROVE  /\ step[q] \in 0..Size /\ stop[q] \in 0..Size
             /\ IF q \in More THEN step[q] > q ELSE stop[q] >= q
             /\ q \notin More => stop[q] \in P
  <2>1. Char(q) \in C => q < Size
    BY CharInText
  <2>2. /\ escaped(q).pos \in q..Size
        /\ escaped(q).ok => escaped(q).pos > q
        /\ ~escaped(q).ok => escaped(q).pos = q \/ escaped(q).pos = Size
    BY EscapedMoves
  <2>3. /\ Next1(q) \in q..Size /\ (q < Size => Next1(q) = q + 1)
        /\ Next1(escaped(q).pos) \in escaped(q).pos..Size
    BY <2>2, NextMoves
  <2>4. Char(Size) \notin C
    BY CharInText
  <2> QED
    BY <2>1, <2>2, <2>3, <2>4
<1>2. IsLoop(Size, More, step, stop)
  <2>1. /\ step \in [0..Size -> 0..Size] /\ stop \in [0..Size -> 0..Size]
    BY <1>1
  <2> HIDE DEF More, step, stop
  <2> QED
    BY <1>1, <2>1 DEF IsLoop
<1>3. \A q \in 0..Size : q \notin More => stop[q] \in P
  BY <1>1
<1>a. C \subseteq UriChars =>
        \A q \in 0..Size : Passed(q, IF q \in More THEN step[q] ELSE stop[q])
  <2> SUFFICES ASSUME C \subseteq UriChars, NEW q \in 0..Size
               PROVE  Passed(q, IF q \in More THEN step[q] ELSE stop[q])
    OBVIOUS
  <2>1. CASE Char(q) \in C
    <3>1. q < Size /\ Next1(q) = q + 1
      BY <2>1, CharInText, NextMoves
    <3>2. Passed(q, q + 1)
      BY <2>1, PassedParts
    <3>3. q \in More /\ step[q] = q + 1
      BY <2>1, <3>1
    <3> QED
      BY <3>2, <3>3
  <2>2. CASE Char(q) \notin C
    <3>1. /\ Passed(q, escaped(q).pos)
          /\ escaped(q).ok => Passed(q, Next1(escaped(q).pos))
      BY EscapedMoves
    <3>2. /\ q \in More <=> escaped(q).ok
          /\ step[q] = Next1(escaped(q).pos) /\ stop[q] = escaped(q).pos
      BY <2>2
    <3> HIDE DEF More, step, stop
    <3> QED
      BY <3>1, <3>2
  <2> QED
    BY <2>1, <2>2
<1>4. ASSUME NEW g
      PROVE  Unrolled(g, Size, More, step, stop) <=> IsSkip(g)
  BY DEF Unrolled
<1>5. \A q : SkipEscaped(q, C) = skip[q]
  BY DEF SkipEscaped
<1> HIDE DEF More, step, stop, IsSkip, P
<1>6. \E g : IsSkip(g)
  BY <1>2, <1>4, LoopIsDefined
<1>7. IsSkip(skip)
  BY <1>6
<1>b. skip[p] = IF Char(p) \in C THEN skip[Next1(p)]
                ELSE IF escaped(p).ok THEN skip[Next1(escaped(p).pos)]
                ELSE escaped(p).pos
  BY <1>7 DEF IsSkip
<1> HIDE DEF skip
<1>8. Unrolled(skip, Size, More, step, stop)
  BY <1>4, <1>7
<1>9. \A q \in 0..Size : skip[q] \in q..Size /\ skip[q] \in P
  BY <1>2, <1>3, <1>8, LoopStops
<1>10. C \subseteq UriChars => Passed(p, skip[p])
  BY <1>2, <1>a, <1>8, LoopPasses
<1>11. SkipEscaped(p, C) =
         IF Char(p) \in C THEN SkipEscaped(Next1(p), C)
         ELSE IF escaped(p).ok THEN SkipEscaped(Next1(escaped(p).pos), C)
         ELSE escaped(p).pos
  BY <1>5, <1>b
<1> QED
  BY <1>5, <1>9, <1>10, <1>11 DEF P

\* The classes of the grammar do not hold the end of the text.
LEMMA ClassesInText ==
  /\ "nul" \notin LOWALPHA /\ "nul" \notin DIGIT /\ "nul" \notin ALPHANUM
  /\ "nul" \notin URIC /\ "nul" \notin PCHAR /\ "nul" \notin USERINFO
  /\ "nul" \notin REL_SEGMENT /\ "nul" \notin URIC_NO_SLASH
<1>1. "nul" \notin LOWALPHA /\ "nul" \notin DIGIT
  BY DEF LOWALPHA, DIGIT
<1>2. "nul" \notin MARK /\ "nul" \notin RESERVED
  BY DEF MARK, RESERVED
<1>3. "nul" \notin UNRESERVED /\ "nul" \notin ALPHANUM
  BY <1>1, <1>2 DEF UNRESERVED, ALPHANUM
<1> QED
  BY <1>1, <1>2, <1>3 DEF URIC, PCHAR, USERINFO, REL_SEGMENT, URIC_NO_SLASH

\* A character or an escape, then the loop.
LEMMA LeadingMoves ==
  ASSUME Size \in Nat, NEW p \in 0..Size, NEW First, NEW C,
         "nul" \notin First, "nul" \notin C, First \subseteq UriChars, C \subseteq UriChars
  PROVE  /\ Leading(p, First, C).ok \in BOOLEAN
         /\ Leading(p, First, C).pos \in p..Size
         /\ Leading(p, First, C).ok => Char(Leading(p, First, C).pos) \notin C
         /\ Passed(p, Leading(p, First, C).pos)
<1> DEFINE L == Leading(p, First, C)
<1>1. /\ escaped(p).ok \in BOOLEAN /\ escaped(p).pos \in p..Size
      /\ Passed(p, escaped(p).pos)
      /\ escaped(p).ok => Passed(p, Next1(escaped(p).pos))
  BY EscapedMoves
<1>2. /\ Next1(p) \in p..Size /\ Next1(escaped(p).pos) \in p..Size
      /\ p < Size => Next1(p) = p + 1
  BY <1>1, NextMoves
<1>3. Char(p) \in First => Passed(p, Next1(p))
  <2>1. Char(p) \in First => p < Size
    BY CharInText
  <2> QED
    BY <1>2, <2>1, PassedParts
<1>4. ASSUME NEW q \in p..Size, Passed(p, q)
      PROVE  /\ SkipEscaped(q, C) \in p..Size /\ Char(SkipEscaped(q, C)) \notin C
             /\ Passed(p, SkipEscaped(q, C))
  <2>1. q \in 0..Size
    OBVIOUS
  <2>2. /\ SkipEscaped(q, C) \in q..Size /\ Char(SkipEscaped(q, C)) \notin C
        /\ Passed(q, SkipEscaped(q, C))
    BY <2>1, SkipEscapedStops
  <2>3. SkipEscaped(q, C) \in Nat /\ SkipEscaped(q, C) \in p..Size
    BY <2>2
  <2> QED
    BY <1>4, <2>1, <2>2, <2>3, PassedParts
<1>5. CASE Char(p) \in First
  <2>1. L.ok = TRUE /\ L.pos = SkipEscaped(Next1(p), C)
    BY <1>5 DEF Leading
  <2> QED
    BY <1>2, <1>3, <1>4, <1>5, <2>1
<1>6. CASE Char(p) \notin First /\ escaped(p).ok
  <2>1. L.ok = TRUE /\ L.pos = SkipEscaped(Next1(escaped(p).pos), C)
    BY <1>6 DEF Leading
  <2> QED
    BY <1>1, <1>2, <1>4, <1>6, <2>1
<1>7. CASE Char(p) \notin First /\ ~escaped(p).ok
  <2>1. L = escaped(p)
    BY <1>7 DEF Leading
  <2> QED
    BY <1>1, <1>7, <2>1, Zenon
<1> QED
  BY <1>5, <1>6, <1>7

\* A label: it begins with a character of First, and ends in none but a letter or
\* digit when the text goes on behind it.
LabelIn(p, q, First) ==
  /\ p < q /\ Char(p) \in First
  /\ \A k \in p + 1..q - 1 : Char(k) \in ALPHANUM \cup {"-"}
  /\ q < Size => Char(q - 1) # "-"

\* domainlabel and toplabel
LEMMA LabelMoves ==
  ASSUME Size \in Nat, NEW p \in 0..Size, NEW First, "nul" \notin First,
         First \subseteq UriChars
  PROVE  /\ Label(p, First) \in [ok : BOOLEAN, pos : p..Size]
         /\ Label(p, First).ok => LabelIn(p, Label(p, First).pos, First)
         /\ Passed(p, Label(p, First).pos)
<1> DEFINE q == SkipOver(Next1(p), ALPHANUM \cup {"-"})
           L == Label(p, First)
<1>1. Next1(p) \in 0..Size /\ Next1(p) \in p..Size /\ (p < Size => Next1(p) = p + 1)
  BY NextMoves
<1>2. /\ q \in Next1(p)..Size /\ Passed(Next1(p), q)
      /\ \A k \in Next1(p)..q - 1 : Char(k) \in ALPHANUM \cup {"-"}
  BY <1>1, SkipOverStops, ClassesInUriChars
<1> HIDE DEF q
<1>3. Char(p) \in First => p < Size
  BY CharInText
<1>4. \/ /\ Char(p) \in First /\ ~(q < Size /\ uri[q] = "-")
         /\ L = [ok |-> TRUE, pos |-> q]
      \/ L = [ok |-> FALSE, pos |-> p]
  BY DEF Label, q
<1>5. CASE /\ Char(p) \in First /\ ~(q < Size /\ uri[q] = "-")
           /\ L = [ok |-> TRUE, pos |-> q]
  <2>1. L.ok = TRUE /\ L.pos = q
    BY <1>5
  <2>2. Passed(p, Next1(p))
    BY <1>1, <1>3, <1>5, PassedParts
  <2>3. Passed(p, q)
    BY <1>1, <1>2, <2>2, PassedParts
  <2>4. q \in p + 1..Size
    BY <1>1, <1>2, <1>3, <1>5
  <2>5. LabelIn(p, q, First)
    <3>1. q < Size => Char(q - 1) # "-"
      BY <1>5, <2>4 DEF Char
    <3> QED
      BY <1>1, <1>2, <1>3, <1>5, <2>4, <3>1 DEF LabelIn
  <2> QED
    BY <1>5, <2>1, <2>3, <2>4, <2>5
<1>6. CASE L = [ok |-> FALSE, pos |-> p]
  <2>1. L.ok = FALSE /\ L.pos = p /\ L \in [ok : BOOLEAN, pos : p..Size]
    BY <1>6
  <2>2. Passed(p, L.pos)
    BY <2>1, PassedParts
  <2> QED
    BY <2>1, <2>2, Zenon
<1> QED
  BY <1>4, <1>5, <1>6

\* hostname: the loop over the labels ends at the last one.
LastLabel(last) ==
  \A q \in 0..Size :
    LET l == domainlabel(q)
        next == Next1(l.pos)
    IN last[q] = IF l.ok /\ Char(l.pos) = "." /\ domainlabel(next).ok THEN last[next] ELSE q

LEMMA HostnameMoves ==
  ASSUME Size \in Nat, NEW p \in 0..Size
  PROVE  /\ hostname(p) \in [ok : BOOLEAN, pos : p..Size] /\ Passed(p, hostname(p).pos)
         /\ \E last :
              /\ LastLabel(last) /\ last[p] \in p..Size
              /\ hostname(p).ok =>
                   LET top == toplabel(last[p])
                   IN /\ top.ok
                      /\ hostname(p).pos = IF Char(top.pos) = "." THEN Next1(top.pos) ELSE top.pos
<1> DEFINE More == {q \in 0..Size : /\ domainlabel(q).ok
                                    /\ Char(domainlabel(q).pos) = "."
                                    /\ domainlabel(Next1(domainlabel(q).pos)).ok}
           step == [q \in 0..Size |-> Next1(domainlabel(q).pos)]
           stop == [q \in 0..Size |-> q]
           IsLast(g) == g = [q \in 0..Size |->
                               LET l == domainlabel(q)
                                   next == Next1(l.pos)
                               IN IF l.ok /\ Char(l.pos) = "." /\ domainlabel(next).ok
                                  THEN g[next] ELSE q]
           last == CHOOSE g : IsLast(g)
           top == toplabel(last[p])
<1>1. ASSUME NEW q \in 0..Size
      PROVE  /\ domainlabel(q).pos \in q..Size
             /\ domainlabel(q).ok => q < domainlabel(q).pos
             /\ toplabel(q) \in [ok : BOOLEAN, pos : q..Size]
             /\ Passed(q, domainlabel(q).pos) /\ Passed(q, toplabel(q).pos)
  BY ClassesInText, ClassesInUriChars, LabelMoves
     DEF domainlabel, toplabel, LabelIn
<1>2. IsLoop(Size, More, step, stop)
  <2>1. ASSUME NEW q \in 0..Size
        PROVE  /\ step[q] \in 0..Size /\ stop[q] \in 0..Size /\ stop[q] = q
               /\ q \in More => step[q] > q
    <3>1. domainlabel(q).pos \in 0..Size
      BY <1>1
    <3>2. Next1(domainlabel(q).pos) \in domainlabel(q).pos..Size
      BY <3>1, NextMoves
    <3> QED
      BY <1>1, <3>2
  <2>2. step \in [0..Size -> 0..Size] /\ stop \in [0..Size -> 0..Size]
    BY <2>1
  <2> HIDE DEF More, step, stop
  <2>3. ASSUME NEW q \in 0..Size PROVE IF q \in More THEN step[q] > q ELSE stop[q] >= q
    <3>1. stop[q] >= q
      BY <2>1
    <3> QED
      BY <2>1, <3>1
  <2> QED
    BY <2>2, <2>3 DEF IsLoop
<1>a. ASSUME NEW q \in 0..Size PROVE Passed(q, IF q \in More THEN step[q] ELSE stop[q])
  <2>1. CASE q \in More
    <3>1. domainlabel(q).pos \in 0..Size /\ Char(domainlabel(q).pos) = "."
      BY <1>1, <2>1
    <3>2. domainlabel(q).pos < Size
      BY <3>1 DEF Char
    <3>3. step[q] = domainlabel(q).pos + 1
      BY <3>1, <3>2, NextMoves
    <3> HIDE DEF More, step, stop
    <3>4. Passed(domainlabel(q).pos, step[q])
      BY <3>1, <3>3, DelimiterPasses
    <3>5. Passed(q, step[q])
      BY <1>1, <3>1, <3>3, <3>4, PassedParts
    <3> QED
      BY <2>1, <3>5
  <2>2. CASE q \notin More
    <3>1. stop[q] = q
      OBVIOUS
    <3> HIDE DEF More, step, stop
    <3> QED
      BY <2>2, <3>1, PassedParts
  <2> QED
    BY <2>1, <2>2
<1>3. ASSUME NEW g PROVE Unrolled(g, Size, More, step, stop) <=> IsLast(g)
  BY DEF Unrolled
<1>4. \/ hostname(p) = [ok |-> FALSE, pos |-> p]
      \/ top.ok /\ hostname(p) = [top EXCEPT !.pos = IF Char(@) = "." THEN Next1(@) ELSE @]
  BY DEF hostname
<1> HIDE DEF More, step, IsLast
<1>5. \E g : IsLast(g)
  BY <1>2, <1>3, LoopIsDefined
<1>6. IsLast(last)
  BY <1>5
<1>c. LastLabel(last)
  BY <1>6 DEF IsLast, LastLabel
<1> HIDE DEF last
<1>7. Unrolled(last, Size, More, step, stop)
  BY <1>3, <1>6
<1> HIDE DEF stop
<1>9. last[p] \in p..Size /\ Passed(p, last[p])
  BY <1>2, <1>7, <1>a, LoopPasses
<1>10. top \in [ok : BOOLEAN, pos : last[p]..Size]
  BY <1>1, <1>9
<1>11. top \in [ok : BOOLEAN, pos : p..Size]
  BY <1>9, <1>10
<1>b. Passed(p, top.pos)
  <2>1. Passed(last[p], top.pos)
    BY <1>1, <1>9
  <2>2. last[p] \in Nat /\ top.pos \in Nat
    BY <1>9, <1>11
  <2> QED
    BY <1>9, <2>1, <2>2, PassedParts
<1> HIDE DEF top
<1>12. /\ Next1(top.pos) \in p..Size
       /\ Char(top.pos) = "." => Passed(p, Next1(top.pos))
  <2>1. top.pos \in 0..Size
    BY <1>11
  <2>2. /\ Next1(top.pos) \in top.pos..Size
        /\ top.pos < Size => Next1(top.pos) = top.pos + 1
    BY <2>1, NextMoves
  <2>3. Char(top.pos) = "." => top.pos < Size
    BY <2>1 DEF Char
  <2>4. Char(top.pos) = "." => Passed(top.pos, Next1(top.pos))
    BY <2>1, <2>2, <2>3, DelimiterPasses
  <2>5. Next1(top.pos) \in p..Size
    BY <1>11, <2>2
  <2> QED
    BY <1>b, <2>1, <2>4, <2>5, PassedParts
<1>13. [top EXCEPT !.pos = IF Char(@) = "." THEN Next1(@) ELSE @]
         \in [ok : BOOLEAN, pos : p..Size]
  BY <1>11, <1>12
<1>14. [ok |-> FALSE, pos |-> p] \in [ok : BOOLEAN, pos : p..Size]
  OBVIOUS
<1>15. hostname(p) \in [ok : BOOLEAN, pos : p..Size]
  BY <1>4, <1>13, <1>14, Zenon
<1>16. \/ hostname(p).ok = FALSE /\ hostname(p).pos = p
       \/ /\ top.ok
          /\ hostname(p).pos = IF Char(top.pos) = "." THEN Next1(top.pos) ELSE top.pos
  BY <1>4, <1>11
<1>17. Passed(p, hostname(p).pos)
  BY <1>b, <1>12, <1>16, PassedParts
<1>18. hostname(p).ok =>
         /\ toplabel(last[p]).ok
         /\ hostname(p).pos = IF Char(toplabel(last[p]).pos) = "."
                              THEN Next1(toplabel(last[p]).pos) ELSE toplabel(last[p]).pos
  BY <1>16 DEF top
<1> QED
  BY <1>9, <1>c, <1>15, <1>17, <1>18

\* IPv4address and its numbers
LEMMA OctetMoves ==
  ASSUME Size \in Nat, NEW p \in 0..Size, NEW dot \in BOOLEAN,
         NEW a \in [ok : BOOLEAN, pos : p..Size], Passed(p, a.pos)
  PROVE  /\ Octet(a, dot) \in [ok : BOOLEAN, pos : p..Size] /\ Passed(p, Octet(a, dot).pos)
         /\ Octet(a, dot).ok =>
              /\ a.ok
              /\ \E q \in a.pos + 1..Size :
                   /\ \A k \in a.pos..q - 1 : Char(k) \in DIGIT
                   /\ IF dot THEN Char(q) = "." /\ Octet(a, dot).pos = q + 1
                      ELSE Octet(a, dot).pos = q
<1> DEFINE q == SkipOver(Next1(a.pos), DIGIT)
           O == Octet(a, dot)
<1>1. a.pos \in p..Size /\ a.pos \in 0..Size
  OBVIOUS
<1>2. /\ Next1(a.pos) \in a.pos..Size /\ Next1(a.pos) \in 0..Size
      /\ a.pos < Size => Next1(a.pos) = a.pos + 1
  BY <1>1, NextMoves
<1>3. /\ q \in Next1(a.pos)..Size /\ Passed(Next1(a.pos), q)
      /\ \A k \in Next1(a.pos)..q - 1 : Char(k) \in DIGIT
  BY <1>2, SkipOverStops, ClassesInUriChars
<1> HIDE DEF q
<1>4. q \in p..Size /\ q \in 0..Size
  BY <1>1, <1>2, <1>3
<1>5. q < Size => Next1(q) = q + 1 /\ q + 1 \in p..Size
  BY <1>4, NextMoves
<1>6. \/ O = [ok |-> FALSE, pos |-> a.pos]
      \/ /\ a.ok /\ Char(a.pos) \in DIGIT
         /\ IF dot THEN O = [ok |-> TRUE, pos |-> Next1(q)] /\ Char(q) = "."
            ELSE O = [ok |-> TRUE, pos |-> q]
  BY DEF Octet, q
<1>7. ASSUME Char(a.pos) \in DIGIT
      PROVE  /\ Passed(p, q) /\ q \in a.pos + 1..Size
             /\ \A k \in a.pos..q - 1 : Char(k) \in DIGIT
  <2>1. a.pos < Size
    BY <1>1, <1>7, ClassesInText, CharInText
  <2>2. Passed(a.pos, a.pos + 1)
    BY <1>1, <1>7, ClassesInUriChars, CharPasses
  <2>3. Passed(p, a.pos + 1) /\ Next1(a.pos) = a.pos + 1
    BY <1>1, <1>2, <2>1, <2>2, PassedParts
  <2>4. Passed(p, q)
    BY <1>1, <1>3, <1>4, <2>3, PassedParts
  <2>5. ASSUME NEW k \in a.pos..q - 1 PROVE Char(k) \in DIGIT
    BY <1>1, <1>3, <1>7, <2>3
  <2> QED
    BY <1>1, <1>3, <2>3, <2>4, <2>5
<1>8. ASSUME Char(q) = ".", Passed(p, q)
      PROVE  Next1(q) = q + 1 /\ q + 1 \in p..Size /\ Passed(p, q + 1)
  <2>1. q < Size
    BY <1>4, <1>8 DEF Char
  <2>2. Passed(q, q + 1)
    BY <1>4, <1>8, DelimiterPasses
  <2> QED
    BY <1>4, <1>5, <1>8, <2>1, <2>2, PassedParts
<1> HIDE DEF O
<1>9. CASE O = [ok |-> FALSE, pos |-> a.pos]
  BY <1>1, <1>9 DEF O
<1>10. CASE ~dot /\ a.ok /\ Char(a.pos) \in DIGIT /\ O = [ok |-> TRUE, pos |-> q]
  <2>1. O.ok = TRUE /\ O.pos = q
    BY <1>10
  <2> QED
    BY <1>4, <1>7, <1>10, <2>1 DEF O
<1>11. CASE /\ dot /\ a.ok /\ Char(a.pos) \in DIGIT /\ Char(q) = "."
            /\ O = [ok |-> TRUE, pos |-> Next1(q)]
  <2>1. Passed(p, q + 1) /\ Next1(q) = q + 1 /\ q + 1 \in p..Size
    BY <1>7, <1>8, <1>11
  <2>2. O.ok = TRUE /\ O.pos = q + 1
    BY <1>11, <2>1
  <2> QED
    BY <1>7, <1>11, <2>1, <2>2 DEF O
<1> QED
  BY <1>6, <1>9, <1>10, <1>11

LEMMA IPv4addressMoves ==
  ASSUME Size \in Nat, NEW p \in 0..Size
  PROVE  IPv4address(p) \in [ok : BOOLEAN, pos : p..Size] /\ Passed(p, IPv4address(p).pos)
<1> DEFINE a == [ok |-> TRUE, pos |-> p]
<1>1. a \in [ok : BOOLEAN, pos : p..Size] /\ Passed(p, a.pos)
  BY PassedParts
<1> HIDE DEF a
<1>2. /\ Octet(a, TRUE) \in [ok : BOOLEAN, pos : p..Size]
      /\ Passed(p, Octet(a, TRUE).pos)
  BY <1>1, OctetMoves
<1>3. /\ Octet(Octet(a, TRUE), TRUE) \in [ok : BOOLEAN, pos : p..Size]
      /\ Passed(p, Octet(Octet(a, TRUE), TRUE).pos)
  BY <1>2, OctetMoves
<1>4. /\ Octet(Octet(Octet(a, TRUE), TRUE), TRUE) \in [ok : BOOLEAN, pos : p..Size]
      /\ Passed(p, Octet(Octet(Octet(a, TRUE), TRUE), TRUE).pos)
  BY <1>3, OctetMoves
<1> QED
  BY <1>4, OctetMoves DEF IPv4address, a

-----------------------------------------------------------------------------
\* The components lie in the text.
Inside(f) ==
  /\ f \in [Fields -> [at : Nat, len : Nat, init : BOOLEAN]]
  /\ \A x \in Fields : f[x].at + f[x].len <= Size

\* The component x of f is set, and it is what lies between p and q.
IsAt(f, x, p, q) == f[x] = [at |-> p, len |-> q - p, init |-> TRUE]

\* The components of T are the only ones that differ in g.
OnlyIn(T, f, g) == \A x \in Fields \ T : g[x] = f[x]

\* What a parsing function gives from p on, when it sets components of T only.
Parsed(r, p, f, T) ==
  /\ r.ok \in BOOLEAN /\ r.pos \in p..Size /\ Passed(p, r.pos)
  /\ Inside(r.f) /\ OnlyIn(T, f, r.f)

LEMMA NoFieldsInside == ASSUME Size \in Nat PROVE Inside(NoFields)
  BY DEF Inside, NoFields, Unset

\* Setting a component to what lies between two positions.
LEMMA SetInside ==
  ASSUME Size \in Nat, NEW f, Inside(f), NEW x \in Fields,
         NEW p \in 0..Size, NEW q \in p..Size
  PROVE  /\ Inside(Set(f, x, p, q)) /\ IsAt(Set(f, x, p, q), x, p, q)
         /\ OnlyIn({x}, f, Set(f, x, p, q))
<1> DEFINE v == [at |-> p, len |-> q - p, init |-> TRUE]
<1>1. Set(f, x, p, q) = [f EXCEPT ![x] = v]
  BY DEF Set
<1>2. v \in [at : Nat, len : Nat, init : BOOLEAN] /\ v.at + v.len <= Size
  OBVIOUS
<1> HIDE DEF v
<1>3. /\ [f EXCEPT ![x] = v] \in [Fields -> [at : Nat, len : Nat, init : BOOLEAN]]
      /\ [f EXCEPT ![x] = v][x] = v
      /\ \A y \in Fields \ {x} : [f EXCEPT ![x] = v][y] = f[y]
  BY <1>2 DEF Inside
<1>4. Inside([f EXCEPT ![x] = v])
  BY <1>2, <1>3 DEF Inside
<1> QED
  BY <1>1, <1>3, <1>4 DEF IsAt, OnlyIn, v

\* Taking a component back.
LEMMA UnsetInside ==
  ASSUME Size \in Nat, NEW f, Inside(f), NEW x \in Fields
  PROVE  /\ Inside([f EXCEPT ![x] = Unset]) /\ [f EXCEPT ![x] = Unset][x] = Unset
         /\ OnlyIn({x}, f, [f EXCEPT ![x] = Unset])
<1>1. Unset \in [at : Nat, len : Nat, init : BOOLEAN] /\ Unset.at + Unset.len = 0
  BY DEF Unset
<1>2. /\ [f EXCEPT ![x] = Unset] \in [Fields -> [at : Nat, len : Nat, init : BOOLEAN]]
      /\ [f EXCEPT ![x] = Unset][x] = Unset
      /\ \A y \in Fields \ {x} : [f EXCEPT ![x] = Unset][y] = f[y]
  BY <1>1 DEF Inside
<1> QED
  BY <1>1, <1>2 DEF Inside, OnlyIn

\* The results of a parsing function that took the component x, or failed.
LEMMA TookParsed ==
  ASSUME Size \in Nat, NEW f, Inside(f), NEW x \in Fields,
         NEW p \in 0..Size, NEW q \in p..Size, Passed(p, q)
  PROVE  /\ Took(x, p, q, f).ok = TRUE /\ Took(x, p, q, f).pos = q
         /\ Took(x, p, q, f).f = Set(f, x, p, q)
         /\ Parsed(Took(x, p, q, f), p, f, {x}) /\ IsAt(Took(x, p, q, f).f, x, p, q)
<1>1. /\ Took(x, p, q, f).ok = TRUE /\ Took(x, p, q, f).pos = q
      /\ Took(x, p, q, f).f = Set(f, x, p, q)
  BY DEF Took, Ok
<1> QED
  BY <1>1, SetInside DEF Parsed

LEMMA FailParsed ==
  ASSUME Size \in Nat, NEW f, Inside(f), NEW p \in 0..Size
  PROVE  /\ Fail(p, f).ok = FALSE /\ Fail(p, f).pos = p /\ Fail(p, f).f = f
         /\ Parsed(Fail(p, f), p, f, {})
<1>1. p \in p..Size /\ Passed(p, p)
  BY PassedParts
<1> QED
  BY <1>1 DEF Parsed, Fail, OnlyIn

\* A function that parses on from where another one has stopped.
LEMMA ParsedOn ==
  ASSUME NEW p \in Nat, NEW q \in p..Size, Passed(p, q),
         NEW f, NEW g, NEW S, NEW T, NEW U, NEW r, OnlyIn(S, f, g), Parsed(r, q, g, T),
         S \cup T \subseteq U
  PROVE  Parsed(r, p, f, U)
<1>1. r.pos \in q..Size /\ Passed(q, r.pos)
  BY DEF Parsed
<1>2. r.pos \in p..Size /\ Passed(p, r.pos)
  <2>1. q \in Nat /\ r.pos \in Nat /\ r.pos \in p..Size
    BY <1>1
  <2> QED
    BY <1>1, <2>1, PassedParts
<1>3. OnlyIn(U, f, r.f)
  BY DEF Parsed, OnlyIn
<1> QED
  BY <1>2, <1>3 DEF Parsed

-----------------------------------------------------------------------------
\* The functions that take one component.
LEMMA SchemeParsed ==
  ASSUME Size \in Nat, NEW p \in 0..Size, NEW f
  PROVE  \/ scheme(p, f) = Fail(p, f)
         \/ \E q \in p..Size : Passed(p, q) /\ scheme(p, f) = Took("scheme", p, q, f)
<1> SUFFICES ASSUME Char(p) \in LOWALPHA
             PROVE  LET q == SkipOver(Next1(p), SCHEME) IN q \in p..Size /\ Passed(p, q)
  BY DEF scheme
<1>1. p < Size /\ Next1(p) = p + 1 /\ p + 1 \in 0..Size
  BY ClassesInText, CharInText, NextMoves
<1>2. Passed(p, p + 1)
  BY ClassesInUriChars, CharPasses
<1>3. SkipOver(p + 1, SCHEME) \in p + 1..Size /\ Passed(p + 1, SkipOver(p + 1, SCHEME))
  BY <1>1, ClassesInUriChars, SkipOverStops
<1>4. SkipOver(p + 1, SCHEME) \in p..Size /\ SkipOver(p + 1, SCHEME) \in Nat
  BY <1>3
<1> QED
  BY <1>1, <1>2, <1>3, <1>4, PassedParts

LEMMA PortParsed ==
  ASSUME Size \in Nat, NEW p \in 0..Size, NEW f
  PROVE  \/ port(p, f) = Fail(p, f)
         \/ \E q \in p..Size : Passed(p, q) /\ port(p, f) = Took("port", p, q, f)
  BY SkipOverStops, ClassesInUriChars DEF port

LEMMA HostParsed ==
  ASSUME Size \in Nat, NEW p \in 0..Size, NEW f
  PROVE  \/ host(p, f) = Fail(p, f)
         \/ \E q \in p..Size : Passed(p, q) /\ host(p, f) = Took("host", p, q, f)
<1> DEFINE b == IF hostname(p).ok THEN hostname(p) ELSE IPv4address(p)
<1>1. b.pos \in p..Size /\ Passed(p, b.pos)
  <2>1. /\ hostname(p).pos \in p..Size /\ IPv4address(p).pos \in p..Size
        /\ Passed(p, hostname(p).pos) /\ Passed(p, IPv4address(p).pos)
    BY HostnameMoves, IPv4addressMoves
  <2> QED
    BY <2>1
<1>2. host(p, f) = IF b.ok THEN Took("host", p, b.pos, f) ELSE Fail(p, f)
  BY DEF host
<1> QED
  BY <1>1, <1>2

LEMMA QueryParsed ==
  ASSUME Size \in Nat, NEW p \in 0..Size, NEW f
  PROVE  \E q \in p..Size : Passed(p, q) /\ query(p, f) = Took("query", p, q, f)
  BY ClassesInText, ClassesInUriChars, SkipEscapedStops DEF query

LEMMA FragmentParsed ==
  ASSUME Size \in Nat, NEW p \in 0..Size, NEW f
  PROVE  \E q \in p..Size : Passed(p, q) /\ fragment(p, f) = Took("fragment", p, q, f)
  BY ClassesInText, ClassesInUriChars, SkipEscapedStops DEF fragment

\* A segment with its params
LEMMA SegmentMoves ==
  ASSUME Size \in Nat, NEW p \in 0..Size
  PROVE  /\ segment(p) \in p..Size /\ Passed(p, segment(p))
         /\ segment(p) = IF Char(SkipEscaped(p, PCHAR)) = ";"
                        THEN segment(Next1(SkipEscaped(p, PCHAR))) ELSE SkipEscaped(p, PCHAR)
<1> DEFINE More == {q \in 0..Size : Char(q) = ";"}
           step == [q \in 0..Size |-> SkipEscaped(Next1(q), PCHAR)]
           stop == [q \in 0..Size |-> q]
           IsParams(g) == g = [q \in 0..Size |->
                                 IF Char(q) = ";" THEN g[SkipEscaped(Next1(q), PCHAR)] ELSE q]
           params == CHOOSE g : IsParams(g)
<1>1. /\ IsLoop(Size, More, step, stop)
      /\ \A q \in 0..Size : Passed(q, IF q \in More THEN step[q] ELSE stop[q])
  <2>1. ASSUME NEW q \in 0..Size
        PROVE  /\ step[q] \in 0..Size /\ stop[q] \in 0..Size /\ stop[q] = q
               /\ q \in More => step[q] > q /\ Passed(q, step[q])
    <3>1. Next1(q) \in 0..Size /\ Next1(q) \in q..Size /\ (q < Size => Next1(q) = q + 1)
      BY NextMoves
    <3>2. /\ SkipEscaped(Next1(q), PCHAR) \in Next1(q)..Size
          /\ Passed(Next1(q), SkipEscaped(Next1(q), PCHAR))
      BY <3>1, ClassesInText, ClassesInUriChars, SkipEscapedStops
    <3>3. Char(q) = ";" => q < Size
      BY DEF Char
    <3>4. /\ step[q] = SkipEscaped(Next1(q), PCHAR) /\ stop[q] = q
          /\ q \in More <=> Char(q) = ";"
      OBVIOUS
    <3> HIDE DEF More, step, stop
    <3> QED
      <4>1. step[q] \in Next1(q)..Size
        BY <3>2, <3>4
      <4>2. step[q] \in 0..Size
        BY <3>1, <4>1
      <4>3. q \in More => step[q] > q /\ Passed(q, step[q])
        <5> SUFFICES ASSUME q \in More PROVE step[q] > q /\ Passed(q, step[q])
          OBVIOUS
        <5>1. Next1(q) = q + 1 /\ q < Size
          BY <3>1, <3>3, <3>4
        <5>2. Passed(q, q + 1)
          BY <3>4, DelimiterPasses
        <5>3. Passed(q + 1, step[q])
          BY <3>2, <3>4, <5>1
        <5>4. Passed(q, step[q])
          BY <4>2, <5>2, <5>3, PassedParts
        <5>5. step[q] > q
          BY <4>1, <5>1
        <5> QED
          BY <5>4, <5>5
      <4> QED
        BY <3>4, <4>2, <4>3
  <2>2. step \in [0..Size -> 0..Size] /\ stop \in [0..Size -> 0..Size]
    BY <2>1
  <2> HIDE DEF More, step, stop
  <2>3. ASSUME NEW q \in 0..Size PROVE IF q \in More THEN step[q] > q ELSE stop[q] >= q
    <3>1. stop[q] >= q
      BY <2>1
    <3> QED
      BY <2>1, <3>1
  <2>4. ASSUME NEW q \in 0..Size PROVE Passed(q, IF q \in More THEN step[q] ELSE stop[q])
    BY <2>1, PassedParts
  <2> QED
    BY <2>2, <2>3, <2>4 DEF IsLoop
<1>2. ASSUME NEW g PROVE Unrolled(g, Size, More, step, stop) <=> IsParams(g)
  BY DEF Unrolled
<1>3. \A q : segment(q) = params[SkipEscaped(q, PCHAR)]
  BY DEF segment
<1> HIDE DEF More, step, stop, IsParams
<1>5. \E g : IsParams(g)
  BY <1>1, <1>2, LoopIsDefined
<1>6. IsParams(params)
  BY <1>5
<1>a. \A q \in 0..Size :
        params[q] = IF Char(q) = ";" THEN params[SkipEscaped(Next1(q), PCHAR)] ELSE q
  BY <1>6 DEF IsParams
<1> HIDE DEF params
<1>7. Unrolled(params, Size, More, step, stop)
  BY <1>2, <1>6
<1>8. \A q \in 0..Size : params[q] \in q..Size /\ Passed(q, params[q])
  BY <1>1, <1>7, LoopPasses
<1>9. SkipEscaped(p, PCHAR) \in p..Size /\ Passed(p, SkipEscaped(p, PCHAR))
  BY ClassesInText, ClassesInUriChars, SkipEscapedStops
<1>10. params[SkipEscaped(p, PCHAR)] \in SkipEscaped(p, PCHAR)..Size
  BY <1>8, <1>9
<1> DEFINE s == SkipEscaped(p, PCHAR)
<1>11. segment(p) = IF Char(s) = ";" THEN segment(Next1(s)) ELSE s
  <2> HIDE DEF s
  <2>1. s \in 0..Size /\ segment(p) = params[s]
    BY <1>3, <1>9 DEF s
  <2>2. params[s] = IF Char(s) = ";" THEN params[SkipEscaped(Next1(s), PCHAR)] ELSE s
    BY <1>a, <2>1
  <2> QED
    BY <1>3, <2>1, <2>2
<1>12. segment(p) \in p..Size /\ Passed(p, segment(p))
  BY <1>3, <1>8, <1>9, <1>10, PassedParts
<1> QED
  BY <1>11, <1>12

LEMMA PathSegmentsMove ==
  ASSUME Size \in Nat, NEW p \in 0..Size
  PROVE  /\ path_segments(p) \in p..Size /\ Passed(p, path_segments(p))
         /\ path_segments(p) = IF Char(segment(p)) = "/" THEN path_segments(Next1(segment(p)))
                              ELSE segment(p)
<1> DEFINE More == {q \in 0..Size : Char(segment(q)) = "/"}
           step == [q \in 0..Size |-> Next1(segment(q))]
           stop == [q \in 0..Size |-> segment(q)]
           IsPath(g) == g = [q \in 0..Size |->
                               LET e == segment(q)
                               IN IF Char(e) = "/" THEN g[Next1(e)] ELSE e]
           segments == CHOOSE g : IsPath(g)
<1>1. /\ IsLoop(Size, More, step, stop)
      /\ \A q \in 0..Size : Passed(q, IF q \in More THEN step[q] ELSE stop[q])
  <2>1. ASSUME NEW q \in 0..Size
        PROVE  /\ step[q] \in 0..Size /\ stop[q] \in 0..Size /\ stop[q] >= q
               /\ q \in More => step[q] > q /\ Passed(q, step[q])
               /\ Passed(q, stop[q])
    <3>1. segment(q) \in q..Size /\ segment(q) \in 0..Size /\ Passed(q, segment(q))
      <4>1. segment(q) \in q..Size /\ Passed(q, segment(q))
        BY SegmentMoves, Zenon
      <4> QED
        BY <4>1
    <3>2. /\ Next1(segment(q)) \in segment(q)..Size
          /\ segment(q) < Size => Next1(segment(q)) = segment(q) + 1
      BY <3>1, NextMoves
    <3>3. Char(segment(q)) = "/" => segment(q) < Size
      BY DEF Char
    <3>4. ASSUME Char(segment(q)) = "/" PROVE Passed(q, segment(q) + 1)
      <4>1. Passed(segment(q), segment(q) + 1)
        BY <3>1, <3>4, DelimiterPasses
      <4> QED
        BY <3>1, <4>1, PassedParts
    <3> QED
      BY <3>1, <3>2, <3>3, <3>4
  <2>2. step \in [0..Size -> 0..Size] /\ stop \in [0..Size -> 0..Size]
    BY <2>1
  <2> HIDE DEF More, step, stop
  <2>3. ASSUME NEW q \in 0..Size PROVE IF q \in More THEN step[q] > q ELSE stop[q] >= q
    <3>1. stop[q] >= q
      BY <2>1
    <3> QED
      BY <2>1, <3>1
  <2>4. ASSUME NEW q \in 0..Size PROVE Passed(q, IF q \in More THEN step[q] ELSE stop[q])
    BY <2>1
  <2> QED
    BY <2>2, <2>3, <2>4 DEF IsLoop
<1>2. ASSUME NEW g PROVE Unrolled(g, Size, More, step, stop) <=> IsPath(g)
  BY DEF Unrolled
<1>3. \A q : path_segments(q) = segments[q]
  BY DEF path_segments
<1> HIDE DEF More, step, stop, IsPath
<1>5. \E g : IsPath(g)
  BY <1>1, <1>2, LoopIsDefined
<1>6. IsPath(segments)
  BY <1>5
<1>a. segments[p] = LET e == segment(p) IN IF Char(e) = "/" THEN segments[Next1(e)] ELSE e
  BY <1>6 DEF IsPath
<1> HIDE DEF segments
<1>7. Unrolled(segments, Size, More, step, stop)
  BY <1>2, <1>6
<1>8. \A q \in 0..Size : segments[q] \in q..Size /\ Passed(q, segments[q])
  BY <1>1, <1>7, LoopPasses
<1> QED
  BY <1>3, <1>8, <1>a

LEMMA AbsPathParsed ==
  ASSUME Size \in Nat, NEW p \in 0..Size, NEW f
  PROVE  \/ Char(p) # "/" /\ abs_path(p, f) = Fail(p, f)
         \/ /\ Char(p) = "/"
            /\ \E q \in p..Size : Passed(p, q) /\ abs_path(p, f) = Took("abs_path", p, q, f)
<1> SUFFICES ASSUME Char(p) = "/"
             PROVE  LET q == path_segments(Next1(p)) IN q \in p..Size /\ Passed(p, q)
  BY DEF abs_path
<1>1. p < Size /\ Next1(p) = p + 1 /\ p + 1 \in 0..Size
  BY NextMoves DEF Char
<1>2. Passed(p, p + 1)
  BY DelimiterPasses
<1>3. path_segments(p + 1) \in p + 1..Size /\ Passed(p + 1, path_segments(p + 1))
  BY <1>1, PathSegmentsMove
<1>4. path_segments(p + 1) \in p..Size /\ path_segments(p + 1) \in Nat
  BY <1>3
<1> QED
  BY <1>1, <1>2, <1>3, <1>4, PassedParts

-----------------------------------------------------------------------------
\* hostport has read a host from p on, and the port behind it, up to q.
HostedIn(f, g, p, q) ==
  \E m \in p..Size :
    /\ IsAt(g, "host", p, m)
    /\ \/ g["port"] = f["port"] /\ q \in {m, m + 1}
       \/ q >= m + 1 /\ IsAt(g, "port", m + 1, q)

LEMMA HostportParsed ==
  ASSUME Size \in Nat, NEW p \in 0..Size, NEW f, Inside(f)
  PROVE  /\ Parsed(hostport(p, f), p, f, {"host", "port"})
         /\ \/ hostport(p, f).ok = FALSE /\ hostport(p, f) = Fail(p, f)
            \/ /\ hostport(p, f).ok = TRUE
               /\ HostedIn(f, hostport(p, f).f, p, hostport(p, f).pos)
<1> DEFINE a == host(p, f)
           r == hostport(p, f)
<1>0. "host" \in Fields /\ "port" \in Fields
  BY DEF Fields
<1>1. CASE a = Fail(p, f)
  <2> HIDE DEF a
  <2>1. a.ok = FALSE /\ Parsed(a, p, f, {})
    BY <1>1, FailParsed
  <2>2. r = a
    BY <2>1 DEF hostport, a
  <2> QED
    BY <1>1, <2>1, <2>2 DEF Parsed, OnlyIn
<1>2. ASSUME NEW m \in p..Size, Passed(p, m), a = Took("host", p, m, f)
      PROVE  /\ Parsed(r, p, f, {"host", "port"})
             /\ r.ok = TRUE /\ HostedIn(f, r.f, p, r.pos)
  <2>1. /\ a.ok = TRUE /\ a.pos = m /\ Inside(a.f) /\ OnlyIn({"host"}, f, a.f)
        /\ IsAt(a.f, "host", p, m)
    <3> HIDE DEF a
    <3>1. Parsed(a, p, f, {"host"}) /\ IsAt(a.f, "host", p, m) /\ a.ok = TRUE /\ a.pos = m
      BY <1>0, <1>2, TookParsed
    <3> QED
      BY <3>1 DEF Parsed
  <2>2. r = Then(a, ":", port)
    BY <2>1 DEF hostport
  <2>3. a.f["port"] = f["port"]
    BY <1>0, <2>1 DEF OnlyIn
  <2> HIDE DEF a, r
  <2>4. CASE Char(m) # ":"
    <3>1. r = a
      BY <2>1, <2>2, <2>4 DEF Then
    <3>2. HostedIn(f, r.f, p, r.pos)
      BY <2>1, <2>3, <3>1 DEF HostedIn
    <3> QED
      BY <1>2, <2>1, <3>1, <3>2 DEF Parsed, OnlyIn
  <2>5. CASE Char(m) = ":"
    <3> DEFINE b == port(m + 1, a.f)
    <3>1. m < Size /\ m \in 0..Size /\ m + 1 \in 0..Size /\ m + 1 \in p..Size
      BY <2>5 DEF Char
    <3>2. Next1(m) = m + 1
      BY <3>1, NextMoves
    <3>3. r = [ok |-> a.ok, pos |-> b.pos, f |-> b.f]
      BY <2>1, <2>2, <2>5, <3>2 DEF Then
    <3>4. r.ok = TRUE /\ r.pos = b.pos /\ r.f = b.f
      BY <2>1, <3>3
    <3> HIDE DEF b
    <3>a. Passed(p, m + 1)
      <4>1. Passed(m, m + 1)
        BY <2>5, <3>1, DelimiterPasses
      <4> QED
        BY <1>2, <3>1, <4>1, PassedParts
    <3>5. CASE b = Fail(m + 1, a.f)
      <4>1. b.pos = m + 1 /\ b.f = a.f
        BY <3>5 DEF Fail
      <4>2. HostedIn(f, r.f, p, r.pos)
        BY <2>1, <2>3, <2>5, <3>4, <4>1 DEF HostedIn
      <4> QED
        BY <2>1, <3>1, <3>4, <3>a, <4>1, <4>2 DEF Parsed, OnlyIn
    <3>6. ASSUME NEW q \in m + 1..Size, Passed(m + 1, q), b = Took("port", m + 1, q, a.f)
          PROVE  /\ Parsed(r, p, f, {"host", "port"})
                 /\ r.ok = TRUE /\ HostedIn(f, r.f, p, r.pos)
      <4>1. /\ b.pos = q /\ Inside(b.f) /\ OnlyIn({"port"}, a.f, b.f)
            /\ IsAt(b.f, "port", m + 1, q) /\ Passed(m + 1, q)
        BY <1>0, <2>1, <3>1, <3>6, TookParsed DEF Parsed
      <4>2. IsAt(b.f, "host", p, m)
        BY <1>0, <2>1, <4>1 DEF OnlyIn, IsAt
      <4>3. HostedIn(f, r.f, p, r.pos)
        BY <3>4, <4>1, <4>2 DEF HostedIn
      <4>4. OnlyIn({"host", "port"}, f, r.f)
        BY <2>1, <3>4, <4>1 DEF OnlyIn
      <4>5. r.pos \in p..Size /\ Passed(p, r.pos)
        BY <3>1, <3>4, <3>a, <4>1, PassedParts
      <4> QED
        BY <3>4, <4>1, <4>3, <4>4, <4>5 DEF Parsed
    <3>7. \/ b = Fail(m + 1, a.f)
          \/ \E q \in m + 1..Size : Passed(m + 1, q) /\ b = Took("port", m + 1, q, a.f)
      BY <3>1, PortParsed DEF b
    <3> QED
      BY <3>5, <3>6, <3>7
  <2> QED
    BY <2>4, <2>5
<1>3. a = Fail(p, f) \/ \E m \in p..Size : Passed(p, m) /\ a = Took("host", p, m, f)
  BY HostParsed
<1> QED
  BY <1>1, <1>2, <1>3

\* server: the parts of an authority between p and q.
ServerIn(f, g, p, q) ==
  \/ /\ q = p /\ g["userinfo"] = Unset
     /\ g["host"] = f["host"] /\ g["port"] = f["port"]
  \/ g["userinfo"] = f["userinfo"] /\ HostedIn(f, g, p, q)
  \/ \E u \in p..q : /\ Char(u) = "@" /\ u + 1 <= Size
                     /\ IsAt(g, "userinfo", p, u) /\ HostedIn(f, g, u + 1, q)

LEMMA UserAndHostParsed ==
  ASSUME Size \in Nat, NEW p \in 0..Size, NEW f, Inside(f)
  PROVE  LET r == UserAndHost(p, f)
         IN /\ Parsed(r, p, f, {"userinfo", "host", "port"})
            /\ \/ r.ok = FALSE /\ OnlyIn({"userinfo"}, f, r.f)
               \/ r.ok = TRUE /\ ServerIn(f, r.f, p, r.pos)
<1> DEFINE u == SkipEscaped(p, USERINFO)
           r == UserAndHost(p, f)
<1>0. "userinfo" \in Fields /\ "host" \in Fields /\ "port" \in Fields
  BY DEF Fields
<1>1. u \in p..Size /\ Passed(p, u)
  BY ClassesInText, ClassesInUriChars, SkipEscapedStops
<1>2. CASE Char(u) = "@"
  <2> DEFINE g == Set(f, "userinfo", p, u)
             h == hostport(u + 1, g)
  <2>1. u < Size /\ u \in 0..Size /\ u + 1 \in 0..Size
    BY <1>1, <1>2 DEF Char
  <2>2. Next1(u) = u + 1
    BY <2>1, NextMoves
  <2>3. r = h
    BY <1>2, <2>2 DEF UserAndHost
  <2>4. Inside(g) /\ IsAt(g, "userinfo", p, u) /\ OnlyIn({"userinfo"}, f, g)
    BY <1>0, <1>1, SetInside
  <2> HIDE DEF u, g
  <2>5. /\ Parsed(h, u + 1, g, {"host", "port"})
        /\ \/ h.ok = FALSE /\ h = Fail(u + 1, g)
           \/ h.ok = TRUE /\ HostedIn(g, h.f, u + 1, h.pos)
    BY <2>1, <2>4, HostportParsed
  <2> HIDE DEF h, r
  <2>6. Parsed(r, p, f, {"userinfo", "host", "port"})
    <3>1. Passed(u, u + 1)
      BY <1>2, <2>1, DelimiterPasses DEF u
    <3>2. Passed(p, u + 1) /\ u + 1 \in p..Size
      BY <1>1, <2>1, <3>1, PassedParts
    <3> QED
      BY <2>3, <2>4, <2>5, <3>2, ParsedOn
  <2>7. CASE h.ok = FALSE /\ h = Fail(u + 1, g)
    <3>1. r.f = g
      BY <2>3, <2>7 DEF Fail
    <3> QED
      BY <2>3, <2>4, <2>6, <2>7, <3>1 DEF r
  <2>8. CASE h.ok = TRUE /\ HostedIn(g, h.f, u + 1, h.pos)
    <3>1. g["port"] = f["port"]
      BY <1>0, <2>4 DEF OnlyIn
    <3>2. HostedIn(f, h.f, u + 1, h.pos)
      BY <2>8, <3>1 DEF HostedIn
    <3>3. h.f["userinfo"] = g["userinfo"] /\ h.pos \in u + 1..Size
      BY <1>0, <2>5 DEF Parsed, OnlyIn
    <3>4. IsAt(h.f, "userinfo", p, u)
      BY <2>4, <3>3 DEF IsAt
    <3>5. u \in p..h.pos
      BY <1>1, <3>3
    <3>6. ServerIn(f, r.f, p, r.pos)
      BY <1>2, <2>1, <2>3, <3>2, <3>4, <3>5 DEF ServerIn
    <3> QED
      BY <2>3, <2>6, <2>8, <3>6 DEF r
  <2> QED
    BY <2>5, <2>7, <2>8
<1>3. CASE Char(u) # "@"
  <2> DEFINE h == hostport(p, f)
  <2>1. r = h
    BY <1>3 DEF UserAndHost
  <2>2. /\ Parsed(h, p, f, {"host", "port"})
        /\ \/ h.ok = FALSE /\ h = Fail(p, f)
           \/ h.ok = TRUE /\ HostedIn(f, h.f, p, h.pos)
    BY HostportParsed
  <2> HIDE DEF h, r
  <2>3. h.f["userinfo"] = f["userinfo"]
    BY <1>0, <2>2 DEF Parsed, OnlyIn
  <2>4. Parsed(r, p, f, {"userinfo", "host", "port"})
    BY <2>1, <2>2 DEF Parsed, OnlyIn
  <2>5. h = Fail(p, f) => h.f = f
    BY DEF Fail
  <2>6. \/ r.ok = FALSE /\ OnlyIn({"userinfo"}, f, r.f)
        \/ r.ok = TRUE /\ ServerIn(f, r.f, p, r.pos)
    BY <2>1, <2>2, <2>3, <2>5 DEF ServerIn, OnlyIn
  <2> QED
    BY <2>4, <2>6 DEF r
<1> QED
  BY <1>2, <1>3

LEMMA ServerParsed ==
  ASSUME Size \in Nat, NEW p \in 0..Size, NEW f, Inside(f)
  PROVE  LET r == server(p, f)
         IN /\ Parsed(r, p, f, {"userinfo", "host", "port"})
            /\ ServerIn(f, r.f, p, r.pos)
<1> DEFINE a == UserAndHost(p, f)
           r == server(p, f)
           g == [a.f EXCEPT !["userinfo"] = Unset]
<1>1. "userinfo" \in Fields
  BY DEF Fields
<1>2. /\ Parsed(a, p, f, {"userinfo", "host", "port"})
      /\ \/ a.ok = FALSE /\ OnlyIn({"userinfo"}, f, a.f)
         \/ a.ok = TRUE /\ ServerIn(f, a.f, p, a.pos)
  BY UserAndHostParsed
<1>3. r = IF a.ok THEN a ELSE Ok(p, g)
  BY DEF server
<1> HIDE DEF a, r
<1>4. CASE a.ok = TRUE /\ ServerIn(f, a.f, p, a.pos)
  <2>1. r = a
    BY <1>3, <1>4
  <2> QED
    BY <1>2, <1>4, <2>1 DEF r
<1>5. CASE a.ok = FALSE /\ OnlyIn({"userinfo"}, f, a.f)
  <2>1. r.ok = TRUE /\ r.pos = p /\ r.f = g
    BY <1>3, <1>5 DEF Ok
  <2>2. Inside(g) /\ g["userinfo"] = Unset /\ OnlyIn({"userinfo"}, a.f, g)
    BY <1>1, <1>2, UnsetInside DEF Parsed
  <2> HIDE DEF g
  <2>3. OnlyIn({"userinfo"}, f, g)
    BY <1>5, <2>2 DEF OnlyIn
  <2>4. ServerIn(f, r.f, p, r.pos)
    BY <2>1, <2>2, <2>3 DEF ServerIn, OnlyIn, Fields
  <2>5. Parsed(r, p, f, {"userinfo", "host", "port"})
    <3>1. r.ok \in BOOLEAN
      BY <2>1, Zenon
    <3>3. r.pos \in p..Size /\ Passed(p, r.pos)
      BY <2>1, PassedParts
    <3>2. OnlyIn({"userinfo", "host", "port"}, f, r.f)
      BY <2>1, <2>3 DEF OnlyIn
    <3> QED
      BY <2>1, <2>2, <3>1, <3>3, <3>2 DEF Parsed
  <2> QED
    BY <2>4, <2>5 DEF r
<1> QED
  BY <1>2, <1>4, <1>5

\* net_path: an authority behind "//", its path behind it, or nothing.
NetIn(f, g, p, q) ==
  /\ p + 2 <= q /\ IsAt(g, "net_path", p, q)
  /\ \E m \in p + 2..q :
       /\ IsAt(g, "authority", p + 2, m) /\ ServerIn(f, g, p + 2, m)
       /\ q = m \/ IsAt(g, "abs_path", m, q)

NetFields == {"userinfo", "host", "port", "authority", "abs_path", "net_path"}

\* What the parts of an authority are does not depend on other components.
LEMMA ServerInKept ==
  ASSUME NEW f, NEW g, NEW h, NEW p, NEW q, ServerIn(f, g, p, q),
         NEW T, OnlyIn(T, g, h), "userinfo" \notin T, "host" \notin T, "port" \notin T
  PROVE  ServerIn(f, h, p, q)
<1>1. /\ h["userinfo"] = g["userinfo"] /\ h["host"] = g["host"] /\ h["port"] = g["port"]
  BY DEF OnlyIn, Fields
<1>2. ASSUME NEW x, HostedIn(f, g, x, q) PROVE HostedIn(f, h, x, q)
  BY <1>1, <1>2 DEF HostedIn, IsAt
<1> QED
  BY <1>1, <1>2 DEF ServerIn, IsAt

LEMMA AuthorityParsed ==
  ASSUME Size \in Nat, NEW p \in 0..Size, NEW f, Inside(f)
  PROVE  LET r == authority(p, f)
         IN /\ Parsed(r, p, f, {"userinfo", "host", "port", "authority"})
            /\ IsAt(r.f, "authority", p, r.pos) /\ ServerIn(f, r.f, p, r.pos)
<1> DEFINE a == server(p, f)
           r == authority(p, f)
<1>1. Parsed(a, p, f, {"userinfo", "host", "port"}) /\ ServerIn(f, a.f, p, a.pos)
  BY ServerParsed
<1>2. r = Took("authority", p, a.pos, a.f)
  BY DEF authority
<1> HIDE DEF a, r
<1>3. a.pos \in p..Size /\ Passed(p, a.pos) /\ Inside(a.f) /\ "authority" \in Fields
  BY <1>1 DEF Parsed, Fields
<1>4. /\ r.pos = a.pos /\ Parsed(r, p, a.f, {"authority"})
      /\ IsAt(r.f, "authority", p, a.pos)
  BY <1>2, <1>3, TookParsed
<1>5. ServerIn(f, r.f, p, r.pos)
  BY <1>1, <1>4, ServerInKept DEF Parsed
<1>6. Parsed(r, p, f, {"userinfo", "host", "port", "authority"})
  BY <1>1, <1>4 DEF Parsed, OnlyIn
<1> QED
  BY <1>4, <1>5, <1>6 DEF r

LEMMA NetPathParsed ==
  ASSUME Size \in Nat, NEW p \in 0..Size, NEW f, Inside(f)
  PROVE  LET r == net_path(p, f)
         IN \/ r = Fail(p, f)
            \/ r.ok = TRUE /\ Parsed(r, p, f, NetFields) /\ NetIn(f, r.f, p, r.pos)
<1> DEFINE a == authority(p + 2, f)
           b == abs_path(a.pos, a.f)
           r == net_path(p, f)
<1> SUFFICES ASSUME Char(p) = "/" /\ Char(Next1(p)) = "/"
             PROVE  r.ok = TRUE /\ Parsed(r, p, f, NetFields) /\ NetIn(f, r.f, p, r.pos)
  BY DEF net_path
<1>0. {"abs_path", "net_path", "authority"} \subseteq Fields
  BY DEF Fields
<1>1. p < Size /\ Next1(p) = p + 1 /\ p + 1 \in 0..Size
  BY NextMoves DEF Char
<1>2. p + 2 \in 0..Size /\ Next1(Next1(p)) = p + 2
  <2>1. p + 1 < Size
    BY <1>1 DEF Char
  <2> QED
    BY <1>1, <2>1, NextMoves
<1>a. Passed(p, p + 2)
  <2>1. Passed(p, p + 1)
    BY DelimiterPasses
  <2>2. Char(p + 1) = "/" /\ p + 1 + 1 = p + 2
    BY <1>1
  <2>3. Passed(p + 1, p + 2)
    BY <1>1, <2>2, DelimiterPasses
  <2> QED
    BY <1>1, <1>2, <2>1, <2>3, PassedParts
<1>3. r = Took("net_path", p, b.pos, b.f)
  BY <1>2 DEF net_path
<1>4. /\ Parsed(a, p + 2, f, {"userinfo", "host", "port", "authority"})
      /\ IsAt(a.f, "authority", p + 2, a.pos) /\ ServerIn(f, a.f, p + 2, a.pos)
  BY <1>2, AuthorityParsed
<1> HIDE DEF a
<1>5. a.pos \in p + 2..Size /\ a.pos \in 0..Size /\ Inside(a.f) /\ Passed(p + 2, a.pos)
  BY <1>4 DEF Parsed
<1>6. \/ b = Fail(a.pos, a.f)
      \/ \E q \in a.pos..Size : Passed(a.pos, q) /\ b = Took("abs_path", a.pos, q, a.f)
  BY <1>5, AbsPathParsed
<1> HIDE DEF b, r
<1>7. /\ b.pos \in a.pos..Size /\ Inside(b.f) /\ OnlyIn({"abs_path"}, a.f, b.f)
      /\ Passed(a.pos, b.pos)
      /\ b.pos = a.pos \/ IsAt(b.f, "abs_path", a.pos, b.pos)
  <2>1. CASE b = Fail(a.pos, a.f)
    <3>1. b.pos = a.pos /\ b.f = a.f
      BY <2>1 DEF Fail
    <3> QED
      BY <1>5, <3>1, PassedParts DEF OnlyIn
  <2>2. ASSUME NEW q \in a.pos..Size, Passed(a.pos, q), b = Took("abs_path", a.pos, q, a.f)
        PROVE  /\ b.pos \in a.pos..Size /\ Inside(b.f) /\ OnlyIn({"abs_path"}, a.f, b.f)
               /\ Passed(a.pos, b.pos) /\ IsAt(b.f, "abs_path", a.pos, b.pos)
    <3>1. /\ b.pos = q /\ Parsed(b, a.pos, a.f, {"abs_path"})
          /\ IsAt(b.f, "abs_path", a.pos, q)
      BY <1>0, <1>5, <2>2, TookParsed
    <3> QED
      BY <3>1 DEF Parsed
  <2> QED
    BY <1>6, <2>1, <2>2
<1>8. b.pos \in p..Size /\ b.pos \in p + 2..Size /\ Passed(p, b.pos)
  <2>1. Passed(p, a.pos)
    BY <1>2, <1>5, <1>a, PassedParts
  <2> QED
    BY <1>5, <1>7, <2>1, PassedParts
<1>9. /\ r.ok = TRUE /\ r.pos = b.pos /\ Parsed(r, p, b.f, {"net_path"})
      /\ IsAt(r.f, "net_path", p, b.pos)
  BY <1>0, <1>3, <1>7, <1>8, TookParsed
<1>10. OnlyIn({"abs_path", "net_path"}, a.f, r.f)
  BY <1>7, <1>9 DEF Parsed, OnlyIn
<1>11. ServerIn(f, r.f, p + 2, a.pos)
  BY <1>4, <1>10, ServerInKept
<1>12. IsAt(r.f, "authority", p + 2, a.pos)
  BY <1>0, <1>4, <1>10 DEF IsAt, OnlyIn
<1>13. r.pos = a.pos \/ IsAt(r.f, "abs_path", a.pos, r.pos)
  BY <1>0, <1>7, <1>9 DEF IsAt, Parsed, OnlyIn
<1>14. NetIn(f, r.f, p, r.pos)
  <2>1. a.pos \in p + 2..r.pos
    BY <1>5, <1>7, <1>9
  <2> QED
    BY <1>8, <1>9, <1>11, <1>12, <1>13, <2>1 DEF NetIn
<1>15. Parsed(r, p, f, NetFields)
  BY <1>4, <1>9, <1>10 DEF Parsed, OnlyIn, NetFields
<1> QED
  BY <1>9, <1>14, <1>15

LEMMA RelPathParsed ==
  ASSUME Size \in Nat, NEW p \in 0..Size, NEW f, Inside(f)
  PROVE  LET r == rel_path(p, f)
         IN \/ r = Fail(p, f)
            \/ /\ r.ok = TRUE /\ Parsed(r, p, f, {"abs_path", "rel_path"})
               /\ IsAt(r.f, "rel_path", p, r.pos)
<1> DEFINE a == rel_segment(p)
           b == abs_path(a.pos, f)
           r == rel_path(p, f)
<1>0. {"abs_path", "rel_path"} \subseteq Fields
  BY DEF Fields
<1>1. a.pos \in p..Size /\ a.pos \in 0..Size /\ Passed(p, a.pos)
  <2>1. a.pos \in p..Size /\ Passed(p, a.pos)
    BY ClassesInText, ClassesInUriChars, LeadingMoves DEF rel_segment
  <2> QED
    BY <2>1
<1>2. r = Fail(p, f) \/ r = Took("rel_path", p, b.pos, b.f)
  BY DEF rel_path
<1> HIDE DEF a
<1>3. \/ b = Fail(a.pos, f)
      \/ \E q \in a.pos..Size : Passed(a.pos, q) /\ b = Took("abs_path", a.pos, q, f)
  BY <1>1, AbsPathParsed
<1> HIDE DEF b
<1>4. /\ b.pos \in a.pos..Size /\ Inside(b.f) /\ OnlyIn({"abs_path"}, f, b.f)
      /\ Passed(a.pos, b.pos)
  <2>1. CASE b = Fail(a.pos, f)
    <3>1. b.pos = a.pos /\ b.f = f
      BY <2>1 DEF Fail
    <3> QED
      BY <1>1, <3>1, PassedParts DEF OnlyIn
  <2>2. ASSUME NEW q \in a.pos..Size, Passed(a.pos, q), b = Took("abs_path", a.pos, q, f)
        PROVE  /\ b.pos \in a.pos..Size /\ Inside(b.f) /\ OnlyIn({"abs_path"}, f, b.f)
               /\ Passed(a.pos, b.pos)
    <3>1. Parsed(b, a.pos, f, {"abs_path"})
      BY <1>0, <1>1, <2>2, TookParsed
    <3> QED
      BY <3>1 DEF Parsed
  <2> QED
    BY <1>3, <2>1, <2>2
<1>5. b.pos \in p..Size /\ Passed(p, b.pos)
  BY <1>1, <1>4, PassedParts
<1> HIDE DEF r
<1>6. ASSUME r = Took("rel_path", p, b.pos, b.f)
      PROVE  /\ r.ok = TRUE /\ Parsed(r, p, f, {"abs_path", "rel_path"})
             /\ IsAt(r.f, "rel_path", p, r.pos)
  <2>1. /\ r.ok = TRUE /\ r.pos = b.pos /\ Parsed(r, p, b.f, {"rel_path"})
        /\ IsAt(r.f, "rel_path", p, b.pos)
    BY <1>0, <1>4, <1>5, <1>6, TookParsed
  <2>2. Parsed(r, p, f, {"abs_path", "rel_path"})
    BY <1>4, <2>1 DEF Parsed, OnlyIn
  <2> QED
    BY <2>1, <2>2
<1> QED
  BY <1>2, <1>6 DEF r

LEMMA OpaquePartParsed ==
  ASSUME Size \in Nat, NEW p \in 0..Size, NEW f, Inside(f)
  PROVE  LET r == opaque_part(p, f)
         IN \/ r.ok = FALSE /\ Parsed(r, p, f, {}) /\ r.f = f
            \/ /\ r.ok = TRUE /\ Parsed(r, p, f, {"opaque_part"})
               /\ IsAt(r.f, "opaque_part", p, r.pos) /\ Char(r.pos) # "?"
<1> DEFINE a == Leading(p, URIC_NO_SLASH, URIC)
           r == opaque_part(p, f)
<1>0. "opaque_part" \in Fields /\ "?" \in URIC
  BY DEF Fields, URIC, RESERVED
<1>1. /\ a.pos \in p..Size /\ a.ok \in BOOLEAN /\ Passed(p, a.pos)
      /\ a.ok => Char(a.pos) \notin URIC
  BY ClassesInText, ClassesInUriChars, LeadingMoves
<1>2. r = IF a.ok THEN Took("opaque_part", p, a.pos, f) ELSE Fail(a.pos, f)
  BY DEF opaque_part
<1> HIDE DEF a, r
<1>3. CASE a.ok
  <2>1. r = Took("opaque_part", p, a.pos, f)
    BY <1>2, <1>3
  <2>2. /\ r.ok = TRUE /\ r.pos = a.pos /\ Parsed(r, p, f, {"opaque_part"})
        /\ IsAt(r.f, "opaque_part", p, r.pos)
    BY <1>0, <1>1, <2>1, TookParsed
  <2>3. Char(r.pos) # "?"
    BY <1>0, <1>1, <1>3, <2>2
  <2> QED
    BY <2>2, <2>3 DEF r
<1>4. CASE ~a.ok
  <2>1. r = Fail(a.pos, f)
    BY <1>2, <1>4
  <2>2. r.ok = FALSE /\ r.pos = a.pos /\ r.f = f
    BY <2>1 DEF Fail
  <2>3. r.ok \in BOOLEAN
    BY <2>2, Zenon
  <2> QED
    BY <1>1, <2>2, <2>3 DEF r, Parsed, OnlyIn
<1> QED
  BY <1>3, <1>4

-----------------------------------------------------------------------------
\* A path between p and q: it is a net_path, or net_path is as it was.
PathIn(f, g, p, q) ==
  \/ NetIn(f, g, p, q)
  \/ /\ g["net_path"] = f["net_path"]
     /\ \E x \in {"abs_path", "rel_path", "opaque_part"} : IsAt(g, x, p, q)

\* The query behind a path that ends at b.
QueryIn(g, b, c) ==
  \/ Char(b) # "?" /\ c = b
  \/ Char(b) = "?" /\ b + 1 <= c /\ IsAt(g, "query", b + 1, c)

\* A path and its query from p to c.
HierIn(f, g, p, c) == \E b \in p..c : PathIn(f, g, p, b) /\ QueryIn(g, b, c)

PathFields == NetFields \cup {"rel_path", "opaque_part"}

LEMMA NetOrAbsParsed ==
  ASSUME Size \in Nat, NEW p \in 0..Size, NEW f, Inside(f)
  PROVE  LET r == net_or_abs(p, f)
         IN \/ r = Fail(p, f)
            \/ r.ok = TRUE /\ Parsed(r, p, f, NetFields) /\ PathIn(f, r.f, p, r.pos)
<1> DEFINE a == net_path(p, f)
           r == net_or_abs(p, f)
<1>0. {"abs_path", "net_path"} \subseteq Fields
  BY DEF Fields
<1>1. r = IF a.ok THEN a ELSE abs_path(a.pos, a.f)
  BY DEF net_or_abs, OrElse
<1>2. \/ a = Fail(p, f)
      \/ a.ok = TRUE /\ Parsed(a, p, f, NetFields) /\ NetIn(f, a.f, p, a.pos)
  BY NetPathParsed
<1> HIDE DEF a, r
<1>3. CASE a = Fail(p, f)
  <2>1. a.ok = FALSE /\ a.pos = p /\ a.f = f
    BY <1>3 DEF Fail
  <2>2. r = abs_path(p, f)
    BY <1>1, <2>1
  <2>3. ASSUME NEW q \in p..Size, Passed(p, q), r = Took("abs_path", p, q, f)
        PROVE  r.ok = TRUE /\ Parsed(r, p, f, NetFields) /\ PathIn(f, r.f, p, r.pos)
    <3>1. /\ r.ok = TRUE /\ r.pos = q /\ Parsed(r, p, f, {"abs_path"})
          /\ IsAt(r.f, "abs_path", p, q)
      BY <1>0, <2>3, TookParsed
    <3>2. PathIn(f, r.f, p, r.pos)
      BY <1>0, <3>1 DEF PathIn, Parsed, OnlyIn
    <3>3. Parsed(r, p, f, NetFields)
      BY <3>1 DEF Parsed, OnlyIn, NetFields
    <3> QED
      BY <3>1, <3>2, <3>3
  <2>4. r = Fail(p, f) \/ \E q \in p..Size : Passed(p, q) /\ r = Took("abs_path", p, q, f)
    BY <2>2, AbsPathParsed
  <2> QED
    BY <2>3, <2>4 DEF r
<1>4. CASE a.ok = TRUE /\ Parsed(a, p, f, NetFields) /\ NetIn(f, a.f, p, a.pos)
  <2>1. r = a
    BY <1>1, <1>4
  <2> QED
    BY <1>4, <2>1 DEF PathIn, r
<1> QED
  BY <1>2, <1>3, <1>4

\* hier_part and relativeURI take a query behind what they have read.
LEMMA QueryTaken ==
  ASSUME Size \in Nat, NEW p \in 0..Size, NEW f, NEW T, NEW r, Parsed(r, p, f, T)
  PROVE  LET t == Then(r, "?", query)
         IN /\ t.ok = r.ok /\ Parsed(t, p, f, T \cup {"query"})
            /\ OnlyIn({"query"}, r.f, t.f) /\ QueryIn(t.f, r.pos, t.pos)
            /\ r.pos <= t.pos
<1> DEFINE t == Then(r, "?", query)
<1>0. "query" \in Fields
  BY DEF Fields
<1>1. r.pos \in p..Size /\ r.pos \in 0..Size
  BY DEF Parsed
<1>2. CASE Char(r.pos) # "?"
  <2>1. t = r
    BY <1>2 DEF Then
  <2> QED
    BY <1>1, <1>2, <2>1 DEF Parsed, OnlyIn, QueryIn
<1>3. CASE Char(r.pos) = "?"
  <2> DEFINE b == query(r.pos + 1, r.f)
  <2>1. r.pos < Size /\ r.pos + 1 \in 0..Size
    BY <1>1, <1>3 DEF Char
  <2>2. Next1(r.pos) = r.pos + 1
    BY <1>1, <2>1, NextMoves
  <2>3. t = [ok |-> r.ok, pos |-> b.pos, f |-> b.f]
    BY <1>3, <2>2 DEF Then
  <2>4. PICK q \in r.pos + 1..Size : Passed(r.pos + 1, q) /\ b = Took("query", r.pos + 1, q, r.f)
    BY <2>1, QueryParsed
  <2> HIDE DEF b
  <2>5. /\ b.pos = q /\ Parsed(b, r.pos + 1, r.f, {"query"})
        /\ IsAt(b.f, "query", r.pos + 1, q)
    BY <1>0, <2>1, <2>4, TookParsed DEF Parsed
  <2>6. t.ok = r.ok /\ t.pos = q /\ t.f = b.f
    BY <2>3, <2>5
  <2> HIDE DEF t
  <2>7. q \in p..Size /\ r.pos + 1 <= q /\ r.pos <= q
    BY <1>1, <2>1
  <2>a. Passed(p, q)
    <3>1. Passed(r.pos, r.pos + 1)
      BY <1>1, <1>3, DelimiterPasses
    <3>2. Passed(p, r.pos) /\ r.pos \in Nat
      BY <1>1 DEF Parsed
    <3>3. Passed(p, r.pos + 1)
      BY <3>1, <3>2, PassedParts
    <3> QED
      BY <2>1, <2>4, <2>7, <3>3, PassedParts
  <2>8. t.ok \in BOOLEAN
    BY <2>6, Zenon DEF Parsed
  <2>9. Inside(t.f) /\ OnlyIn({"query"}, r.f, t.f) /\ OnlyIn(T \cup {"query"}, f, t.f)
    BY <2>5, <2>6 DEF Parsed, OnlyIn
  <2>10. QueryIn(t.f, r.pos, t.pos)
    BY <1>3, <2>5, <2>6, <2>7 DEF QueryIn
  <2>11. Parsed(t, p, f, T \cup {"query"})
    BY <2>6, <2>7, <2>8, <2>9, <2>a DEF Parsed
  <2> QED
    BY <2>6, <2>7, <2>9, <2>10, <2>11 DEF t
<1> QED
  BY <1>2, <1>3

\* Other components than those of a path can change behind it.
LEMMA PathInKept ==
  ASSUME NEW f, NEW g, NEW h, NEW p, NEW q, PathIn(f, g, p, q),
         NEW T, OnlyIn(T, g, h), T \cap PathFields = {}
  PROVE  PathIn(f, h, p, q)
<1>1. \A x \in PathFields : h[x] = g[x]
  BY DEF OnlyIn, Fields, PathFields, NetFields
<1>2. /\ h["net_path"] = g["net_path"] /\ h["authority"] = g["authority"]
      /\ h["abs_path"] = g["abs_path"] /\ h["rel_path"] = g["rel_path"]
      /\ h["opaque_part"] = g["opaque_part"]
  BY <1>1 DEF PathFields, NetFields
<1>3. "userinfo" \notin T /\ "host" \notin T /\ "port" \notin T
  BY DEF PathFields, NetFields
<1>4. ASSUME NEW m, ServerIn(f, g, p + 2, m) PROVE ServerIn(f, h, p + 2, m)
  BY <1>3, <1>4, ServerInKept
<1>5. NetIn(f, g, p, q) => NetIn(f, h, p, q)
  BY <1>2, <1>4 DEF NetIn, IsAt
<1> QED
  BY <1>2, <1>5 DEF PathIn, IsAt

\* What Restore(Then(path, "?", query), p) gives for a path from p on.
LEMMA HierTaken ==
  ASSUME Size \in Nat, NEW p \in 0..Size, NEW f, Inside(f), NEW a,
         a = Fail(p, f) \/ (a.ok = TRUE /\ Parsed(a, p, f, PathFields) /\ PathIn(f, a.f, p, a.pos))
  PROVE  LET r == Restore(Then(a, "?", query), p)
         IN \/ r.ok = FALSE /\ r.pos = p /\ Parsed(r, p, f, {"query"})
            \/ /\ r.ok = TRUE /\ Parsed(r, p, f, PathFields \cup {"query"})
               /\ HierIn(f, r.f, p, r.pos)
<1> DEFINE t == Then(a, "?", query)
           r == Restore(t, p)
<1>1. r = IF t.ok THEN t ELSE Fail(p, t.f)
  BY DEF Restore
<1>2. p \in p..Size /\ Passed(p, p)
  BY PassedParts
<1>3. CASE a = Fail(p, f)
  <2>1. a.ok = FALSE /\ Parsed(a, p, f, {})
    BY <1>3, FailParsed
  <2>2. t.ok = a.ok /\ Parsed(t, p, f, {} \cup {"query"})
    BY <2>1, QueryTaken
  <2> HIDE DEF t
  <2>3. r = Fail(p, t.f)
    BY <1>1, <2>1, <2>2
  <2> HIDE DEF r
  <2>4. r.ok = FALSE /\ r.pos = p /\ r.f = t.f
    BY <2>3 DEF Fail
  <2>5. Inside(r.f) /\ OnlyIn({"query"}, f, r.f)
    BY <2>2, <2>4 DEF Parsed, OnlyIn
  <2>6. r.ok \in BOOLEAN
    BY <2>4, Zenon
  <2>7. Parsed(r, p, f, {"query"})
    BY <1>2, <2>4, <2>5, <2>6 DEF Parsed
  <2> QED
    BY <2>4, <2>7 DEF r, t
<1>4. CASE a.ok = TRUE /\ Parsed(a, p, f, PathFields) /\ PathIn(f, a.f, p, a.pos)
  <2>1. /\ t.ok = a.ok /\ Parsed(t, p, f, PathFields \cup {"query"})
        /\ OnlyIn({"query"}, a.f, t.f) /\ QueryIn(t.f, a.pos, t.pos) /\ a.pos <= t.pos
    BY <1>4, QueryTaken
  <2> HIDE DEF t
  <2>2. r = t
    BY <1>1, <1>4, <2>1
  <2>3. {"query"} \cap PathFields = {}
    BY DEF PathFields, NetFields
  <2>4. PathIn(f, t.f, p, a.pos)
    BY <1>4, <2>1, <2>3, PathInKept
  <2>5. a.pos \in p..t.pos
    BY <1>4, <2>1 DEF Parsed
  <2>6. HierIn(f, t.f, p, t.pos)
    BY <2>1, <2>4, <2>5 DEF HierIn
  <2> QED
    BY <1>4, <2>1, <2>2, <2>6 DEF t
<1> QED
  BY <1>3, <1>4

LEMMA HierPartParsed ==
  ASSUME Size \in Nat, NEW p \in 0..Size, NEW f, Inside(f)
  PROVE  LET r == hier_part(p, f)
         IN \/ r.ok = FALSE /\ r.pos = p /\ Parsed(r, p, f, {"query"})
            \/ /\ r.ok = TRUE /\ Parsed(r, p, f, PathFields \cup {"query"})
               /\ HierIn(f, r.f, p, r.pos)
<1> DEFINE a == net_or_abs(p, f)
<1>1. hier_part(p, f) = Restore(Then(a, "?", query), p)
  BY DEF hier_part, net_or_abs
<1>2. \/ a = Fail(p, f)
      \/ a.ok = TRUE /\ Parsed(a, p, f, NetFields) /\ PathIn(f, a.f, p, a.pos)
  BY NetOrAbsParsed
<1> HIDE DEF a
<1>3. Parsed(a, p, f, NetFields) => Parsed(a, p, f, PathFields)
  BY DEF Parsed, OnlyIn, PathFields
<1>4. \/ a = Fail(p, f)
      \/ a.ok = TRUE /\ Parsed(a, p, f, PathFields) /\ PathIn(f, a.f, p, a.pos)
  BY <1>2, <1>3
<1> QED
  BY <1>1, <1>4, HierTaken

LEMMA RelativeParsed ==
  ASSUME Size \in Nat, NEW p \in 0..Size, NEW f, Inside(f)
  PROVE  LET r == relativeURI(p, f)
         IN \/ r.ok = FALSE /\ r.pos = p /\ Parsed(r, p, f, {"query"})
            \/ /\ r.ok = TRUE /\ Parsed(r, p, f, PathFields \cup {"query"})
               /\ HierIn(f, r.f, p, r.pos)
<1> DEFINE a == net_or_abs(p, f)
           b == rel_path(a.pos, a.f)
           c == IF a.ok THEN a ELSE b
<1>0. {"net_path", "rel_path", "abs_path"} \subseteq Fields
  BY DEF Fields
<1>1. relativeURI(p, f) = Restore(Then(c, "?", query), p)
  BY DEF relativeURI, OrElse
<1>2. \/ a = Fail(p, f)
      \/ a.ok = TRUE /\ Parsed(a, p, f, NetFields) /\ PathIn(f, a.f, p, a.pos)
  BY NetOrAbsParsed
<1>3. ASSUME a = Fail(p, f)
      PROVE  \/ c = Fail(p, f)
             \/ c.ok = TRUE /\ Parsed(c, p, f, PathFields) /\ PathIn(f, c.f, p, c.pos)
  <2>1. a.ok = FALSE /\ a.pos = p /\ a.f = f
    BY <1>3 DEF Fail
  <2>2. c = rel_path(p, f)
    BY <2>1
  <2> HIDE DEF c
  <2>3. \/ c = Fail(p, f)
        \/ /\ c.ok = TRUE /\ Parsed(c, p, f, {"abs_path", "rel_path"})
           /\ IsAt(c.f, "rel_path", p, c.pos)
    BY <2>2, RelPathParsed
  <2>4. ASSUME c.ok = TRUE, Parsed(c, p, f, {"abs_path", "rel_path"}),
               IsAt(c.f, "rel_path", p, c.pos)
        PROVE  Parsed(c, p, f, PathFields) /\ PathIn(f, c.f, p, c.pos)
    <3>1. c.f["net_path"] = f["net_path"]
      BY <1>0, <2>4 DEF Parsed, OnlyIn
    <3>2. Parsed(c, p, f, PathFields)
      BY <2>4 DEF Parsed, OnlyIn, PathFields, NetFields
    <3> QED
      BY <2>4, <3>1, <3>2 DEF PathIn
  <2> QED
    BY <2>3, <2>4
<1>4. ASSUME a.ok = TRUE, Parsed(a, p, f, NetFields), PathIn(f, a.f, p, a.pos)
      PROVE  c.ok = TRUE /\ Parsed(c, p, f, PathFields) /\ PathIn(f, c.f, p, c.pos)
  <2>1. c = a
    BY <1>4
  <2>2. Parsed(a, p, f, PathFields)
    BY <1>4 DEF Parsed, OnlyIn, PathFields
  <2> HIDE DEF a, c
  <2> QED
    BY <1>4, <2>1, <2>2
<1> HIDE DEF c
<1>5. \/ c = Fail(p, f)
      \/ c.ok = TRUE /\ Parsed(c, p, f, PathFields) /\ PathIn(f, c.f, p, c.pos)
  BY <1>2, <1>3, <1>4
<1> QED
  BY <1>1, <1>5, HierTaken

\* What HierIn says of the parts of an authority refers to these components of
\* the struct before the call.
LEMMA HierInFrom ==
  ASSUME NEW f, NEW e, NEW g, NEW p, NEW c, HierIn(e, g, p, c),
         NEW T, OnlyIn(T, f, e), T \cap {"net_path", "userinfo", "host", "port"} = {}
  PROVE  HierIn(f, g, p, c)
<1>1. /\ e["net_path"] = f["net_path"] /\ e["userinfo"] = f["userinfo"]
      /\ e["host"] = f["host"] /\ e["port"] = f["port"]
  BY DEF OnlyIn, Fields
<1>2. ASSUME NEW x, NEW y, HostedIn(e, g, x, y) PROVE HostedIn(f, g, x, y)
  BY <1>1, <1>2 DEF HostedIn
<1>3. ASSUME NEW x, NEW y, ServerIn(e, g, x, y) PROVE ServerIn(f, g, x, y)
  BY <1>1, <1>2, <1>3 DEF ServerIn
<1>4. ASSUME NEW q, NetIn(e, g, p, q) PROVE NetIn(f, g, p, q)
  BY <1>3, <1>4 DEF NetIn
<1>5. ASSUME NEW q, PathIn(e, g, p, q) PROVE PathIn(f, g, p, q)
  BY <1>1, <1>4, <1>5 DEF PathIn
<1> QED
  BY <1>5 DEF HierIn

\* What follows a scheme's ":": hier_part or opaque_part.
LEMMA RestParsed ==
  ASSUME Size \in Nat, NEW p \in 0..Size, NEW f, Inside(f)
  PROVE  LET r == OrElse(hier_part, opaque_part, p, f)
         IN \/ r.ok = FALSE /\ Parsed(r, p, f, {"query"})
            \/ /\ r.ok = TRUE /\ Parsed(r, p, f, PathFields \cup {"query"})
               /\ HierIn(f, r.f, p, r.pos)
<1> DEFINE a == hier_part(p, f)
           b == opaque_part(a.pos, a.f)
           r == OrElse(hier_part, opaque_part, p, f)
<1>0. {"opaque_part", "net_path"} \subseteq Fields
  BY DEF Fields
<1>1. r = IF a.ok THEN a ELSE b
  BY DEF OrElse
<1>2. \/ a.ok = FALSE /\ a.pos = p /\ Parsed(a, p, f, {"query"})
      \/ /\ a.ok = TRUE /\ Parsed(a, p, f, PathFields \cup {"query"})
         /\ HierIn(f, a.f, p, a.pos)
  BY HierPartParsed
<1> HIDE DEF a, r
<1>3. CASE a.ok = TRUE /\ Parsed(a, p, f, PathFields \cup {"query"}) /\ HierIn(f, a.f, p, a.pos)
  <2>1. r = a
    BY <1>1, <1>3
  <2> QED
    BY <1>3, <2>1 DEF r
<1>4. CASE a.ok = FALSE /\ a.pos = p /\ Parsed(a, p, f, {"query"})
  <2>1. r = b /\ b = opaque_part(p, a.f)
    BY <1>1, <1>4
  <2>2. Inside(a.f) /\ OnlyIn({"query"}, f, a.f)
    BY <1>4 DEF Parsed
  <2> HIDE DEF b
  <2>3. \/ b.ok = FALSE /\ Parsed(b, p, a.f, {}) /\ b.f = a.f
        \/ /\ b.ok = TRUE /\ Parsed(b, p, a.f, {"opaque_part"})
           /\ IsAt(b.f, "opaque_part", p, b.pos) /\ Char(b.pos) # "?"
    BY <2>1, <2>2, OpaquePartParsed
  <2>4. CASE b.ok = FALSE /\ Parsed(b, p, a.f, {}) /\ b.f = a.f
    BY <2>1, <2>2, <2>4 DEF Parsed, r
  <2>5. CASE /\ b.ok = TRUE /\ Parsed(b, p, a.f, {"opaque_part"})
             /\ IsAt(b.f, "opaque_part", p, b.pos) /\ Char(b.pos) # "?"
    <3>1. Parsed(b, p, f, PathFields \cup {"query"})
      BY <2>2, <2>5 DEF Parsed, OnlyIn, PathFields
    <3>2. b.f["net_path"] = f["net_path"]
      BY <1>0, <2>2, <2>5 DEF Parsed, OnlyIn
    <3>3. PathIn(f, b.f, p, b.pos) /\ QueryIn(b.f, b.pos, b.pos)
      BY <2>5, <3>2 DEF PathIn, QueryIn
    <3>4. b.pos \in p..b.pos
      BY <2>5 DEF Parsed
    <3>5. HierIn(f, b.f, p, b.pos)
      BY <3>3, <3>4 DEF HierIn
    <3> QED
      BY <2>1, <2>5, <3>1, <3>5 DEF r
  <2> QED
    BY <2>3, <2>4, <2>5
<1> QED
  BY <1>2, <1>3, <1>4

-----------------------------------------------------------------------------
\* The scheme is as before, taken back, or what precedes a ":" from p on.
SchemeIn(f, g, p) ==
  \/ g["scheme"] = f["scheme"] \/ g["scheme"] = Unset
  \/ \E e \in p..Size : IsAt(g, "scheme", p, e) /\ Char(e) = ":"

AbsoluteFields == PathFields \cup {"query", "scheme"}

\* absoluteURI: a scheme, ":", and a path with its query; or the position is
\* back at p.
LEMMA AbsoluteParsed ==
  ASSUME Size \in Nat, NEW p \in 0..Size, NEW f, Inside(f)
  PROVE  LET r == absoluteURI(p, f)
         IN \/ /\ r.ok = FALSE /\ r.pos = p /\ Parsed(r, p, f, {"query", "scheme"})
               /\ SchemeIn(f, r.f, p)
            \/ /\ r.ok = TRUE /\ Parsed(r, p, f, AbsoluteFields)
               /\ \E e \in p..Size : /\ IsAt(r.f, "scheme", p, e) /\ Char(e) = ":"
                                     /\ e + 1 <= r.pos /\ HierIn(f, r.f, e + 1, r.pos)
<1> DEFINE s == scheme(p, f)
           b == OrElse(hier_part, opaque_part, Next1(s.pos), s.f)
           r == absoluteURI(p, f)
<1>0. "scheme" \in Fields /\ p \in p..Size /\ Passed(p, p)
  BY PassedParts DEF Fields
<1>1. r = IF s.ok /\ Char(s.pos) = ":" THEN Restore(b, p)
          ELSE Fail(p, IF s.ok THEN [s.f EXCEPT !["scheme"] = Unset] ELSE s.f)
  BY DEF absoluteURI
<1>2. s = Fail(p, f) \/ \E e \in p..Size : Passed(p, e) /\ s = Took("scheme", p, e, f)
  BY SchemeParsed
<1> HIDE DEF s, r
<1>3. ASSUME NEW g, Inside(g), OnlyIn({"query", "scheme"}, f, g), SchemeIn(f, g, p),
             r = Fail(p, g)
      PROVE  /\ r.ok = FALSE /\ r.pos = p /\ Parsed(r, p, f, {"query", "scheme"})
             /\ SchemeIn(f, r.f, p)
  <2>1. r.ok = FALSE /\ r.pos = p /\ r.f = g
    BY <1>3 DEF Fail
  <2>2. r.ok \in BOOLEAN
    BY <2>1, Zenon
  <2> QED
    BY <1>0, <1>3, <2>1, <2>2 DEF Parsed
<1>4. CASE s = Fail(p, f)
  <2>1. s.ok = FALSE /\ s.f = f
    BY <1>4 DEF Fail
  <2>2. r = Fail(p, f)
    BY <1>1, <2>1
  <2>3. OnlyIn({"query", "scheme"}, f, f) /\ SchemeIn(f, f, p)
    BY DEF OnlyIn, SchemeIn
  <2>4. /\ r.ok = FALSE /\ r.pos = p /\ Parsed(r, p, f, {"query", "scheme"})
        /\ SchemeIn(f, r.f, p)
    BY <1>3, <2>2, <2>3
  <2> QED
    BY <2>4 DEF r
<1>5. ASSUME NEW e \in p..Size, Passed(p, e), s = Took("scheme", p, e, f)
      PROVE  \/ /\ r.ok = FALSE /\ r.pos = p /\ Parsed(r, p, f, {"query", "scheme"})
                /\ SchemeIn(f, r.f, p)
             \/ /\ r.ok = TRUE /\ Parsed(r, p, f, AbsoluteFields)
                /\ \E x \in p..Size : /\ IsAt(r.f, "scheme", p, x) /\ Char(x) = ":"
                                      /\ x + 1 <= r.pos /\ HierIn(f, r.f, x + 1, r.pos)
  <2>1. /\ s.ok = TRUE /\ s.pos = e /\ Parsed(s, p, f, {"scheme"})
        /\ IsAt(s.f, "scheme", p, e)
    BY <1>0, <1>5, TookParsed
  <2>2. Inside(s.f) /\ OnlyIn({"scheme"}, f, s.f)
    BY <2>1 DEF Parsed
  <2>3. CASE Char(e) # ":"
    <3> DEFINE g == [s.f EXCEPT !["scheme"] = Unset]
    <3>1. Inside(g) /\ g["scheme"] = Unset /\ OnlyIn({"scheme"}, s.f, g)
      BY <1>0, <2>2, UnsetInside
    <3>2. r = Fail(p, g)
      BY <1>1, <2>1, <2>3
    <3> HIDE DEF g
    <3>3. OnlyIn({"query", "scheme"}, f, g) /\ SchemeIn(f, g, p)
      BY <2>2, <3>1 DEF OnlyIn, SchemeIn
    <3> QED
      BY <1>3, <3>1, <3>2, <3>3
  <2>4. CASE Char(e) = ":"
    <3>1. e < Size /\ e + 1 \in 0..Size /\ Next1(e) = e + 1
      BY <2>4, NextMoves DEF Char
    <3>2. b = OrElse(hier_part, opaque_part, e + 1, s.f)
      BY <2>1, <3>1
    <3>3. \/ b.ok = FALSE /\ Parsed(b, e + 1, s.f, {"query"})
          \/ /\ b.ok = TRUE /\ Parsed(b, e + 1, s.f, PathFields \cup {"query"})
             /\ HierIn(s.f, b.f, e + 1, b.pos)
      BY <2>2, <3>1, <3>2, RestParsed
    <3>4. r = IF b.ok THEN b ELSE Fail(p, b.f)
      BY <1>1, <2>1, <2>4 DEF Restore
    <3> HIDE DEF b
    <3>5. ASSUME b.ok = FALSE, Parsed(b, e + 1, s.f, {"query"})
          PROVE  /\ r.ok = FALSE /\ r.pos = p /\ Parsed(r, p, f, {"query", "scheme"})
                 /\ SchemeIn(f, r.f, p)
      <4>1. Inside(b.f) /\ OnlyIn({"query"}, s.f, b.f)
        BY <3>5 DEF Parsed
      <4>2. OnlyIn({"query", "scheme"}, f, b.f)
        BY <2>2, <4>1 DEF OnlyIn
      <4>3. IsAt(b.f, "scheme", p, e)
        BY <1>0, <2>1, <4>1 DEF OnlyIn, IsAt
      <4>4. SchemeIn(f, b.f, p)
        BY <2>4, <4>3 DEF SchemeIn
      <4> QED
        BY <1>3, <3>4, <3>5, <4>1, <4>2, <4>4
    <3>6. ASSUME b.ok = TRUE, Parsed(b, e + 1, s.f, PathFields \cup {"query"}),
                 HierIn(s.f, b.f, e + 1, b.pos)
          PROVE  /\ r.ok = TRUE /\ Parsed(r, p, f, AbsoluteFields)
                 /\ \E x \in p..Size : /\ IsAt(r.f, "scheme", p, x) /\ Char(x) = ":"
                                       /\ x + 1 <= r.pos /\ HierIn(f, r.f, x + 1, r.pos)
      <4>1. r = b
        BY <3>4, <3>6
      <4>2. /\ b.ok \in BOOLEAN /\ b.pos \in e + 1..Size /\ Inside(b.f)
            /\ OnlyIn(PathFields \cup {"query"}, s.f, b.f)
        BY <3>6 DEF Parsed
      <4>3. OnlyIn(AbsoluteFields, f, b.f)
        BY <2>2, <4>2 DEF OnlyIn, AbsoluteFields
      <4>4. b.pos \in p..Size /\ Passed(p, b.pos)
        <5>1. Passed(e, e + 1)
          <6>1. e \in 0..Size
            BY <3>1
          <6> QED
            BY <2>4, <6>1, DelimiterPasses
        <5>2. Passed(p, e + 1) /\ e + 1 \in Nat
          BY <1>5, <3>1, <5>1, PassedParts
        <5>3. Passed(e + 1, b.pos) /\ b.pos \in p..Size /\ b.pos \in Nat
          BY <3>6, <4>2 DEF Parsed
        <5> QED
          BY <5>2, <5>3, PassedParts
      <4>5. "scheme" \notin PathFields \cup {"query"}
        BY DEF PathFields, NetFields
      <4>6. b.f["scheme"] = s.f["scheme"]
        BY <1>0, <4>2, <4>5 DEF OnlyIn
      <4>7. IsAt(b.f, "scheme", p, e)
        BY <2>1, <4>6 DEF IsAt
      <4>8. HierIn(f, b.f, e + 1, b.pos)
        BY <2>2, <3>6, HierInFrom
      <4> QED
        BY <2>4, <3>6, <4>1, <4>2, <4>3, <4>4, <4>7, <4>8 DEF Parsed
    <3> QED
      BY <3>3, <3>5, <3>6
  <2> QED
    BY <2>3, <2>4
<1> QED
  BY <1>2, <1>4, <1>5 DEF r

\* Where the path of a reference begins: at p, or behind the scheme's ":".
BeginsAt(g, p, a) ==
  \/ a = p
  \/ \E e \in p..Size : IsAt(g, "scheme", p, e) /\ Char(e) = ":" /\ a = e + 1

LEMMA UriParsed ==
  ASSUME Size \in Nat, NEW p \in 0..Size, NEW f, Inside(f)
  PROVE  LET r == OrElse(absoluteURI, relativeURI, p, f)
         IN /\ Parsed(r, p, f, AbsoluteFields) /\ SchemeIn(f, r.f, p)
            /\ \/ r.ok = FALSE /\ r.pos = p /\ r.f["net_path"] = f["net_path"]
               \/ /\ r.ok = TRUE
                  /\ \E a \in p..r.pos : BeginsAt(r.f, p, a) /\ HierIn(f, r.f, a, r.pos)
<1> DEFINE a == absoluteURI(p, f)
           b == relativeURI(a.pos, a.f)
           r == OrElse(absoluteURI, relativeURI, p, f)
<1>0. /\ {"net_path", "scheme"} \subseteq Fields /\ "scheme" \notin PathFields \cup {"query"}
      /\ "net_path" \notin {"query", "scheme"} /\ {"query", "scheme"} \subseteq AbsoluteFields
      /\ PathFields \cup {"query"} \subseteq AbsoluteFields
  BY DEF Fields, PathFields, NetFields, AbsoluteFields
<1>1. r = IF a.ok THEN a ELSE b
  BY DEF OrElse
<1>2. \/ /\ a.ok = FALSE /\ a.pos = p /\ Parsed(a, p, f, {"query", "scheme"})
         /\ SchemeIn(f, a.f, p)
      \/ /\ a.ok = TRUE /\ Parsed(a, p, f, AbsoluteFields)
         /\ \E e \in p..Size : /\ IsAt(a.f, "scheme", p, e) /\ Char(e) = ":"
                               /\ e + 1 <= a.pos /\ HierIn(f, a.f, e + 1, a.pos)
  BY AbsoluteParsed
<1> HIDE DEF a, r
<1>3. CASE /\ a.ok = TRUE /\ Parsed(a, p, f, AbsoluteFields)
           /\ \E e \in p..Size : /\ IsAt(a.f, "scheme", p, e) /\ Char(e) = ":"
                                 /\ e + 1 <= a.pos /\ HierIn(f, a.f, e + 1, a.pos)
  <2>1. r = a
    BY <1>1, <1>3
  <2>2. PICK e \in p..Size : /\ IsAt(a.f, "scheme", p, e) /\ Char(e) = ":"
                             /\ e + 1 <= a.pos /\ HierIn(f, a.f, e + 1, a.pos)
    BY <1>3
  <2>3. SchemeIn(f, a.f, p) /\ BeginsAt(a.f, p, e + 1)
    BY <2>2 DEF SchemeIn, BeginsAt
  <2>4. e + 1 \in p..a.pos
    BY <1>3, <2>2 DEF Parsed
  <2> QED
    BY <1>3, <2>1, <2>2, <2>3, <2>4 DEF r
<1>4. CASE /\ a.ok = FALSE /\ a.pos = p /\ Parsed(a, p, f, {"query", "scheme"})
           /\ SchemeIn(f, a.f, p)
  <2>1. r = b /\ b = relativeURI(p, a.f)
    BY <1>1, <1>4
  <2>2. Inside(a.f) /\ OnlyIn({"query", "scheme"}, f, a.f)
    BY <1>4 DEF Parsed
  <2> HIDE DEF b
  <2>3. \/ b.ok = FALSE /\ b.pos = p /\ Parsed(b, p, a.f, {"query"})
        \/ /\ b.ok = TRUE /\ Parsed(b, p, a.f, PathFields \cup {"query"})
           /\ HierIn(a.f, b.f, p, b.pos)
    BY <2>1, <2>2, RelativeParsed
  <2>4. Parsed(b, p, a.f, PathFields \cup {"query"})
    BY <2>3 DEF Parsed, OnlyIn
  <2>5. b.f["scheme"] = a.f["scheme"]
    BY <1>0, <2>4 DEF Parsed, OnlyIn
  <2>6. Parsed(b, p, f, AbsoluteFields)
    BY <1>0, <2>2, <2>4 DEF Parsed, OnlyIn
  <2>7. SchemeIn(f, b.f, p)
    BY <1>4, <2>5 DEF SchemeIn, IsAt
  <2>8. CASE b.ok = FALSE /\ b.pos = p /\ Parsed(b, p, a.f, {"query"})
    <3>1. b.f["net_path"] = f["net_path"]
      BY <1>0, <2>2, <2>8 DEF Parsed, OnlyIn
    <3> QED
      BY <2>1, <2>6, <2>7, <2>8, <3>1 DEF r
  <2>9. CASE b.ok = TRUE /\ HierIn(a.f, b.f, p, b.pos)
    <3>1. HierIn(f, b.f, p, b.pos)
      BY <2>2, <2>9, HierInFrom
    <3>2. p \in p..b.pos /\ BeginsAt(b.f, p, p)
      BY <2>4 DEF BeginsAt, Parsed
    <3> QED
      BY <2>1, <2>6, <2>7, <2>9, <3>1, <3>2 DEF r
  <2> QED
    BY <2>3, <2>8, <2>9
<1> QED
  BY <1>2, <1>3, <1>4

\* The fragment behind what ends at c.
FragmentIn(g, c, d) ==
  \/ Char(c) # "#" /\ d = c
  \/ Char(c) = "#" /\ c + 1 <= d /\ IsAt(g, "fragment", c + 1, d)

LEMMA FragmentTaken ==
  ASSUME Size \in Nat, NEW p \in 0..Size, NEW f, NEW T, NEW r, Parsed(r, p, f, T)
  PROVE  LET t == Then(r, "#", fragment)
         IN /\ t.ok = r.ok /\ Parsed(t, p, f, T \cup {"fragment"})
            /\ OnlyIn({"fragment"}, r.f, t.f) /\ FragmentIn(t.f, r.pos, t.pos)
            /\ r.pos <= t.pos
<1> DEFINE t == Then(r, "#", fragment)
<1>0. "fragment" \in Fields
  BY DEF Fields
<1>1. r.pos \in p..Size /\ r.pos \in 0..Size
  BY DEF Parsed
<1>2. CASE Char(r.pos) # "#"
  <2>1. t = r
    BY <1>2 DEF Then
  <2> QED
    BY <1>1, <1>2, <2>1 DEF Parsed, OnlyIn, FragmentIn
<1>3. CASE Char(r.pos) = "#"
  <2> DEFINE b == fragment(r.pos + 1, r.f)
  <2>1. r.pos < Size /\ r.pos + 1 \in 0..Size
    BY <1>1, <1>3 DEF Char
  <2>2. Next1(r.pos) = r.pos + 1
    BY <1>1, <2>1, NextMoves
  <2>3. t = [ok |-> r.ok, pos |-> b.pos, f |-> b.f]
    BY <1>3, <2>2 DEF Then
  <2>4. PICK q \in r.pos + 1..Size : Passed(r.pos + 1, q) /\ b = Took("fragment", r.pos + 1, q, r.f)
    BY <2>1, FragmentParsed
  <2> HIDE DEF b
  <2>5. /\ b.pos = q /\ Parsed(b, r.pos + 1, r.f, {"fragment"})
        /\ IsAt(b.f, "fragment", r.pos + 1, q)
    BY <1>0, <2>1, <2>4, TookParsed DEF Parsed
  <2>6. t.ok = r.ok /\ t.pos = q /\ t.f = b.f
    BY <2>3, <2>5
  <2> HIDE DEF t
  <2>7. q \in p..Size /\ r.pos + 1 <= q /\ r.pos <= q
    BY <1>1, <2>1
  <2>a. Passed(p, q)
    <3>1. Passed(r.pos, r.pos + 1)
      BY <1>1, <1>3, DelimiterPasses
    <3>2. Passed(p, r.pos) /\ r.pos \in Nat
      BY <1>1 DEF Parsed
    <3>3. Passed(p, r.pos + 1)
      BY <3>1, <3>2, PassedParts
    <3> QED
      BY <2>1, <2>4, <2>7, <3>3, PassedParts
  <2>8. t.ok \in BOOLEAN
    BY <2>6, Zenon DEF Parsed
  <2>9. Inside(t.f) /\ OnlyIn({"fragment"}, r.f, t.f) /\ OnlyIn(T \cup {"fragment"}, f, t.f)
    BY <2>5, <2>6 DEF Parsed, OnlyIn
  <2>10. FragmentIn(t.f, r.pos, t.pos)
    BY <1>3, <2>5, <2>6, <2>7 DEF FragmentIn
  <2>11. Parsed(t, p, f, T \cup {"fragment"})
    BY <2>6, <2>7, <2>8, <2>9, <2>a DEF Parsed
  <2> QED
    BY <2>6, <2>7, <2>9, <2>10, <2>11 DEF t
<1> QED
  BY <1>2, <1>3

\* A reference from p to d: where its path begins, the path and its query, or
\* neither, and the fragment.
ReferenceIn(f, g, p, d) ==
  \E a \in p..d : \E c \in a..d :
    /\ BeginsAt(g, p, a) /\ FragmentIn(g, c, d)
    /\ \/ HierIn(f, g, a, c)
       \/ a = p /\ c = p /\ Char(p) = "#" /\ g["net_path"] = f["net_path"]

LEMMA ReferenceParsed ==
  ASSUME Size \in Nat, NEW p \in 0..Size, NEW f, Inside(f)
  PROVE  LET r == URI_reference(p, f)
         IN /\ Parsed(r, p, f, Fields)
            /\ r.ok = TRUE => SchemeIn(f, r.f, p) /\ ReferenceIn(f, r.f, p, r.pos)
<1> DEFINE a == OrElse(absoluteURI, relativeURI, p, f)
           t == Then(a, "#", fragment)
           e == [t EXCEPT !.ok = a.ok \/ Char(a.pos) = "#"]
           r == URI_reference(p, f)
<1>0. /\ {"net_path", "scheme", "query"} \subseteq Fields
      /\ {"fragment"} \cap PathFields = {} /\ p \in p..Size /\ Passed(p, p)
  BY PassedParts DEF Fields, PathFields, NetFields
<1>1. r = IF e.ok THEN e ELSE Fail(p, e.f)
  BY DEF URI_reference, Restore
<1>2. /\ Parsed(a, p, f, AbsoluteFields) /\ SchemeIn(f, a.f, p)
      /\ \/ a.ok = FALSE /\ a.pos = p /\ a.f["net_path"] = f["net_path"]
         \/ /\ a.ok = TRUE
            /\ \E b \in p..a.pos : BeginsAt(a.f, p, b) /\ HierIn(f, a.f, b, a.pos)
  BY UriParsed
<1> HIDE DEF a, r
<1>3. /\ t.ok = a.ok /\ Parsed(t, p, f, AbsoluteFields \cup {"fragment"})
      /\ OnlyIn({"fragment"}, a.f, t.f) /\ FragmentIn(t.f, a.pos, t.pos)
      /\ a.pos <= t.pos
  BY <1>2, FragmentTaken
<1>4. e.ok = (a.ok \/ Char(a.pos) = "#") /\ e.pos = t.pos /\ e.f = t.f
  BY DEF Then, fragment, Took, Ok
<1> HIDE DEF t, e
<1>5. /\ Inside(t.f) /\ t.pos \in p..Size /\ Passed(p, t.pos) /\ OnlyIn(Fields, f, t.f)
      /\ a.pos \in p..t.pos /\ a.ok \in BOOLEAN
  BY <1>2, <1>3 DEF Parsed, OnlyIn
<1>6. /\ t.f["scheme"] = a.f["scheme"] /\ t.f["query"] = a.f["query"]
      /\ t.f["net_path"] = a.f["net_path"]
  BY <1>0, <1>3 DEF OnlyIn
<1>7. CASE ~e.ok
  <2>1. r = Fail(p, t.f)
    BY <1>1, <1>4, <1>7
  <2>2. r.ok = FALSE /\ r.pos = p /\ r.f = t.f
    BY <2>1 DEF Fail
  <2>3. r.ok \in BOOLEAN
    BY <2>2, Zenon
  <2> QED
    BY <1>0, <1>5, <2>2, <2>3 DEF Parsed, r
<1>8. CASE e.ok
  <2>1. r = e
    BY <1>1, <1>8
  <2>2. r.ok \in BOOLEAN
    BY <1>4, <2>1, Zenon
  <2>3. Parsed(r, p, f, Fields)
    BY <1>4, <1>5, <2>1, <2>2 DEF Parsed
  <2>4. SchemeIn(f, t.f, p)
    BY <1>2, <1>6 DEF SchemeIn, IsAt
  <2>5. ReferenceIn(f, t.f, p, t.pos)
    <3>1. CASE a.ok = TRUE
      <4>1. PICK b \in p..a.pos : BeginsAt(a.f, p, b) /\ HierIn(f, a.f, b, a.pos)
        BY <1>2, <3>1
      <4>2. BeginsAt(t.f, p, b)
        BY <1>6, <4>1 DEF BeginsAt, IsAt
      <4>3. ASSUME NEW q, PathIn(f, a.f, b, q) PROVE PathIn(f, t.f, b, q)
        BY <1>0, <1>3, <4>3, PathInKept
      <4>4. HierIn(f, t.f, b, a.pos)
        BY <1>6, <4>1, <4>3 DEF HierIn, QueryIn, IsAt
      <4>5. b \in p..t.pos /\ a.pos \in b..t.pos
        BY <1>5, <4>1
      <4> QED
        BY <1>3, <4>2, <4>4, <4>5 DEF ReferenceIn
    <3>2. CASE a.ok = FALSE
      <4>1. a.pos = p /\ a.f["net_path"] = f["net_path"] /\ Char(p) = "#"
        BY <1>2, <1>4, <1>8, <3>2
      <4>2. BeginsAt(t.f, p, p) /\ p \in p..t.pos
        BY <1>5 DEF BeginsAt
      <4> QED
        BY <1>3, <1>6, <4>1, <4>2 DEF ReferenceIn
    <3> QED
      BY <1>5, <3>1, <3>2
  <2> QED
    BY <1>4, <2>1, <2>3, <2>4, <2>5 DEF r
<1> QED
  BY <1>7, <1>8

\* uriaa_check_url on components that lie in the text.
THEOREM CheckUrlParsed ==
  ASSUME Size \in Nat, NEW f, Inside(f)
  PROVE  LET r == uriaa_check_url(f)
         IN /\ Parsed(r, 0, f, Fields)
            /\ r.ok = TRUE => SchemeIn(f, r.f, 0) /\ ReferenceIn(f, r.f, 0, r.pos)
<1> DEFINE r == uriaa_check_url(f)
<1>1. 0 \in 0..Size
  OBVIOUS
<1>2. CASE Size > 0
  BY <1>1, <1>2, ReferenceParsed DEF uriaa_check_url
<1>3. CASE ~(Size > 0)
  <2>1. r = Fail(0, f)
    BY <1>3 DEF uriaa_check_url
  <2> HIDE DEF r
  <2>2. r.ok = FALSE /\ Parsed(r, 0, f, {})
    BY <1>1, <2>1, FailParsed
  <2>3. Parsed(r, 0, f, Fields)
    BY <2>2 DEF Parsed, OnlyIn
  <2> QED
    BY <2>2, <2>3 DEF r
<1> QED
  BY <1>2, <1>3
=============================================================================
