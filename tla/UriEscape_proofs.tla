-------------------------- MODULE UriEscape_proofs --------------------------
(* uriaa_escape and uriaa_unescape on a text of any length.  The result is  *)
(* stated character by character: where in out a character of the text      *)
(* belongs is a matter of counting the escapes before it, so the loops'     *)
(* invariants are what EscapeDecodes and UnescapesUnreserved say of the     *)
(* whole text, said of the part that has been read.                         *)
EXTENDS UriEscape, FiniteSetTheorems, SequenceTheorems, TLAPS

\* The shape of a state: what the call was given, and where it stands.
Shape ==
  /\ text \in Texts /\ op \in {"escape", "unescape"} /\ flag \in BOOLEAN
  /\ size = IF op = "escape" THEN 3 * Len(text) ELSE Len(text)
  /\ TypeOK
  /\ pc = "loop" => read_pos < Len(text)

\* EscapeDecodes of the part of the text that has been read.
EscapedSoFar ==
  op = "escape" =>
    /\ pc = "done" => read_pos = Len(text)
    /\ Len(out) < size - 1 =>
         /\ EscapedPlace(read_pos + 1) = Len(out) + 1
         /\ \A k \in 1..read_pos :
              IF MustEscape(text[k])
              THEN IsEscape(out, EscapedPlace(k)) /\ EscapeValue(out, EscapedPlace(k)) = text[k]
              ELSE EscapedPlace(k) <= Len(out) /\ out[EscapedPlace(k)] = text[k]
         /\ \A k \in 1..Len(out) : MustEscape(out[k]) => IsEscape(out, k)

\* UnescapesUnreserved of the part of the text that has been read.
UnescapedSoFar ==
  op = "unescape" /\ flag /\ WellFormed(text) =>
    /\ pc = "done" => read_pos = Len(text) /\ result = 1
    /\ UndonePlace(read_pos + 1) >= 1
    /\ Len(out) + 1 = IF UndonePlace(read_pos + 1) < size
                      THEN UndonePlace(read_pos + 1) ELSE size
    /\ \A k \in 1..read_pos : ~UndoneDigit(k) =>
         /\ 1 <= UndonePlace(k) /\ UndonePlace(k) < UndonePlace(read_pos + 1)
         /\ UndonePlace(k) < size =>
              out[UndonePlace(k)] = IF Undone(k) THEN EscapeValue(text, k) ELSE text[k]

-----------------------------------------------------------------------------
(* Facts about the operators *)

\* What has been given and what TypeOK says of it.
LEMMA TextType ==
  ASSUME Shape
  PROVE  /\ text \in Seq(0..255) /\ Len(text) \in Nat /\ Len(text) > 0
         /\ size \in Nat /\ size > 0
         /\ out \in Seq(0..255) /\ Len(out) \in Nat /\ Len(out) < size
         /\ read_pos \in Nat /\ read_pos <= Len(text)
         /\ \A k \in 1..Len(text) : text[k] \in 0..255
<1>1. text \in Seq(0..255) /\ text # << >>
  BY TextsAssumption DEF Shape
<1>2. Len(text) \in Nat /\ Len(text) > 0
  BY <1>1
<1>3. size \in Nat /\ size > 0
  BY <1>2 DEF Shape
<1>4. /\ out \in Seq(0..255) /\ Len(out) < size
      /\ read_pos \in 0..Len(text)
  BY DEF Shape, TypeOK
<1>5. Len(out) \in Nat
  BY <1>4
<1>6. \A k \in 1..Len(text) : text[k] \in 0..255
  BY <1>1, ElementOfSeq
<1> QED
  BY <1>1, <1>2, <1>3, <1>4, <1>5, <1>6

\* Put appends what fits before the place of the terminating character.
LEMMA PutAppends ==
  ASSUME NEW o \in Seq(0..255), NEW s \in Seq(0..255),
         size \in Nat, size > 0, Len(o) < size
  PROVE  /\ Put(o, s) \in Seq(0..255)
         /\ Len(Put(o, s)) = IF Len(o) + Len(s) < size THEN Len(o) + Len(s) ELSE size - 1
         /\ \A k \in 1..Len(Put(o, s)) :
              Put(o, s)[k] = IF k <= Len(o) THEN o[k] ELSE s[k - Len(o)]
<1> DEFINE n == IF Len(o) + Len(s) < size THEN Len(o) + Len(s) ELSE size - 1
           t == o \o s
<1>1. /\ Len(o) \in Nat /\ Len(s) \in Nat /\ n \in 0..Len(o) + Len(s)
  OBVIOUS
<1>2. /\ t \in Seq(0..255) /\ Len(t) = Len(o) + Len(s)
      /\ \A k \in 1..Len(t) : t[k] = IF k <= Len(o) THEN o[k] ELSE s[k - Len(o)]
  BY <1>1
<1>3. Put(o, s) = SubSeq(t, 1, n)
  BY DEF Put
<1> HIDE DEF n, t
<1>4. /\ SubSeq(t, 1, n) \in Seq(0..255) /\ Len(SubSeq(t, 1, n)) = n
      /\ \A k \in 1..n : SubSeq(t, 1, n)[k] = t[k]
  <2>1. n \in Nat /\ n <= Len(t) /\ Len(t) \in Nat
    BY <1>1, <1>2
  <2>0. \A k \in 1..Len(t) : t[k] \in 0..255
    BY <1>2, ElementOfSeq
  <2>2. \A k \in 1..n : t[k] \in 0..255
    BY <2>0, <2>1
  <2>3. SubSeq(t, 1, n) = [k \in 1..n |-> t[k]]
    BY <1>2, <2>1
  <2> QED
    BY <2>1, <2>2, <2>3
<1>5. \A k \in 1..n : k \in 1..Len(t)
  BY <1>1, <1>2
<1>6. \A k \in 1..n : SubSeq(t, 1, n)[k] = IF k <= Len(o) THEN o[k] ELSE s[k - Len(o)]
  BY <1>2, <1>4, <1>5
<1>7. n = IF Len(o) + Len(s) < size THEN Len(o) + Len(s) ELSE size - 1
  BY DEF n
<1> QED
  BY <1>3, <1>4, <1>6, <1>7

\* One character as a sequence of bytes.
LEMMA Singles ==
  ASSUME NEW a \in 0..255
  PROVE  <<a>> \in Seq(0..255) /\ Len(<<a>>) = 1 /\ <<a>>[1] = a
  OBVIOUS

\* Three characters as a sequence of bytes.
LEMMA Tuples ==
  ASSUME NEW a \in 0..255, NEW b \in 0..255, NEW c \in 0..255
  PROVE  /\ <<a, b, c>> \in Seq(0..255) /\ Len(<<a, b, c>>) = 3
         /\ <<a, b, c>>[1] = a /\ <<a, b, c>>[2] = b /\ <<a, b, c>>[3] = c
  OBVIOUS

\* The three characters of an escape, put together.
LEMMA Triples ==
  \A a, b, c \in 0..255 : <<a>> \o <<b, c>> = <<a, b, c>>
<1> SUFFICES ASSUME NEW a \in 0..255, NEW b \in 0..255, NEW c \in 0..255
             PROVE  <<a>> \o <<b, c>> = <<a, b, c>>
  OBVIOUS
<1> DEFINE s == <<a>>  t == <<b, c>>  w == <<a, b, c>>
<1>1. /\ s \in Seq(0..255) /\ Len(s) = 1 /\ s[1] = a
      /\ t \in Seq(0..255) /\ Len(t) = 2 /\ t[1] = b /\ t[2] = c
      /\ w \in Seq(0..255) /\ Len(w) = 3 /\ w[1] = a /\ w[2] = b /\ w[3] = c
  OBVIOUS
<1> HIDE DEF s, t, w
<1>2. /\ s \o t \in Seq(0..255) /\ Len(s \o t) = Len(s) + Len(t)
      /\ \A i \in 1..Len(s) + Len(t) :
           (s \o t)[i] = IF i <= Len(s) THEN s[i] ELSE t[i - Len(s)]
  <2>1. s \in Seq(0..255) /\ t \in Seq(0..255)
    BY <1>1
  <2> QED
    BY <2>1, ConcatProperties
<1>3. (s \o t)[1] = s[1] /\ (s \o t)[2] = t[2 - 1] /\ (s \o t)[3] = t[3 - 1]
  BY <1>1, <1>2
<1>4. \A i \in 1..3 : (s \o t)[i] = w[i]
  <2>1. 2 - 1 = 1 /\ 3 - 1 = 2 /\ \A i \in 1..3 : i = 1 \/ i = 2 \/ i = 3
    OBVIOUS
  <2>2. (s \o t)[1] = w[1] /\ (s \o t)[2] = w[2] /\ (s \o t)[3] = w[3]
    BY <1>1, <1>3, <2>1
  <2> QED
    BY <2>1, <2>2
<1>5. s \o t = w
  BY <1>1, <1>2, <1>4, SeqEqual
<1> QED
  BY <1>5 DEF s, t, w

\* stringaa_get_char at a position of the text.
LEMMA CharAt ==
  ASSUME Shape, NEW r \in Nat, r < Len(text)
  PROVE  Char(r) = text[r + 1] /\ text[r + 1] \in 0..255
<1>1. r + 1 \in 1..Len(text)
  BY TextType
<1> QED
  BY <1>1, TextType DEF Char

\* The hexadecimal digits uriaa_escape_char makes, which need no escape.
Digits == 48..57 \cup 65..70

\* The two digits uriaa_escape_char makes of a byte stand for it.
LEMMA EscapeDigits ==
  ASSUME NEW c \in 0..255
  PROVE  \E high, low \in Digits :
           /\ <<Percent>> \o uriaa_escape_char(c) = <<Percent, high, low>>
           /\ Hex(high) >= 0 /\ Hex(low) >= 0
           /\ 16 * Hex(high) + Hex(low) = c
<1> DEFINE digit(v) == IF v + 48 > 57 THEN v + 55 ELSE v + 48
<1>1. c \div 16 \in 0..15 /\ c % 16 \in 0..15 /\ 16 * (c \div 16) + (c % 16) = c
  OBVIOUS
<1>2. \A v \in 0..15 : digit(v) \in 48..57 \cup 65..70 /\ Hex(digit(v)) = v
  BY DEF Hex
<1>3. uriaa_escape_char(c) = <<digit(c \div 16), digit(c % 16)>>
  BY DEF uriaa_escape_char
<1> HIDE DEF digit
<1>4. /\ digit(c \div 16) \in Digits /\ Hex(digit(c \div 16)) = c \div 16
      /\ digit(c % 16) \in Digits /\ Hex(digit(c % 16)) = c % 16
  BY <1>1, <1>2 DEF Digits
<1>5. <<Percent>> \o <<digit(c \div 16), digit(c % 16)>>
        = <<Percent, digit(c \div 16), digit(c % 16)>>
  <2>1. Percent \in 0..255 /\ \A d \in Digits : d \in 0..255
    BY DEF Percent, Digits
  <2>3. digit(c \div 16) \in 0..255 /\ digit(c % 16) \in 0..255
    BY <1>4, <2>1
  <2> QED
    BY <2>1, <2>3, Triples
<1> QED
  BY <1>1, <1>3, <1>4, <1>5

\* No hexadecimal digit is a character that is escaped.
LEMMA DigitsStay ==
  \A c \in Digits : c \in 0..255 /\ ~MustEscape(c)
  BY DEF Digits, MustEscape, Excluded, Reserved

\* uriaa_unescape_char on two hexadecimal digits, and on any two characters.
LEMMA UnescapeDigits ==
  /\ \A c, d \in 0..255 : Hex(c) >= 0 /\ Hex(d) >= 0 =>
       uriaa_unescape_char(c, d) = 16 * Hex(c) + Hex(d)
  /\ \A c, d \in 0..255 : uriaa_unescape_char(c, d) \in -1..255
<1>1. \A c \in 0..255 : HexValue(c) \in -1..15 /\ (Hex(c) >= 0 => HexValue(c) = Hex(c))
  BY DEF HexValue, Hex
<1> SUFFICES ASSUME NEW c \in 0..255, NEW d \in 0..255
             PROVE  /\ Hex(c) >= 0 /\ Hex(d) >= 0 =>
                         uriaa_unescape_char(c, d) = 16 * Hex(c) + Hex(d)
                    /\ uriaa_unescape_char(c, d) \in -1..255
  OBVIOUS
<1>2. /\ HexValue(c) \in -1..15 /\ HexValue(d) \in -1..15
      /\ Hex(c) >= 0 => HexValue(c) = Hex(c)
      /\ Hex(d) >= 0 => HexValue(d) = Hex(d)
  BY <1>1
<1> QED
  BY <1>2 DEF uriaa_unescape_char

\* The members of S below k, and their number one further on.
Below(S, k) == {j \in 1..k - 1 : j \in S}

\* Counting: the first number has none below it, the next has one more when k
\* is a member.
LEMMA CountBelow ==
  ASSUME NEW S
  PROVE  /\ Cardinality(Below(S, 1)) = 0
         /\ \A k \in Nat \ {0} :
              /\ Cardinality(Below(S, k)) \in Nat
              /\ k \in S => Cardinality(Below(S, k + 1)) = Cardinality(Below(S, k)) + 1
              /\ k \notin S => Cardinality(Below(S, k + 1)) = Cardinality(Below(S, k))
<1>1. Cardinality(Below(S, 1)) = 0
  <2>1. Below(S, 1) = {}
    BY DEF Below
  <2> QED
    BY <2>1, FS_EmptySet
<1>2. ASSUME NEW k \in Nat \ {0}
      PROVE  /\ Cardinality(Below(S, k)) \in Nat
             /\ k \in S => Cardinality(Below(S, k + 1)) = Cardinality(Below(S, k)) + 1
             /\ k \notin S => Cardinality(Below(S, k + 1)) = Cardinality(Below(S, k))
  <2>1. IsFiniteSet(1..k - 1) /\ Below(S, k) \in SUBSET (1..k - 1)
    BY FS_Interval DEF Below
  <2>2. IsFiniteSet(Below(S, k))
    BY <2>1, FS_Subset
  <2>3. Cardinality(Below(S, k)) \in Nat
    BY <2>2, FS_CardinalityType
  <2>4. /\ k \in S => Below(S, k + 1) = Below(S, k) \cup {k}
        /\ k \notin S => Below(S, k + 1) = Below(S, k)
        /\ k \notin Below(S, k)
    BY DEF Below
  <2>5. Cardinality(Below(S, k) \cup {k}) = Cardinality(Below(S, k)) + 1
    BY <2>2, <2>4, FS_AddElement
  <2> QED
    BY <2>3, <2>4, <2>5
<1> QED
  BY <1>1, <1>2

\* The place of a character in the escaped text counts on by the length of what
\* is written for it.
LEMMA EscapedPlaces ==
  /\ EscapedPlace(1) = 1
  /\ \A k \in Nat \ {0} :
       /\ EscapedPlace(k) \in Nat /\ EscapedPlace(k) >= k
       /\ EscapedPlace(k + 1) = EscapedPlace(k) + (IF MustEscape(text[k]) THEN 3 ELSE 1)
<1> DEFINE S == {j \in Nat : MustEscape(text[j])}
<1>1. \A k \in Nat \ {0} : EscapedPlace(k) = k + 2 * Cardinality(Below(S, k))
  <2> SUFFICES ASSUME NEW k \in Nat \ {0}
               PROVE  EscapedPlace(k) = k + 2 * Cardinality(Below(S, k))
    OBVIOUS
  <2>1. Below(S, k) = {j \in 1..k - 1 : MustEscape(text[j])}
    BY DEF Below
  <2> QED
    BY <2>1 DEF EscapedPlace
<1>2. \A k \in Nat \ {0} : k \in S <=> MustEscape(text[k])
  OBVIOUS
<1> HIDE DEF S
<1>3. EscapedPlace(1) = 1
  BY <1>1, CountBelow
<1>4. ASSUME NEW k \in Nat \ {0}
      PROVE  /\ EscapedPlace(k) \in Nat /\ EscapedPlace(k) >= k
             /\ EscapedPlace(k + 1) = EscapedPlace(k) + (IF MustEscape(text[k]) THEN 3 ELSE 1)
  <2>1. /\ EscapedPlace(k) = k + 2 * Cardinality(Below(S, k))
        /\ EscapedPlace(k + 1) = (k + 1) + 2 * Cardinality(Below(S, k + 1))
        /\ Cardinality(Below(S, k)) \in Nat
    BY <1>1, CountBelow
  <2>2. CASE MustEscape(text[k])
    <3>1. Cardinality(Below(S, k + 1)) = Cardinality(Below(S, k)) + 1
      BY <1>2, <2>2, CountBelow
    <3> QED
      BY <2>1, <2>2, <3>1
  <2>3. CASE ~MustEscape(text[k])
    <3>1. Cardinality(Below(S, k + 1)) = Cardinality(Below(S, k))
      BY <1>2, <2>3, CountBelow
    <3> QED
      BY <2>1, <2>3, <3>1
  <2> QED
    BY <2>2, <2>3
<1> QED
  BY <1>3, <1>4

\* The place of a character in the unescaped text counts on by one, and back by
\* the two characters that an escape loses.
LEMMA UndonePlaces ==
  /\ UndonePlace(1) = 1
  /\ \A k \in Nat \ {0} :
       /\ UndonePlace(k) \in Int
       /\ Undone(k) => UndonePlace(k + 1) = UndonePlace(k) - 1
       /\ ~Undone(k) => UndonePlace(k + 1) = UndonePlace(k) + 1
<1> DEFINE S == {j \in Nat : Undone(j)}
<1>1. \A k \in Nat \ {0} : UndonePlace(k) = k - 2 * Cardinality(Below(S, k))
  <2> SUFFICES ASSUME NEW k \in Nat \ {0}
               PROVE  UndonePlace(k) = k - 2 * Cardinality(Below(S, k))
    OBVIOUS
  <2>1. Below(S, k) = {j \in 1..k - 1 : Undone(j)}
    BY DEF Below
  <2> QED
    BY <2>1 DEF UndonePlace
<1>2. \A k \in Nat \ {0} : k \in S <=> Undone(k)
  OBVIOUS
<1> HIDE DEF S
<1>3. UndonePlace(1) = 1
  BY <1>1, CountBelow
<1>4. ASSUME NEW k \in Nat \ {0}
      PROVE  /\ UndonePlace(k) \in Int
             /\ Undone(k) => UndonePlace(k + 1) = UndonePlace(k) - 1
             /\ ~Undone(k) => UndonePlace(k + 1) = UndonePlace(k) + 1
  <2>1. /\ UndonePlace(k) = k - 2 * Cardinality(Below(S, k))
        /\ UndonePlace(k + 1) = (k + 1) - 2 * Cardinality(Below(S, k + 1))
        /\ Cardinality(Below(S, k)) \in Nat
    BY <1>1, CountBelow
  <2>2. CASE Undone(k)
    <3>1. Cardinality(Below(S, k + 1)) = Cardinality(Below(S, k)) + 1
      BY <1>2, <2>2, CountBelow
    <3> QED
      BY <2>1, <2>2, <3>1
  <2>3. CASE ~Undone(k)
    <3>1. Cardinality(Below(S, k + 1)) = Cardinality(Below(S, k))
      BY <1>2, <2>3, CountBelow
    <3> QED
      BY <2>1, <2>3, <3>1
  <2> QED
    BY <2>2, <2>3
<1> QED
  BY <1>3, <1>4
-----------------------------------------------------------------------------
(* uriaa_escape *)

\* An escape stays an escape, of the same character, when more is written.
LEMMA EscapeKept ==
  ASSUME NEW o \in Seq(0..255), NEW o2 \in Seq(0..255), Len(o) <= Len(o2),
         \A k \in 1..Len(o) : o2[k] = o[k],
         NEW p \in Nat \ {0}, IsEscape(o, p)
  PROVE  IsEscape(o2, p) /\ EscapeValue(o2, p) = EscapeValue(o, p)
<1>1. /\ p + 2 <= Len(o) /\ Len(o) \in Nat /\ Len(o2) \in Nat
  BY DEF IsEscape
<1>2. o2[p] = o[p] /\ o2[p + 1] = o[p + 1] /\ o2[p + 2] = o[p + 2]
  BY <1>1
<1> QED
  BY <1>1, <1>2 DEF IsEscape, EscapeValue

\* What a pass of uriaa_escape writes for the character c.
Unit(c) == IF MustEscape(c) THEN <<Percent>> \o uriaa_escape_char(c) ELSE <<c>>

\* It is the character, or an escape that stands for it.
LEMMA EscapeUnit ==
  ASSUME NEW c \in 0..255
  PROVE  LET u == Unit(c) IN
         /\ u \in Seq(0..255) /\ Len(u) = (IF MustEscape(c) THEN 3 ELSE 1)
         /\ MustEscape(c) => /\ u[1] = Percent /\ Hex(u[2]) >= 0 /\ Hex(u[3]) >= 0
                             /\ 16 * Hex(u[2]) + Hex(u[3]) = c
                             /\ ~MustEscape(u[2]) /\ ~MustEscape(u[3])
         /\ ~MustEscape(c) => u[1] = c
<1> DEFINE u == Unit(c)
<1> HIDE DEF u
<1> SUFFICES /\ u \in Seq(0..255) /\ Len(u) = (IF MustEscape(c) THEN 3 ELSE 1)
             /\ MustEscape(c) => /\ u[1] = Percent /\ Hex(u[2]) >= 0 /\ Hex(u[3]) >= 0
                                 /\ 16 * Hex(u[2]) + Hex(u[3]) = c
                                 /\ ~MustEscape(u[2]) /\ ~MustEscape(u[3])
             /\ ~MustEscape(c) => u[1] = c
  BY DEF u
<1>1. CASE MustEscape(c)
  <2>1. PICK high \in Digits, low \in Digits :
          /\ <<Percent>> \o uriaa_escape_char(c) = <<Percent, high, low>>
          /\ Hex(high) >= 0 /\ Hex(low) >= 0
          /\ 16 * Hex(high) + Hex(low) = c
    BY EscapeDigits
  <2>2. u = <<Percent, high, low>>
    BY <1>1, <2>1 DEF u, Unit
  <2>3. /\ Percent \in 0..255 /\ high \in 0..255 /\ low \in 0..255
        /\ ~MustEscape(high) /\ ~MustEscape(low)
    BY DigitsStay DEF Percent
  <2>4. u \in Seq(0..255) /\ Len(u) = 3 /\ u[1] = Percent /\ u[2] = high /\ u[3] = low
    BY <2>2, <2>3, Tuples
  <2> QED
    BY <1>1, <2>1, <2>3, <2>4
<1>2. CASE ~MustEscape(c)
  <2>1. u = <<c>>
    BY <1>2 DEF u, Unit
  <2>2. u \in Seq(0..255) /\ Len(u) = 1 /\ u[1] = c
    BY <2>1, Singles
  <2> QED
    BY <1>2, <2>2
<1> QED
  BY <1>1, <1>2

\* A pass of uriaa_escape: the positions stay in their strings.
LEMMA EscapeShape ==
  ASSUME Shape, Escape
  PROVE  Shape'
<1> DEFINE c == text[read_pos + 1]
           u == Unit(c)
<1>1. /\ pc = "loop" /\ op = "escape" /\ read_pos < Len(text)
      /\ UNCHANGED <<op, flag, text, size>>
  BY DEF Escape, Shape
<1>2. Char(read_pos) = c /\ c \in 0..255
  BY <1>1, TextType, CharAt
<1>3. out' = Put(out, u)
  BY <1>2 DEF Escape, Unit
<1>4. u \in Seq(0..255)
  BY <1>2, EscapeUnit
<1> HIDE DEF u, c
<1>5. /\ out' \in Seq(0..255) /\ Len(out') < size
  BY <1>3, <1>4, TextType, PutAppends
<1>6. /\ read_pos' = read_pos + 1
      /\ pc' = IF read_pos + 1 < Len(text) THEN "loop" ELSE "done"
      /\ result' \in {0, 1}
  BY <1>1, TextType DEF Escape, Advance, next_read_pos, has_next
<1>7. TypeOK' /\ (pc' = "loop" => read_pos' < Len(text'))
  BY <1>1, <1>5, <1>6, TextType DEF TypeOK
<1> QED
  BY <1>1, <1>7 DEF Shape

\* A pass of uriaa_escape extends what has been escaped.
LEMMA EscapeExtends ==
  ASSUME Shape, EscapedSoFar, Escape
  PROVE  EscapedSoFar'
<1> DEFINE c == text[read_pos + 1]
           u == Unit(c)
           p == EscapedPlace(read_pos + 1)
<1>1. /\ pc = "loop" /\ op = "escape" /\ read_pos < Len(text)
      /\ UNCHANGED <<op, flag, text, size>>
  BY DEF Escape, Shape
<1>2. Char(read_pos) = c /\ c \in 0..255
  BY <1>1, TextType, CharAt
<1>3. out' = Put(out, u)
  BY <1>2 DEF Escape, Unit
<1>4. /\ read_pos' = read_pos + 1 /\ (pc' = "done" => read_pos' = Len(text'))
  BY <1>1, TextType DEF Escape, Advance, next_read_pos, has_next
<1>5. /\ u \in Seq(0..255) /\ Len(u) = (IF MustEscape(c) THEN 3 ELSE 1)
      /\ MustEscape(c) => /\ u[1] = Percent /\ Hex(u[2]) >= 0 /\ Hex(u[3]) >= 0
                          /\ 16 * Hex(u[2]) + Hex(u[3]) = c
                          /\ ~MustEscape(u[2]) /\ ~MustEscape(u[3])
      /\ ~MustEscape(c) => u[1] = c
  BY <1>2, EscapeUnit
<1> HIDE DEF u
<1>6. /\ out' \in Seq(0..255)
      /\ Len(out') = IF Len(out) + Len(u) < size THEN Len(out) + Len(u) ELSE size - 1
      /\ \A k \in 1..Len(out') : out'[k] = IF k <= Len(out) THEN out[k] ELSE u[k - Len(out)]
  <2>1. /\ out \in Seq(0..255) /\ u \in Seq(0..255)
        /\ size \in Nat /\ size > 0 /\ Len(out) < size
    BY <1>5, TextType
  <2> QED
    BY <1>3, <2>1, PutAppends
<1>7. \A k : (MustEscape(k)' <=> MustEscape(k)) /\ EscapedPlace(k)' = EscapedPlace(k)
  BY <1>1 DEF MustEscape, EscapedPlace
<1> SUFFICES ASSUME Len(out') < size - 1
             PROVE  /\ EscapedPlace(read_pos' + 1) = Len(out') + 1
                    /\ \A k \in 1..read_pos' :
                         IF MustEscape(text[k])
                         THEN IsEscape(out', EscapedPlace(k))
                              /\ EscapeValue(out', EscapedPlace(k)) = text[k]
                         ELSE EscapedPlace(k) <= Len(out') /\ out'[EscapedPlace(k)] = text[k]
                    /\ \A k \in 1..Len(out') : MustEscape(out'[k]) => IsEscape(out', k)
  BY <1>1, <1>4, <1>7 DEF EscapedSoFar
<1>8. /\ Len(out') = Len(out) + Len(u) /\ Len(out) < size - 1
      /\ Len(out) \in Nat /\ Len(u) \in {1, 3} /\ read_pos \in Nat
  BY <1>5, <1>6, TextType
<1>9. /\ p = Len(out) + 1
      /\ \A k \in 1..read_pos :
           IF MustEscape(text[k])
           THEN IsEscape(out, EscapedPlace(k)) /\ EscapeValue(out, EscapedPlace(k)) = text[k]
           ELSE EscapedPlace(k) <= Len(out) /\ out[EscapedPlace(k)] = text[k]
      /\ \A k \in 1..Len(out) : MustEscape(out[k]) => IsEscape(out, k)
  BY <1>1, <1>8 DEF EscapedSoFar
<1>10. /\ \A k \in 1..Len(out) : out'[k] = out[k]
       /\ \A i \in 1..Len(u) : out'[Len(out) + i] = u[i]
  BY <1>6, <1>8
<1>11. ASSUME NEW k \in Nat \ {0}, IsEscape(out, k)
       PROVE  IsEscape(out', k) /\ EscapeValue(out', k) = EscapeValue(out, k)
  BY <1>6, <1>8, <1>10, <1>11, TextType, EscapeKept
<1>12. EscapedPlace(read_pos' + 1) = Len(out') + 1
  <2>1. EscapedPlace((read_pos + 1) + 1) = p + (IF MustEscape(c) THEN 3 ELSE 1)
    <3>1. read_pos + 1 \in Nat \ {0}
      BY <1>8
    <3> QED
      BY <3>1, EscapedPlaces
  <2> QED
    BY <1>4, <1>5, <1>8, <1>9, <2>1
<1>13. MustEscape(c) => IsEscape(out', p) /\ EscapeValue(out', p) = c
  <2> SUFFICES ASSUME MustEscape(c) PROVE IsEscape(out', p) /\ EscapeValue(out', p) = c
    OBVIOUS
  <2>1. Len(u) = 3
    BY <1>5
  <2>2. /\ out'[p] = u[1] /\ out'[p + 1] = u[2] /\ out'[p + 2] = u[3]
        /\ p + 2 <= Len(out')
    <3>1. /\ out'[Len(out) + 1] = u[1] /\ out'[Len(out) + 2] = u[2]
          /\ out'[Len(out) + 3] = u[3]
      BY <1>10, <2>1
    <3>2. p + 1 = Len(out) + 2 /\ p + 2 = Len(out) + 3
      BY <1>8, <1>9
    <3> QED
      BY <1>8, <1>9, <2>1, <3>1, <3>2
  <2> QED
    BY <1>5, <2>2 DEF IsEscape, EscapeValue
<1>14. ~MustEscape(c) => p <= Len(out') /\ out'[p] = c
  BY <1>5, <1>8, <1>9, <1>10
<1>15. ASSUME NEW k \in 1..read_pos'
       PROVE  IF MustEscape(text[k])
              THEN IsEscape(out', EscapedPlace(k)) /\ EscapeValue(out', EscapedPlace(k)) = text[k]
              ELSE EscapedPlace(k) <= Len(out') /\ out'[EscapedPlace(k)] = text[k]
  <2>1. CASE k = read_pos + 1
    BY <1>13, <1>14, <2>1
  <2>2. CASE k # read_pos + 1
    <3>1. k \in 1..read_pos /\ EscapedPlace(k) \in Nat \ {0}
      <4>1. k \in 1..read_pos /\ k \in Nat \ {0}
        BY <1>4, <1>8, <2>2
      <4>2. EscapedPlace(k) \in Nat /\ EscapedPlace(k) >= k
        BY <4>1, EscapedPlaces
      <4> QED
        BY <4>1, <4>2
    <3>2. CASE MustEscape(text[k])
      BY <1>9, <1>11, <3>1, <3>2
    <3>3. CASE ~MustEscape(text[k])
      BY <1>8, <1>9, <1>10, <3>1, <3>3
    <3> QED
      BY <3>2, <3>3
  <2> QED
    BY <2>1, <2>2
<1>16. ASSUME NEW k \in 1..Len(out'), MustEscape(out'[k])
       PROVE  IsEscape(out', k)
  <2>1. CASE k <= Len(out)
    <3>1. k \in 1..Len(out) /\ out'[k] = out[k]
      BY <1>8, <1>10, <2>1
    <3> QED
      BY <1>9, <1>11, <1>16, <3>1
  <2>2. CASE k > Len(out)
    <3>1. PICK i \in 1..Len(u) : k = Len(out) + i
      <4>1. k - Len(out) \in 1..Len(u) /\ k = Len(out) + (k - Len(out))
        BY <1>8, <2>2
      <4> QED
        BY <4>1
    <3>2. MustEscape(u[i])
      BY <1>10, <1>16, <3>1
    <3>3. MustEscape(c) /\ i = 1
      BY <1>5, <1>8, <3>2
    <3> QED
      BY <1>9, <1>13, <3>1, <3>3
  <2> QED
    BY <1>8, <2>1, <2>2
<1> QED
  BY <1>12, <1>15, <1>16
-----------------------------------------------------------------------------
(* uriaa_unescape *)

\* The passes of uriaa_unescape: the positions stay in their strings.
LEMMA UnescapeShape ==
  ASSUME Shape, Copy \/ CutShort \/ Unescape
  PROVE  Shape' /\ op = "unescape" /\ UNCHANGED <<op, flag, text, size>>
<1>1. /\ pc = "loop" /\ op = "unescape" /\ read_pos < Len(text)
      /\ UNCHANGED <<op, flag, text, size>>
      /\ result \in {0, 1} /\ read_pos \in Nat
  BY TextType DEF Copy, CutShort, Unescape, Shape, TypeOK
<1> SUFFICES /\ out' \in Seq(0..255) /\ Len(out') < size
             /\ read_pos' \in 0..Len(text) /\ result' \in {0, 1} /\ pc' \in {"loop", "done"}
             /\ pc' = "loop" => read_pos' < Len(text)
  BY <1>1 DEF Shape, TypeOK
<1>2. \A p \in Nat : p < Len(text) /\ Advance(p) =>
        /\ read_pos' \in 0..Len(text) /\ pc' \in {"loop", "done"}
        /\ pc' = "loop" => read_pos' < Len(text)
  BY TextType DEF Advance, next_read_pos, has_next
<1>3. ASSUME NEW u \in Seq(0..255), out' = Put(out, u)
      PROVE  out' \in Seq(0..255) /\ Len(out') < size
  BY <1>3, TextType, PutAppends
<1>4. CASE Copy
  <2>1. Char(read_pos) \in 0..255
    BY <1>1, CharAt
  <2>2. <<Char(read_pos)>> \in Seq(0..255)
    BY <2>1, Singles
  <2>3. out' = Put(out, <<Char(read_pos)>>) /\ Advance(read_pos) /\ result' \in {0, 1}
    BY <1>1, <1>4 DEF Copy
  <2> QED
    BY <1>1, <1>2, <1>3, <2>2, <2>3
<1>5. CASE CutShort
  BY <1>1, <1>5, TextType DEF CutShort
<1>6. CASE Unescape
  <2> DEFINE high == Char(read_pos + 1)
             low  == Char(read_pos + 2)
             c    == uriaa_unescape_char(high, low)
             u    == IF ~flag THEN <<low>> ELSE IF Unreserved(c) THEN <<c>>
                     ELSE <<Percent, high, low>>
  <2>1. read_pos + 2 < Len(text)
    BY <1>1, <1>6, TextType DEF Unescape, has_next
  <2>2. high \in 0..255 /\ low \in 0..255 /\ Percent \in 0..255
    <3>1. /\ read_pos + 1 \in Nat /\ read_pos + 1 < Len(text)
          /\ read_pos + 2 \in Nat /\ read_pos + 2 < Len(text)
      BY <1>1, <2>1, TextType
    <3>2. high \in 0..255 /\ low \in 0..255
      BY <3>1, CharAt
    <3> QED
      BY <3>2 DEF Percent
  <2>3. c \in -1..255
    BY <2>2, UnescapeDigits
  <2>4. \/ /\ c = -1 /\ result' = 0 /\ pc' = "done"
           /\ read_pos' = read_pos + 2 /\ UNCHANGED out
        \/ /\ c # -1 /\ out' = Put(out, u) /\ Advance(read_pos + 2) /\ result' = 1
    BY <1>6 DEF Unescape
  <2>5. c # -1 => u \in Seq(0..255)
    <3> HIDE DEF high, low, c
    <3>1. <<low>> \in Seq(0..255)
      BY <2>2, Singles
    <3>2. <<Percent, high, low>> \in Seq(0..255)
      BY <2>2, Tuples
    <3>3. c # -1 => c \in 0..255
      BY <2>3
    <3>4. c # -1 => <<c>> \in Seq(0..255)
      BY <3>3, Singles
    <3> QED
      BY <3>1, <3>2, <3>4
  <2> HIDE DEF high, low, c, u
  <2>6. CASE c = -1
    BY <1>1, <2>1, <2>4, <2>6, TextType
  <2>7. CASE c # -1
    <3>1. out' = Put(out, u) /\ Advance(read_pos + 2) /\ result' = 1 /\ u \in Seq(0..255)
      BY <2>4, <2>5, <2>7
    <3>2. read_pos + 2 \in Nat
      BY <1>1
    <3> QED
      BY <1>2, <1>3, <2>1, <3>1, <3>2
  <2> QED
    BY <2>6, <2>7
<1> QED
  BY <1>4, <1>5, <1>6

\* u is what belongs into out for the next n characters of the text.
Renders(u, n) ==
  \A k \in read_pos + 1..read_pos + n : ~UndoneDigit(k) =>
    \E i \in 1..Len(u) :
      /\ UndonePlace(k) = UndonePlace(read_pos + 1) + (i - 1)
      /\ u[i] = IF Undone(k) THEN EscapeValue(text, k) ELSE text[k]

\* The part that has been unescaped grows by the n characters that are read.
LEMMA UnescapeAppends ==
  ASSUME Shape, UnescapedSoFar, op = "unescape", flag, WellFormed(text),
         UNCHANGED <<op, flag, text, size>>,
         NEW u \in Seq(0..255), NEW n \in 1..3, Len(u) >= 1,
         out' = Put(out, u), read_pos' = read_pos + n,
         pc' = "done" => read_pos' = Len(text) /\ result' = 1,
         UndonePlace(read_pos + n + 1) = UndonePlace(read_pos + 1) + Len(u),
         Renders(u, n)
  PROVE  UnescapedSoFar'
<1> DEFINE q == UndonePlace(read_pos + 1)
           Right(k) == IF Undone(k) THEN EscapeValue(text, k) ELSE text[k]
<1>1. /\ q >= 1
      /\ Len(out) + 1 = IF q < size THEN q ELSE size
      /\ \A k \in 1..read_pos : ~UndoneDigit(k) =>
           /\ 1 <= UndonePlace(k) /\ UndonePlace(k) < q
           /\ UndonePlace(k) < size => out[UndonePlace(k)] = Right(k)
  BY DEF UnescapedSoFar
<1>2. /\ q \in Int /\ read_pos \in Nat /\ Len(out) \in Nat /\ size \in Nat
      /\ Len(out) < size /\ Len(u) \in Nat /\ out \in Seq(0..255) /\ size > 0
  <2>1. read_pos \in Nat /\ read_pos + 1 \in Nat \ {0}
    BY TextType
  <2> QED
    BY <2>1, TextType, UndonePlaces
<1>3. /\ Len(out') = IF Len(out) + Len(u) < size THEN Len(out) + Len(u) ELSE size - 1
      /\ \A k \in 1..Len(out') : out'[k] = IF k <= Len(out) THEN out[k] ELSE u[k - Len(out)]
  BY <1>2, PutAppends
<1>4. \A k : /\ UndonePlace(k)' = UndonePlace(k)
             /\ UndoneDigit(k)' <=> UndoneDigit(k)
             /\ Undone(k)' <=> Undone(k)
             /\ EscapeValue(text, k)' = EscapeValue(text, k)
             /\ text'[k] = text[k]
  BY DEF UndonePlace, UndoneDigit, Undone, IsEscape, EscapeValue
<1>5. UndonePlace(read_pos' + 1) = q + Len(u)
  OBVIOUS
<1> HIDE DEF q
<1>6. /\ q + Len(u) >= 1
      /\ Len(out') + 1 = IF q + Len(u) < size THEN q + Len(u) ELSE size
      /\ \A i \in 1..Len(u) : q + (i - 1) < size =>
           /\ q + (i - 1) \in 1..Len(out') /\ ~(q + (i - 1) <= Len(out))
           /\ (q + (i - 1)) - Len(out) = i
      /\ \A p \in Int : 1 <= p /\ p < q /\ p < size => p \in 1..Len(out') /\ p <= Len(out)
  <2> DEFINE o == Len(out)  o2 == Len(out')  w == Len(u)
  <2>1. /\ q \in Int /\ o \in Nat /\ w \in Nat /\ size \in Nat
        /\ q >= 1 /\ w >= 1 /\ o < size
        /\ o + 1 = IF q < size THEN q ELSE size
        /\ o2 = IF o + w < size THEN o + w ELSE size - 1
    BY <1>1, <1>2, <1>3
  <2> HIDE DEF o, o2, w
  <2>2. /\ q + w >= 1 /\ o2 + 1 = IF q + w < size THEN q + w ELSE size
        /\ \A i \in 1..w : q + (i - 1) < size =>
             /\ q + (i - 1) \in 1..o2 /\ ~(q + (i - 1) <= o)
             /\ (q + (i - 1)) - o = i
        /\ \A p \in Int : 1 <= p /\ p < q /\ p < size => p \in 1..o2 /\ p <= o
    <3>1. CASE q < size
      BY <2>1, <3>1
    <3>2. CASE ~(q < size)
      BY <2>1, <3>2
    <3> QED
      BY <3>1, <3>2
  <2> QED
    BY <2>2 DEF o, o2, w
<1>7. ASSUME NEW k \in 1..read_pos', ~UndoneDigit(k)
      PROVE  /\ 1 <= UndonePlace(k) /\ UndonePlace(k) < q + Len(u)
             /\ UndonePlace(k) < size => out'[UndonePlace(k)] = Right(k)
  <2> HIDE DEF Right
  <2>1. k \in Nat \ {0} /\ UndonePlace(k) \in Int
    BY <1>2, UndonePlaces
  <2>2. CASE k \in 1..read_pos
    <3>1. /\ 1 <= UndonePlace(k) /\ UndonePlace(k) < q
          /\ UndonePlace(k) < size => out[UndonePlace(k)] = Right(k)
      BY <1>1, <1>7, <2>2
    <3>2. UndonePlace(k) < size => UndonePlace(k) \in 1..Len(out') /\ UndonePlace(k) <= Len(out)
      BY <1>6, <2>1, <3>1
    <3> QED
      BY <1>2, <1>3, <2>1, <3>1, <3>2
  <2>3. CASE k \in read_pos + 1..read_pos + n
    <3>1. PICK i \in 1..Len(u) : UndonePlace(k) = q + (i - 1) /\ u[i] = Right(k)
      BY <1>7, <2>3 DEF q, Right, Renders
    <3>2. 1 <= UndonePlace(k) /\ UndonePlace(k) < q + Len(u)
      BY <1>1, <1>2, <3>1
    <3>3. UndonePlace(k) < size =>
            /\ UndonePlace(k) \in 1..Len(out') /\ ~(UndonePlace(k) <= Len(out))
            /\ UndonePlace(k) - Len(out) = i
      BY <1>6, <3>1
    <3> QED
      BY <1>3, <3>1, <3>2, <3>3
  <2> QED
    BY <1>2, <2>2, <2>3
<1> QED
  BY <1>4, <1>5, <1>6, <1>7 DEF UnescapedSoFar

\* A pass of uriaa_unescape over a character.
LEMMA CopyExtends ==
  ASSUME Shape, UnescapedSoFar, Copy
  PROVE  UnescapedSoFar'
<1>1. /\ pc = "loop" /\ op = "unescape" /\ read_pos < Len(text) /\ read_pos \in Nat
      /\ UNCHANGED <<op, flag, text, size>>
  BY TextType DEF Copy, Shape
<1> SUFFICES ASSUME flag, WellFormed(text) PROVE UnescapedSoFar'
  BY <1>1 DEF UnescapedSoFar, WellFormed, IsEscape
<1> DEFINE c == text[read_pos + 1]
<1>2. Char(read_pos) = c /\ c \in 0..255 /\ c # Percent
  BY <1>1, CharAt DEF Copy
<1>3. /\ out' = Put(out, <<c>>) /\ read_pos' = read_pos + 1
      /\ pc' = "done" => read_pos' = Len(text) /\ result' = 1
  BY <1>1, <1>2, TextType DEF Copy, Advance, next_read_pos, has_next
<1>4. ~Undone(read_pos + 1)
  BY <1>2 DEF Undone, IsEscape
<1>5. /\ UndonePlace(read_pos + 1) \in Int
      /\ UndonePlace(read_pos + 1 + 1) = UndonePlace(read_pos + 1) + 1
  <2>1. read_pos + 1 \in Nat \ {0}
    BY <1>1
  <2> QED
    BY <1>4, <2>1, UndonePlaces
<1>6. /\ <<c>> \in Seq(0..255) /\ Len(<<c>>) = 1 /\ <<c>>[1] = c
  BY <1>2, Singles
<1> DEFINE u == <<c>>
<1> HIDE DEF u
<1>7. /\ u \in Seq(0..255) /\ Len(u) = 1 /\ u[1] = c /\ out' = Put(out, u)
  BY <1>3, <1>6 DEF u
<1>8. ASSUME NEW k \in read_pos + 1..read_pos + 1, ~UndoneDigit(k)
      PROVE  \E i \in 1..Len(u) :
               /\ UndonePlace(k) = UndonePlace(read_pos + 1) + (i - 1)
               /\ u[i] = IF Undone(k) THEN EscapeValue(text, k) ELSE text[k]
  <2>1. k = read_pos + 1
    BY <1>1
  <2>2. 1 \in 1..Len(u) /\ UndonePlace(k) = UndonePlace(read_pos + 1) + (1 - 1)
    BY <1>5, <1>7, <2>1
  <2>3. u[1] = IF Undone(k) THEN EscapeValue(text, k) ELSE text[k]
    BY <1>4, <1>7, <2>1
  <2> QED
    BY <2>2, <2>3
<1>9. /\ UndonePlace(read_pos + 1 + 1) = UndonePlace(read_pos + 1) + Len(u)
      /\ Len(u) >= 1 /\ 1 \in 1..3 /\ Renders(u, 1)
  BY <1>5, <1>7, <1>8 DEF Renders
<1> QED
  BY <1>1, <1>3, <1>7, <1>9, UnescapeAppends

\* In a well-formed text the two characters after a "%" are digits, none of
\* which begins an escape.
LEMMA DigitsFollow ==
  ASSUME Shape, WellFormed(text), NEW k \in 1..Len(text), text[k] = Percent
  PROVE  /\ k + 2 <= Len(text) /\ IsEscape(text, k)
         /\ Hex(text[k + 1]) >= 0 /\ Hex(text[k + 2]) >= 0
         /\ ~Undone(k + 1) /\ ~Undone(k + 2)
         /\ Undone(k) => UndoneDigit(k + 1) /\ UndoneDigit(k + 2)
<1>1. /\ IsEscape(text, k) /\ k + 2 <= Len(text) /\ k \in Nat /\ k >= 1
      /\ Hex(text[k + 1]) >= 0 /\ Hex(text[k + 2]) >= 0
  BY TextType DEF WellFormed, IsEscape
<1>2. ~(Hex(Percent) >= 0)
  BY DEF Hex, Percent
<1>3. text[k + 1] # Percent /\ text[k + 2] # Percent
  BY <1>1, <1>2
<1>4. ~Undone(k + 1) /\ ~Undone(k + 2)
  BY <1>3 DEF Undone, IsEscape
<1>5. Undone(k) => UndoneDigit(k + 1) /\ UndoneDigit(k + 2)
  <2>1. /\ k \in 1..(k + 1) - 1 /\ k >= (k + 1) - 2
        /\ k \in 1..(k + 2) - 1 /\ k >= (k + 2) - 2
    BY <1>1
  <2> QED
    BY <2>1 DEF UndoneDigit
<1> QED
  BY <1>1, <1>4, <1>5

\* A pass of uriaa_unescape over an escape.
LEMMA UnescapeExtends ==
  ASSUME Shape, UnescapedSoFar, Unescape
  PROVE  UnescapedSoFar'
<1>1. /\ pc = "loop" /\ op = "unescape" /\ read_pos < Len(text) /\ read_pos \in Nat
      /\ Len(text) \in Nat /\ UNCHANGED <<op, flag, text, size>>
  BY TextType DEF Unescape, Shape
<1> SUFFICES ASSUME flag, WellFormed(text) PROVE UnescapedSoFar'
  BY <1>1 DEF UnescapedSoFar, WellFormed, IsEscape
<1> DEFINE b == read_pos + 1
           high == text[b + 1]
           low == text[b + 2]
           c == EscapeValue(text, b)
           u == IF Unreserved(c) THEN <<c>> ELSE <<Percent, high, low>>
<1>2. b \in 1..Len(text) /\ text[b] = Percent
  BY <1>1, CharAt DEF Unescape
<1>3. /\ b + 2 <= Len(text) /\ IsEscape(text, b)
      /\ Hex(high) >= 0 /\ Hex(low) >= 0
      /\ ~Undone(b + 1) /\ ~Undone(b + 2)
      /\ Undone(b) => UndoneDigit(b + 1) /\ UndoneDigit(b + 2)
  BY <1>2, DigitsFollow
<1>4. /\ Char(read_pos + 1) = high /\ Char(read_pos + 2) = low
      /\ high \in 0..255 /\ low \in 0..255 /\ Percent \in 0..255
  <2>1. /\ read_pos + 1 \in Nat /\ read_pos + 1 < Len(text)
        /\ read_pos + 2 \in Nat /\ read_pos + 2 < Len(text)
        /\ (read_pos + 1) + 1 = b + 1 /\ (read_pos + 2) + 1 = b + 2
    BY <1>1, <1>3
  <2>2. /\ Char(read_pos + 1) = text[(read_pos + 1) + 1] /\ text[(read_pos + 1) + 1] \in 0..255
        /\ Char(read_pos + 2) = text[(read_pos + 2) + 1] /\ text[(read_pos + 2) + 1] \in 0..255
    BY <2>1, CharAt
  <2> QED
    BY <2>1, <2>2 DEF Percent
<1>5. /\ uriaa_unescape_char(high, low) = c /\ c \in 0..255
  <2>1. uriaa_unescape_char(high, low) = c /\ c \in -1..255
    <3>1. c = 16 * Hex(high) + Hex(low)
      BY DEF EscapeValue
    <3> HIDE DEF high, low, c
    <3>2. /\ uriaa_unescape_char(high, low) = 16 * Hex(high) + Hex(low)
          /\ uriaa_unescape_char(high, low) \in -1..255
      BY <1>3, <1>4, UnescapeDigits
    <3> QED
      BY <3>1, <3>2
  <2>2. c >= 0
    <3>1. \A d \in 0..255 : Hex(d) \in Int
      BY DEF Hex
    <3>2. Hex(high) \in Int /\ Hex(low) \in Int /\ c = 16 * Hex(high) + Hex(low)
      BY <1>4, <3>1 DEF EscapeValue
    <3> QED
      BY <1>3, <3>2
  <2> QED
    BY <2>1, <2>2
<1> HIDE DEF c
<1>6. /\ out' = Put(out, u) /\ read_pos' = read_pos + 3
      /\ pc' = "done" => read_pos' = Len(text) /\ result' = 1
  <2>1. out' = Put(out, u) /\ Advance(read_pos + 2) /\ result' = 1
    <3> DEFINE h == Char(read_pos + 1)
               l == Char(read_pos + 2)
               v == uriaa_unescape_char(h, l)
    <3> HIDE DEF h, l, v, b, high, low, u
    <3>1. h = high /\ l = low
      BY <1>4 DEF h, l
    <3>2. v = c /\ v # -1
      BY <1>5, <3>1 DEF v
    <3>3. /\ out' = Put(out, IF ~flag THEN <<l>> ELSE IF Unreserved(v) THEN <<v>>
                            ELSE <<Percent, h, l>>)
          /\ Advance(read_pos + 2) /\ result' = 1
      BY <3>2, Zenon DEF Unescape, h, l, v
    <3> QED
      BY <3>1, <3>2, <3>3 DEF u
  <2> QED
    BY <1>1, <1>3, <2>1 DEF Advance, next_read_pos, has_next
<1>7. Undone(b) <=> Unreserved(c)
  BY <1>3 DEF Undone, c
<1>8. /\ UndonePlace(b) \in Int
      /\ UndonePlace(b + 2) = UndonePlace(b + 1) + 1
      /\ UndonePlace(b + 3) = UndonePlace(b + 2) + 1
      /\ Undone(b) => UndonePlace(b + 1) = UndonePlace(b) - 1
      /\ ~Undone(b) => UndonePlace(b + 1) = UndonePlace(b) + 1
  <2>1. /\ b \in Nat \ {0} /\ b + 1 \in Nat \ {0} /\ b + 2 \in Nat \ {0}
        /\ (b + 1) + 1 = b + 2 /\ (b + 2) + 1 = b + 3
    BY <1>1
  <2> HIDE DEF b
  <2> QED
    BY <1>3, <2>1, UndonePlaces
<1>9. /\ read_pos + 3 + 1 = b + 3 /\ 3 \in 1..3
      /\ \A k \in read_pos + 1..read_pos + 3 : k = b \/ k = b + 1 \/ k = b + 2
  BY <1>1
<1>10. CASE Undone(b)
  <2>1. u \in Seq(0..255) /\ Len(u) = 1 /\ u[1] = c
    <3>1. <<c>> \in Seq(0..255) /\ Len(<<c>>) = 1 /\ <<c>>[1] = c
      BY <1>5, Singles
    <3> QED
      BY <1>7, <1>10, <3>1
  <2> HIDE DEF u, b
  <2>2. UndonePlace(b + 3) = UndonePlace(b) + Len(u) /\ Len(u) >= 1
    BY <1>8, <1>10, <2>1
  <2>3. ASSUME NEW k \in read_pos + 1..read_pos + 3, ~UndoneDigit(k)
        PROVE  \E i \in 1..Len(u) :
                 /\ UndonePlace(k) = UndonePlace(b) + (i - 1)
                 /\ u[i] = IF Undone(k) THEN EscapeValue(text, k) ELSE text[k]
    <3>1. k = b
      BY <1>3, <1>9, <1>10, <2>3
    <3>2. 1 \in 1..Len(u) /\ UndonePlace(k) = UndonePlace(b) + (1 - 1)
      BY <1>8, <2>1, <3>1
    <3>3. u[1] = IF Undone(k) THEN EscapeValue(text, k) ELSE text[k]
      BY <1>10, <2>1, <3>1 DEF c
    <3> QED
      BY <3>2, <3>3
  <2>4. Renders(u, 3)
    BY <2>3 DEF Renders, b
  <2> QED
    BY <1>1, <1>6, <1>9, <2>1, <2>2, <2>4, UnescapeAppends DEF b
<1>11. CASE ~Undone(b)
  <2>1. /\ u \in Seq(0..255) /\ Len(u) = 3
        /\ u[1] = Percent /\ u[2] = high /\ u[3] = low
    <3> DEFINE v == <<Percent, high, low>>
    <3>2. u = v
      BY <1>7, <1>11
    <3> HIDE DEF high, low
    <3>0. Percent \in 0..255 /\ high \in 0..255 /\ low \in 0..255
      BY <1>4
    <3>1. /\ v \in Seq(0..255) /\ Len(v) = 3 /\ v[1] = Percent /\ v[2] = high /\ v[3] = low
      BY <3>0
    <3> HIDE DEF u, v
    <3> QED
      BY <3>1, <3>2
  <2> HIDE DEF u, b
  <2>2. UndonePlace(b + 3) = UndonePlace(b) + Len(u) /\ Len(u) >= 1
    BY <1>8, <1>11, <2>1
  <2>3. ASSUME NEW k \in read_pos + 1..read_pos + 3, ~UndoneDigit(k)
        PROVE  \E i \in 1..Len(u) :
                 /\ UndonePlace(k) = UndonePlace(b) + (i - 1)
                 /\ u[i] = IF Undone(k) THEN EscapeValue(text, k) ELSE text[k]
    <3>1. ~Undone(k)
      BY <1>3, <1>9, <1>11
    <3>2. \E i \in 1..Len(u) : UndonePlace(k) = UndonePlace(b) + (i - 1) /\ u[i] = text[k]
      <4>0. 1 \in 1..Len(u) /\ 2 \in 1..Len(u) /\ 3 \in 1..Len(u)
        BY <2>1
      <4>1. CASE k = b
        <5>1. UndonePlace(k) = UndonePlace(b) + (1 - 1) /\ u[1] = text[k]
          BY <1>2, <1>8, <2>1, <4>1
        <5> QED
          BY <4>0, <5>1
      <4>2. CASE k = b + 1
        <5>1. UndonePlace(k) = UndonePlace(b) + (2 - 1) /\ u[2] = text[k]
          BY <1>8, <1>11, <2>1, <4>2
        <5> QED
          BY <4>0, <5>1
      <4>3. CASE k = b + 2
        <5>1. UndonePlace(k) = UndonePlace(b) + (3 - 1) /\ u[3] = text[k]
          BY <1>8, <1>11, <2>1, <4>3
        <5> QED
          BY <4>0, <5>1
      <4> QED
        BY <1>9, <4>1, <4>2, <4>3
    <3> QED
      BY <3>1, <3>2
  <2>4. Renders(u, 3)
    BY <2>3 DEF Renders, b
  <2> QED
    BY <1>1, <1>6, <1>9, <2>1, <2>2, <2>4, UnescapeAppends DEF b
<1> QED
  BY <1>10, <1>11

\* A well-formed text does not end inside an escape.
LEMMA NoCutShort ==
  ASSUME Shape, WellFormed(text), CutShort
  PROVE  FALSE
<1>1. /\ read_pos < Len(text) /\ read_pos \in Nat /\ Len(text) \in Nat
  BY TextType DEF CutShort, Shape
<1>2. read_pos + 1 \in 1..Len(text) /\ text[read_pos + 1] = Percent
  BY <1>1, CharAt DEF CutShort
<1>3. (read_pos + 1) + 2 <= Len(text)
  BY <1>2, DigitsFollow
<1> QED
  BY <1>1, <1>3 DEF CutShort, has_next
-----------------------------------------------------------------------------
(* The theorems *)

\* The inductive invariant of both functions.
UriEscapeInv == Shape /\ EscapedSoFar /\ UnescapedSoFar

\* A call that has read nothing has written nothing.
LEMMA InitUriEscapeInv == Init => UriEscapeInv
<1> SUFFICES ASSUME Init PROVE UriEscapeInv
  OBVIOUS
<1>1. /\ text \in Texts /\ op \in {"escape", "unescape"} /\ flag \in BOOLEAN
      /\ size = IF op = "escape" THEN 3 * Len(text) ELSE Len(text)
      /\ read_pos = 0 /\ out = << >> /\ result = 0 /\ pc = "loop"
  BY DEF Init
<1>2. text \in Seq(0..255) /\ text # << >>
  BY <1>1, TextsAssumption
<1>3. Len(text) \in Nat /\ Len(text) > 0
  BY <1>2
<1>4. out \in Seq(0..255) /\ Len(out) = 0
  BY <1>1
<1>5. Shape
  BY <1>1, <1>3, <1>4 DEF Shape, TypeOK
<1>6. EscapedPlace(read_pos + 1) = 1 /\ UndonePlace(read_pos + 1) = 1
  BY <1>1, EscapedPlaces, UndonePlaces
<1>7. EscapedSoFar
  BY <1>1, <1>4, <1>6 DEF EscapedSoFar
<1>8. UnescapedSoFar
  <2>1. size >= 1 /\ size \in Nat
    BY <1>1, <1>3
  <2> QED
    BY <1>1, <1>4, <1>6, <2>1 DEF UnescapedSoFar
<1> QED
  BY <1>5, <1>7, <1>8 DEF UriEscapeInv

\* Every pass of either loop keeps the invariant.
LEMMA NextUriEscapeInv == UriEscapeInv /\ [Next]_vars => UriEscapeInv'
<1> SUFFICES ASSUME UriEscapeInv, [Next]_vars PROVE UriEscapeInv'
  OBVIOUS
<1>0. Shape /\ EscapedSoFar /\ UnescapedSoFar
  BY DEF UriEscapeInv
<1>1. CASE UNCHANGED vars
  <2>1. Shape'
    BY <1>0, <1>1 DEF vars, Shape, TypeOK
  <2>2. EscapedSoFar'
    <3>1. \A k : EscapedPlace(k)' = EscapedPlace(k) /\ (MustEscape(k)' <=> MustEscape(k))
      BY <1>1 DEF vars, EscapedPlace, MustEscape
    <3> QED
      BY <1>0, <1>1, <3>1 DEF vars, EscapedSoFar
  <2>3. UnescapedSoFar'
    <3>1. \A k : /\ UndonePlace(k)' = UndonePlace(k)
                 /\ UndoneDigit(k)' <=> UndoneDigit(k)
                 /\ Undone(k)' <=> Undone(k)
      BY <1>1 DEF vars, UndonePlace, UndoneDigit, Undone
    <3> QED
      BY <1>0, <1>1, <3>1 DEF vars, UnescapedSoFar
  <2> QED
    BY <2>1, <2>2, <2>3 DEF UriEscapeInv
<1>2. CASE Escape
  <2>1. Shape' /\ EscapedSoFar'
    BY <1>0, <1>2, EscapeShape, EscapeExtends
  <2>2. UnescapedSoFar'
    BY <1>2 DEF Escape, UnescapedSoFar
  <2> QED
    BY <2>1, <2>2 DEF UriEscapeInv
<1>3. CASE Copy \/ CutShort \/ Unescape
  <2>1. Shape' /\ op = "unescape" /\ UNCHANGED <<op, flag, text, size>>
    BY <1>0, <1>3, UnescapeShape
  <2>2. EscapedSoFar'
    BY <2>1 DEF EscapedSoFar
  <2>3. UnescapedSoFar'
    <3>1. CASE Copy
      BY <1>0, <3>1, CopyExtends
    <3>2. CASE CutShort
      <4>1. ~WellFormed(text)
        BY <1>0, <3>2, NoCutShort
      <4>2. ~WellFormed(text)'
        BY <2>1, <4>1 DEF WellFormed, IsEscape
      <4> QED
        BY <4>2 DEF UnescapedSoFar
    <3>3. CASE Unescape
      BY <1>0, <3>3, UnescapeExtends
    <3> QED
      BY <1>3, <3>1, <3>2, <3>3
  <2> QED
    BY <2>1, <2>2, <2>3 DEF UriEscapeInv
<1> QED
  BY <1>1, <1>2, <1>3 DEF Next

\* uriaa_escape and uriaa_unescape never write outside the buffer they have
\* allocated, nor into the place of its terminating character.
THEOREM EscapeTypeCorrect == Spec => []TypeOK
<1>1. UriEscapeInv => TypeOK
  BY DEF UriEscapeInv, Shape
<1> QED
  BY <1>1, InitUriEscapeInv, NextUriEscapeInv, PTL DEF Spec

\* For any text: what uriaa_escape has written, if it fits, holds no character
\* that must be escaped and stands for the text, character by character.
THEOREM EscapeIsCorrect == Spec => []EscapeDecodes
<1>1. UriEscapeInv => EscapeDecodes
  BY DEF UriEscapeInv, EscapedSoFar, EscapeDecodes
<1> QED
  BY <1>1, InitUriEscapeInv, NextUriEscapeInv, PTL DEF Spec

\* For any text whose "%" all begin escapes: uriaa_unescape with the flag
\* undoes the escapes of unreserved characters and changes nothing else.
THEOREM UnescapeIsCorrect == Spec => []UnescapesUnreserved
<1>1. UriEscapeInv => UnescapesUnreserved
  BY DEF UriEscapeInv, UnescapedSoFar, UnescapesUnreserved
<1> QED
  BY <1>1, InitUriEscapeInv, NextUriEscapeInv, PTL DEF Spec
=============================================================================
