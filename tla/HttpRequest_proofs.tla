------------------------- MODULE HttpRequest_proofs -------------------------
(* What the request parser has read and stored, however the text arrives.   *)
EXTENDS HttpRequest, SequenceTheorems, TLAPS

\* The target begins behind the first space.
TargetAt == 1 + (CHOOSE p \in Spaces : \A k \in Spaces : p <= k)

Shape ==
  /\ request \in Seq(STRING) /\ received \in 0..Len(request) /\ read_pos \in 0..received
  /\ pc \in {"idle", "check", "line", "uri", "headers", "done"}
  /\ http = [method |-> http.method, target |-> http.target, fields |-> http.fields,
             major |-> http.major, minor |-> http.minor, header |-> http.header]
  /\ http.target \in [at : Nat, len : Nat]
  /\ http.header \in [Slots -> [at : Nat, len : Nat]]

\* Components of a target that is between two positions of the request.
FieldsIn(f, from, to) ==
  /\ f \in [Uri!Fields -> [at : Nat, len : Nat, init : BOOLEAN]]
  /\ \A x \in Uri!Fields : from + f[x].at + f[x].len <= to

\* The lines of header i before the empty line, be there one or not.
HeadLines(i) ==
  {p \in LineStarts \ {0} : /\ \A q \in BlankLines : p < q
                            /\ Holds(p, Append(AllNames[i], ":"))}

\* What attempts leave in the struct is of the target, or of lines that are there.
LeftBehind ==
  /\ \/ http.target = NoHeader /\ http.fields = Uri!NoFields
     \/ /\ Spaces # {} /\ http.target.at = TargetAt /\ TargetAt <= received
        /\ http.fields = Uri!NoFields \/ FieldsIn(http.fields, TargetAt, received)
  /\ \A i \in Slots : /\ http.header[i].at + http.header[i].len <= received
                      /\ http.header[i] = NoHeader \/ HeadLines(i) # {}

\* The target is about to be parsed: no line has ended before it.
AtTarget ==
  /\ Spaces # {} /\ read_pos = TargetAt
  /\ http.target = [at |-> TargetAt, len |-> received - TargetAt]
  /\ uri = SubSeq(request, TargetAt + 1, received)
  /\ \A k \in 0..TargetAt - 1 : request[k + 1] \notin {"CR", "LF"}

\* The target is between two spaces and has no other, but behind escapes.
RightTarget ==
  /\ http.target.at - 1 \in Spaces /\ http.target.at + http.target.len \in Spaces
  /\ \A p \in Spaces \cap (http.target.at..http.target.at + http.target.len - 1) :
       BehindEscape(http.target.at, p)

\* The value of header i is that of its last line before position to.
Stored(i, to) ==
  LET lines == {p \in HeadLines(i) : p < to}
  IN lines # {} =>
       \E p \in lines :
         /\ \A k \in lines : k <= p
         /\ http.header[i] = [at |-> p + Len(AllNames[i]),
                              len |-> LineEnd(p) - (p + Len(AllNames[i]))]

\* A line begins here, and those before it have been dealt with.
AtLine ==
  /\ RightTarget
  /\ read_pos \in LineStarts \ {0} /\ \A q \in BlankLines : read_pos <= q
  /\ \A i \in Slots : Stored(i, read_pos)

HttpInv ==
  /\ Shape /\ LeftBehind
  /\ pc \in {"idle", "check", "line"} => read_pos = 0
  /\ pc = "uri" => AtTarget
  /\ pc = "headers" => AtLine
  /\ RightRequest

-----------------------------------------------------------------------------
\* Characters and line ends that have arrived.
LEMMA Positions ==
  ASSUME Shape
  PROVE  /\ Len(request) \in Nat /\ received \in Nat /\ received <= Len(request)
         /\ \A p \in 0..received - 1 : Char(p) = request[p + 1]
         /\ Char(received) = "nul"
         /\ \A p \in 0..received - 1 : Next1(p) = p + 1
<1>1. Len(request) \in Nat /\ received \in Nat /\ received <= Len(request)
  BY LenProperties DEF Shape
<1>2. \A p \in 0..received - 1 : p < received /\ Next1(p) = p + 1
  BY <1>1 DEF Next1, next_read_pos
<1>3. ~(received < received)
  BY <1>1
<1> QED
  BY <1>1, <1>2, <1>3 DEF Char

\* A character that is not the end of what is to be read has arrived.
LEMMA HasArrived ==
  ASSUME Shape, NEW p \in Nat, Char(p) # "nul"
  PROVE  p \in 0..received - 1 /\ Char(p) = request[p + 1]
<1>1. p < received
  BY DEF Char
<1>2. p \in 0..received - 1
  BY <1>1, Positions
<1> QED
  BY <1>2, Positions

LEMMA CrlfArrived ==
  ASSUME Shape, NEW p \in Nat
  PROVE  LineEndAt(p) <=> p + 1 < received /\ IsCrlf(p)
<1>1. CASE p + 1 < received
  <2>1. p \in 0..received - 1 /\ p + 1 \in 0..received - 1 /\ p + 1 < Len(request)
    BY <1>1, Positions
  <2>2. (p + 1) + 1 = p + 2
    OBVIOUS
  <2>3. Char(p) = request[p + 1] /\ Char(p + 1) = request[p + 2]
    BY <2>1, <2>2, Positions
  <2> QED
    BY <1>1, <2>1, <2>3 DEF LineEndAt, IsCrlf
<1>2. CASE ~(p + 1 < received)
  <2>1. Char(p + 1) = "nul"
    BY <1>2 DEF Char
  <2> QED
    BY <1>2, <2>1 DEF LineEndAt
<1> QED
  BY <1>1, <1>2

\* http11_crlf steps over a line end that has arrived.
LEMMA CrlfStep ==
  ASSUME Shape, NEW p \in 0..received
  PROVE  IF p + 1 < received /\ IsCrlf(p)
         THEN http11_crlf(p) = p + 2 /\ p + 2 \in 0..received /\ http11_crlf(p) # No
         ELSE http11_crlf(p) = No
<1>0. p \in Nat /\ received \in Nat
  BY Positions
<1>1. CASE p + 1 < received
  <2>1. p \in 0..received - 1 /\ p + 1 \in 0..received - 1
    BY <1>0, <1>1
  <2>2. Next1(p) = p + 1 /\ Next1(p + 1) = p + 2 /\ p + 2 \in 0..received /\ p + 2 # No
    <3>1. (p + 1) + 1 = p + 2 /\ p + 2 \in 0..received /\ p + 2 # No
      BY <1>0, <1>1 DEF No
    <3> QED
      BY <2>1, <3>1, Positions
  <2>3. http11_crlf(p) = IF LineEndAt(p) THEN p + 2 ELSE No
    BY <2>2 DEF http11_crlf, LineEndAt
  <2> QED
    BY <1>0, <1>1, <2>2, <2>3, CrlfArrived
<1>2. CASE ~(p + 1 < received)
  <2>1. Next1(p) = received
    BY <1>2 DEF Next1, next_read_pos
  <2>2. http11_crlf(p) = No
    BY <2>1, Positions DEF http11_crlf
  <2> QED
    BY <1>2, <2>2
<1> QED
  BY <1>1, <1>2

\* The line end that the text has at q or later is the first one.
LEMMA LineEndIs ==
  ASSUME NEW p \in Nat, NEW q \in p..Len(request), Len(request) \in Nat,
         IsCrlf(q), \A k \in p..q - 1 : ~IsCrlf(k)
  PROVE  LineEnd(p) = q
<1> DEFINE First(x) == IsCrlf(x) /\ \A k \in p..x - 1 : ~IsCrlf(k)
<1>1. First(q)
  OBVIOUS
<1>2. ASSUME NEW x \in p..Len(request), First(x) PROVE x = q
  <2>1. ~(q < x) /\ ~(x < q)
    <3>1. q < x => q \in p..x - 1
      OBVIOUS
    <3>2. x < q => x \in p..q - 1
      OBVIOUS
    <3> QED
      BY <1>2, <3>1, <3>2
  <2> QED
    BY <2>1
<1>3. LineEnd(p) = CHOOSE x \in p..Len(request) : First(x)
  BY DEF LineEnd
<1> HIDE DEF First
<1> QED
  BY <1>1, <1>2, <1>3

\* http11_find_crlf finds it if it has arrived.
LEMMA FindCrlf ==
  ASSUME Shape, NEW p \in 0..received
  PROVE  LET end == http11_find_crlf(p)
         IN \/ end = No /\ \A q \in p..received : q + 1 < received => ~IsCrlf(q)
            \/ /\ end # No /\ end \in p..received /\ end + 1 < received
               /\ IsCrlf(end) /\ (\A k \in p..end - 1 : ~IsCrlf(k))
               /\ LineEnd(p) = end
               /\ http11_crlf(end) = end + 2 /\ end + 2 \in 0..received
<1>0. Len(request) \in Nat /\ received \in Nat /\ received <= Len(request) /\ p \in Nat
  BY Positions
<1>1. \A q \in p..received : LineEndAt(q) <=> q + 1 < received /\ IsCrlf(q)
  BY <1>0, CrlfArrived
<1> DEFINE ends == {q \in p..received : LineEndAt(q)}
           First(q) == LineEndAt(q) /\ \A k \in p..q - 1 : ~LineEndAt(k)
           end == http11_find_crlf(p)
<1>2. end = IF ends # {} THEN CHOOSE q \in p..received : First(q) ELSE No
  BY DEF http11_find_crlf
<1>3. CASE ends = {}
  BY <1>1, <1>2, <1>3
<1>4. CASE ends # {}
  <2>1. ends \subseteq Nat
    BY <1>0
  <2> HIDE DEF ends
  <2>2. PICK q \in ends : \A k \in ends : q <= k
    BY <1>4, <2>1, Uri!LeastElement
  <2>3. q \in p..received /\ First(q)
    <3>1. q \in p..received /\ LineEndAt(q)
      BY <2>2 DEF ends
    <3>2. ASSUME NEW k \in p..q - 1, LineEndAt(k) PROVE FALSE
      <4>1. k \in p..received /\ k < q
        BY <1>0, <3>1
      <4>2. k \in ends
        BY <3>2, <4>1 DEF ends
      <4> QED
        BY <1>0, <2>2, <3>1, <4>1, <4>2
    <3> QED
      BY <3>1, <3>2
  <2> HIDE DEF First
  <2>4. end \in p..received /\ First(end)
    BY <1>2, <1>4, <2>3
  <2> HIDE DEF end
  <2>5. end + 1 < received /\ IsCrlf(end) /\ end \in Nat /\ end # No
    BY <1>0, <1>1, <2>4 DEF First, No
  <2>6. ASSUME NEW k \in p..end - 1 PROVE ~IsCrlf(k)
    <3>1. k \in p..received /\ k + 1 < received
      BY <1>0, <2>4, <2>5
    <3> QED
      BY <1>1, <2>4, <3>1 DEF First
  <2>7. end \in p..Len(request)
    BY <1>0, <2>4
  <2>8. LineEnd(p) = end
    BY <1>0, <2>5, <2>6, <2>7, LineEndIs
  <2>9. end \in 0..received
    BY <1>0, <2>4
  <2>10. http11_crlf(end) = end + 2 /\ end + 2 \in 0..received
    BY <2>5, <2>9, CrlfStep
  <2> QED
    BY <2>4, <2>5, <2>6, <2>8, <2>10 DEF end
<1> QED
  BY <1>3, <1>4

-----------------------------------------------------------------------------
\* Words: what has been matched stands there.
LEMMA MatchedIs ==
  ASSUME Shape, NEW p \in 0..received, NEW word, Len(word) \in Nat,
         \A i \in 1..Len(word) : word[i] # "nul"
  PROVE  /\ Matched(p, word) \in 0..Len(word) /\ p + Matched(p, word) \in p..received
         /\ \A i \in 1..Matched(p, word) : Char(p + i - 1) = word[i]
         /\ Matched(p, word) < Len(word) =>
              Char(p + Matched(p, word)) # word[Matched(p, word) + 1]
<1>0. p \in Nat /\ received \in Nat
  BY Positions
<1> DEFINE ends == {k \in 0..Len(word) : k < Len(word) => Char(p + k) # word[k + 1]}
           Is(k) == /\ \A i \in 1..k : Char(p + i - 1) = word[i]
                    /\ k < Len(word) => Char(p + k) # word[k + 1]
           m == Matched(p, word)
<1>1. ends \subseteq Nat /\ Len(word) \in ends
  OBVIOUS
<1>2. PICK k \in ends : \A j \in ends : k <= j
  <2> HIDE DEF ends
  <2> QED
    BY <1>1, Uri!LeastElement
<1>3. k \in 0..Len(word) /\ Is(k)
  <2>1. ASSUME NEW i \in 1..k PROVE Char(p + i - 1) = word[i]
    <3>1. i - 1 \in 0..Len(word) /\ i - 1 < k /\ i - 1 < Len(word)
          /\ i - 1 + 1 = i /\ p + (i - 1) = p + i - 1
      BY <1>0, <1>2
    <3>2. i - 1 \notin ends
      BY <1>2, <3>1
    <3> QED
      BY <3>1, <3>2
  <2> QED
    BY <1>2, <2>1
<1>4. m \in 0..Len(word) /\ Is(m)
  <2>1. m = CHOOSE x \in 0..Len(word) : Is(x)
    BY DEF Matched
  <2> HIDE DEF Is, m
  <2> QED
    BY <1>3, <2>1
<1> HIDE DEF m
<1>5. p + m \in p..received
  <2>1. CASE m = 0
    BY <1>0, <2>1
  <2>2. CASE m # 0
    <3>1. m \in 1..m /\ m \in 1..Len(word) /\ p + m - 1 \in Nat
      BY <1>0, <1>4, <2>2
    <3>2. Char(p + m - 1) # "nul"
      BY <1>4, <3>1
    <3>3. p + m - 1 \in 0..received - 1
      BY <3>1, <3>2, HasArrived
    <3> QED
      BY <1>0, <1>4, <3>3
  <2> QED
    BY <2>1, <2>2
<1> QED
  BY <1>4, <1>5 DEF m

\* A whole word stands at p when and only when it has been matched.
LEMMA WholeWord ==
  ASSUME Shape, NEW p \in 0..received, NEW word, Len(word) \in Nat,
         \A i \in 1..Len(word) : word[i] # "nul"
  PROVE  Matched(p, word) = Len(word) <=>
           /\ p + Len(word) <= Len(request) /\ p + Len(word) <= received
           /\ \A i \in 1..Len(word) : request[p + i] = word[i]
<1>0. p \in Nat /\ received \in Nat /\ Len(request) \in Nat /\ received <= Len(request)
  BY Positions
<1> DEFINE m == Matched(p, word)
<1>1. /\ m \in 0..Len(word) /\ p + m \in p..received
      /\ \A i \in 1..m : Char(p + i - 1) = word[i]
      /\ m < Len(word) => Char(p + m) # word[m + 1]
  BY MatchedIs
<1> HIDE DEF m
<1>2. ASSUME NEW i \in 1..Len(word), p + Len(word) <= received
      PROVE  Char(p + i - 1) = request[p + i]
  <2>1. p + i - 1 \in 0..received - 1 /\ (p + i - 1) + 1 = p + i
    BY <1>0, <1>2
  <2> QED
    BY <2>1, Positions
<1>3. CASE m = Len(word)
  <2>1. p + Len(word) <= Len(request) /\ p + Len(word) <= received
    BY <1>0, <1>1, <1>3
  <2> QED
    BY <1>1, <1>2, <1>3, <2>1 DEF m
<1>4. CASE m # Len(word)
  <2>1. m < Len(word) /\ m + 1 \in 1..Len(word) /\ p + (m + 1) - 1 = p + m
    BY <1>0, <1>1, <1>4
  <2>2. Char(p + m) # word[m + 1]
    BY <1>1, <2>1
  <2>3. p + Len(word) <= received => Char(p + m) = request[p + (m + 1)]
    BY <1>2, <2>1
  <2> QED
    BY <1>4, <2>1, <2>2, <2>3 DEF m
<1> QED
  BY <1>3, <1>4

\* The same of a text that is compared as a whole.
LEMMA HoldsIs ==
  ASSUME NEW S, request \in Seq(S), NEW p \in Nat, NEW word \in Seq(S)
  PROVE  Holds(p, word) <=> /\ p + Len(word) <= Len(request)
                            /\ \A i \in 1..Len(word) : request[p + i] = word[i]
<1>1. Len(word) \in Nat /\ Len(request) \in Nat
  BY LenProperties
<1>2. ASSUME p + Len(word) <= Len(request)
      PROVE  SubSeq(request, p + 1, p + Len(word)) = word <=>
               \A i \in 1..Len(word) : request[p + i] = word[i]
  <2> DEFINE part == SubSeq(request, p + 1, p + Len(word))
  <2>1. \A i \in p + 1..p + Len(word) : request[i] \in S
    BY <1>1, <1>2, ElementOfSeq
  <2>2. /\ p + 1 \in Int /\ p + Len(word) \in Int
        /\ (IF p + 1 <= p + Len(word) THEN p + Len(word) - (p + 1) + 1 ELSE 0) = Len(word)
    BY <1>1
  <2>3. /\ part \in Seq(S) /\ Len(part) = Len(word)
        /\ \A i \in 1..p + Len(word) - (p + 1) + 1 : part[i] = request[p + 1 + i - 1]
    BY <2>1, <2>2, SubSeqProperties
  <2>4. ASSUME NEW i \in 1..Len(word) PROVE part[i] = request[p + i]
    <3>1. i \in 1..p + Len(word) - (p + 1) + 1 /\ p + 1 + i - 1 = p + i
      BY <1>1
    <3> QED
      BY <2>3, <3>1
  <2> HIDE DEF part
  <2>5. (\A i \in 1..Len(word) : part[i] = word[i]) => part = word
    BY <2>3, SeqEqual
  <2> QED
    BY <2>4, <2>5 DEF part
<1> QED
  BY <1>2 DEF Holds

-----------------------------------------------------------------------------
\* The first line: method, target, version.
LEMMA MethodWords ==
  /\ Len(http11_method_array) = 8
  /\ \A i \in 1..8 :
       /\ Len(http11_method_array[i]) \in Nat
       /\ \A k \in 1..Len(http11_method_array[i]) :
            http11_method_array[i][k] \notin {"SP", "CR", "LF", "nul"}
<1>1. /\ Len(http11_method_array) = 8
      /\ http11_method_array[1] = <<"o", "p", "t", "i", "o", "n", "s">>
      /\ http11_method_array[2] = <<"g", "e", "t">>
      /\ http11_method_array[3] = <<"h", "e", "a", "d">>
      /\ http11_method_array[4] = <<"p", "o", "s", "t">>
      /\ http11_method_array[5] = <<"p", "u", "t">>
      /\ http11_method_array[6] = <<"d", "e", "l", "e", "t", "e">>
      /\ http11_method_array[7] = <<"t", "r", "a", "c", "e">>
      /\ http11_method_array[8] = <<"c", "o", "n", "n", "e", "c", "t">>
  BY DEF http11_method_array
<1> DEFINE Letters == {"o", "p", "t", "i", "n", "s", "g", "e", "h", "a", "d", "u", "l", "r", "c"}
<1>2. /\ <<"o", "p", "t", "i", "o", "n", "s">> \in Seq(Letters)
      /\ <<"g", "e", "t">> \in Seq(Letters) /\ <<"h", "e", "a", "d">> \in Seq(Letters)
      /\ <<"p", "o", "s", "t">> \in Seq(Letters) /\ <<"p", "u", "t">> \in Seq(Letters)
      /\ <<"d", "e", "l", "e", "t", "e">> \in Seq(Letters)
      /\ <<"t", "r", "a", "c", "e">> \in Seq(Letters)
      /\ <<"c", "o", "n", "n", "e", "c", "t">> \in Seq(Letters)
  OBVIOUS
<1>3. \A c \in Letters : c \notin {"SP", "CR", "LF", "nul"}
  OBVIOUS
<1> HIDE DEF Letters
<1>4. ASSUME NEW i \in 1..8 PROVE http11_method_array[i] \in Seq(Letters)
  <2>1. i \in {1, 2, 3, 4, 5, 6, 7, 8}
    OBVIOUS
  <2> QED
    BY <1>1, <1>2, <2>1
<1>5. ASSUME NEW i \in 1..8, NEW k \in 1..Len(http11_method_array[i])
      PROVE  http11_method_array[i][k] \in Letters
  BY <1>4, ElementOfSeq
<1> QED
  BY <1>1, <1>3, <1>4, <1>5, LenProperties

\* The method that is found is what the parser has passed over, be it with the
\* beginning of others; nothing in it ends the method or the line.
LEMMA MethodFound ==
  ASSUME Shape, NEW p \in 0..received
  PROVE  LET m == http11_method(p)
         IN m.i # 0 => /\ m.pos \in p..received
                       /\ \A k \in p..m.pos - 1 : Char(k) \notin {"SP", "CR", "LF"}
<1> DEFINE n == 8
           R == [i : 0..n, pos : 0..received]
           V == [0..received -> R]
           Word(i) == http11_method_array[i + 1]
           Fits(i, q) == Matched(q, Word(i)) = Len(Word(i))
           To(i, q) == q + Matched(q, Word(i))
           Body(i, g) == [q \in 0..received |->
              IF i = n THEN [i |-> 0, pos |-> p]
              ELSE IF Fits(i, q) THEN [i |-> i + 1, pos |-> To(i, q)]
              ELSE g[i + 1][To(i, q)]]
           F == [x \in (0..n) \X [0..n -> V] |-> Body(x[1], x[2])]
<1>0. received \in Nat /\ p \in Nat
  BY Positions
<1>1. ASSUME NEW i \in 0..n - 1, NEW q \in 0..received
      PROVE  /\ To(i, q) \in q..received /\ To(i, q) \in 0..received
             /\ \A k \in q..To(i, q) - 1 : Char(k) \notin {"SP", "CR", "LF"}
  <2>1. i + 1 \in 1..8
    OBVIOUS
  <2>2. /\ Len(Word(i)) \in Nat
        /\ \A k \in 1..Len(Word(i)) : Word(i)[k] \notin {"SP", "CR", "LF", "nul"}
    BY <2>1, MethodWords
  <2> HIDE DEF Word
  <2>3. \A k \in 1..Len(Word(i)) : Word(i)[k] # "nul"
    BY <2>2
  <2> DEFINE m == Matched(q, Word(i))
  <2>4. /\ m \in 0..Len(Word(i)) /\ q + m \in q..received
        /\ \A k \in 1..m : Char(q + k - 1) = Word(i)[k]
    BY <2>2, <2>3, MatchedIs
  <2> HIDE DEF m
  <2>5. ASSUME NEW k \in q..q + m - 1 PROVE Char(k) \notin {"SP", "CR", "LF"}
    <3>1. k - q + 1 \in 1..m /\ k - q + 1 \in 1..Len(Word(i)) /\ q + (k - q + 1) - 1 = k
      BY <1>0, <2>2, <2>4
    <3> QED
      BY <2>2, <2>4, <3>1
  <2> QED
    BY <1>0, <2>4, <2>5 DEF m
<1> HIDE DEF Word, Fits, To
<1>2. ASSUME NEW i \in 0..n, NEW g \in [0..n -> V] PROVE Body(i, g) \in V
  <2>1. ASSUME NEW q \in 0..received
        PROVE  (IF i = n THEN [i |-> 0, pos |-> p]
                ELSE IF Fits(i, q) THEN [i |-> i + 1, pos |-> To(i, q)]
                ELSE g[i + 1][To(i, q)]) \in R
    <3>1. CASE i = n
      BY <1>0, <3>1
    <3>2. CASE i # n
      <4>1. i \in 0..n - 1 /\ i + 1 \in 0..n
        BY <3>2
      <4>2. To(i, q) \in 0..received
        BY <1>1, <4>1
      <4>3. g[i + 1] \in V
        BY <4>1
      <4>4. g[i + 1][To(i, q)] \in R
        BY <4>2, <4>3
      <4> HIDE DEF V
      <4> QED
        BY <3>2, <4>1, <4>2, <4>4
    <3> QED
      BY <3>1, <3>2
  <2> QED
    BY <2>1
<1>3. ASSUME NEW i \in 0..n, NEW g \in [0..n -> V], NEW h \in [0..n -> V],
             \A k \in i + 1..n : g[k] = h[k]
      PROVE  Body(i, g) = Body(i, h)
  <2>1. i # n => i + 1 \in i + 1..n
    OBVIOUS
  <2>2. i # n => g[i + 1] = h[i + 1]
    BY <1>3, <2>1
  <2> QED
    BY <2>2
<1> HIDE DEF Body, V
<1>4. F \in [(0..n) \X [0..n -> V] -> V]
  BY <1>2
<1>5. \A i \in 0..n, g \in [0..n -> V] : F[<<i, g>>] = Body(i, g)
  OBVIOUS
<1> HIDE DEF F
<1>6. \A i \in 0..n, g, h \in [0..n -> V] :
        (\A k \in i + 1..n : g[k] = h[k]) => F[<<i, g>>] = F[<<i, h>>]
  <2> SUFFICES ASSUME NEW i \in 0..n, NEW g \in [0..n -> V], NEW h \in [0..n -> V],
                      \A k \in i + 1..n : g[k] = h[k]
               PROVE  F[<<i, g>>] = F[<<i, h>>]
    OBVIOUS
  <2>1. Body(i, g) = Body(i, h)
    BY <1>3
  <2> QED
    BY <1>5, <2>1
<1>7. Uri!FromBeyond(F, n, V)
  BY <1>4, <1>6 DEF Uri!FromBeyond
<1>8. [q \in 0..received |-> [i |-> 0, pos |-> p]] \in V
  BY <1>0 DEF V
<1>9. PICK g \in [0..n -> V] : Uri!Solution(g, F, n)
  <2>1. n \in Nat
    OBVIOUS
  <2> QED
    BY <1>7, <1>8, <2>1, Uri!RecursionFromEnd
<1> DEFINE Solves(t) == t = [i \in 0..n |-> Body(i, t)]
           try == CHOOSE t : Solves(t)
<1>10. Solves(g)
  BY <1>5, <1>9 DEF Uri!Solution
<1> HIDE DEF Solves
<1>11. Solves(try)
  BY <1>10
<1>12. http11_method(p) = try[0][p]
  <2>1. Len(http11_method_array) = 8
    BY MethodWords
  <2> QED
    BY <2>1 DEF http11_method, try, Solves, Body, Word, Fits, To
<1> HIDE DEF try
<1> DEFINE Good(r, q) == r.i # 0 => /\ r.pos \in q..received
                                    /\ \A k \in q..r.pos - 1 : Char(k) \notin {"SP", "CR", "LF"}
           S == {i \in 0..n : \A q \in 0..received : Good(try[i][q], q)}
<1>13. ASSUME NEW i \in 0..n, \A k \in i + 1..n : k \in S PROVE i \in S
  <2>1. ASSUME NEW q \in 0..received PROVE Good(try[i][q], q)
    <3>1. try[i] = Body(i, try)
      BY <1>11 DEF Solves
    <3>2. try[i][q] = IF i = n THEN [i |-> 0, pos |-> p]
                      ELSE IF Fits(i, q) THEN [i |-> i + 1, pos |-> To(i, q)]
                      ELSE try[i + 1][To(i, q)]
      BY <3>1 DEF Body
    <3>3. CASE i = n
      BY <3>2, <3>3
    <3>4. CASE i # n
      <4>1. i \in 0..n - 1 /\ i + 1 \in i + 1..n
        BY <3>4
      <4>2. /\ To(i, q) \in q..received /\ To(i, q) \in 0..received
            /\ \A k \in q..To(i, q) - 1 : Char(k) \notin {"SP", "CR", "LF"}
        BY <1>1, <4>1
      <4>3. CASE Fits(i, q)
        <5>1. try[i][q].pos = To(i, q)
          BY <3>2, <3>4, <4>3
        <5> QED
          BY <4>2, <5>1
      <4>4. CASE ~Fits(i, q)
        <5> DEFINE r == try[i + 1][To(i, q)]
        <5>1. try[i][q] = r /\ Good(r, To(i, q))
          BY <1>13, <3>2, <3>4, <4>1, <4>2, <4>4
        <5> HIDE DEF r
        <5> SUFFICES ASSUME r.i # 0 PROVE Good(r, q)
          BY <5>1
        <5>2. /\ r.pos \in To(i, q)..received
              /\ \A k \in To(i, q)..r.pos - 1 : Char(k) \notin {"SP", "CR", "LF"}
          BY <5>1
        <5>3. r.pos \in q..received
          BY <1>0, <4>2, <5>2
        <5>4. ASSUME NEW k \in q..r.pos - 1 PROVE Char(k) \notin {"SP", "CR", "LF"}
          <6>1. k \in q..To(i, q) - 1 \/ k \in To(i, q)..r.pos - 1
            BY <1>0, <4>2, <5>2
          <6> QED
            BY <4>2, <5>2, <6>1
        <5> QED
          BY <5>3, <5>4
      <4> QED
        BY <4>3, <4>4
    <3> QED
      BY <3>3, <3>4
  <2> QED
    BY <2>1
<1> HIDE DEF S
<1>14. 0 \in S
  <2>1. n \in Nat
    OBVIOUS
  <2> HIDE DEF n
  <2>2. 0..n \subseteq S
    BY <1>13, <2>1, Uri!DownwardInduction
  <2> QED
    BY <2>1, <2>2
<1>15. Good(try[0][p], p)
  BY <1>14 DEF S
<1> QED
  BY <1>12, <1>15

LEMMA DigitsSkipped ==
  ASSUME Shape, NEW p \in 0..received
  PROVE  /\ SkipDigits(p) \in p..received
         /\ \A k \in p..SkipDigits(p) - 1 : Char(k) \in Digits
<1>0. received \in Nat /\ p \in Nat /\ Char(received) = "nul"
  BY Positions
<1> DEFINE ends == {q \in p..received : Char(q) \notin Digits}
           Is(q) == Char(q) \notin Digits /\ \A k \in p..q - 1 : Char(k) \in Digits
<1>1. received \in ends
  <2>1. "nul" \notin Digits
    BY DEF Digits
  <2>2. received \in p..received
    BY <1>0
  <2> QED
    BY <1>0, <2>1, <2>2
<1>2. ends \subseteq Nat
  BY <1>0
<1>3. PICK q \in ends : \A k \in ends : q <= k
  <2> HIDE DEF ends
  <2> QED
    BY <1>1, <1>2, Uri!LeastElement
<1>4. q \in p..received /\ Is(q)
  <2>1. ASSUME NEW k \in p..q - 1, Char(k) \notin Digits PROVE FALSE
    <3>1. k \in p..received /\ ~(q <= k)
      BY <1>0, <1>3
    <3> QED
      BY <1>3, <2>1, <3>1
  <2> QED
    BY <1>3, <2>1
<1>5. SkipDigits(p) = CHOOSE x \in p..received : Is(x)
  BY DEF SkipDigits
<1> HIDE DEF Is
<1>6. SkipDigits(p) \in p..received /\ Is(SkipDigits(p))
  BY <1>4, <1>5
<1> QED
  BY <1>6 DEF Is

\* No line ends in the version.
LEMMA VersionFound ==
  ASSUME Shape, NEW p \in 0..received
  PROVE  LET v == http11_http_version(p)
         IN v.pos # No => /\ v.pos \in p..received
                          /\ \A k \in p..v.pos - 1 : Char(k) \notin {"CR", "LF"}
<1>0. received \in Nat /\ p \in Nat /\ Char(received) = "nul"
  BY Positions
<1> DEFINE word == <<"h", "t", "t", "p", "/">>
           major == p + Matched(p, word)
           dot == SkipDigits(major)
           minor == Next1(dot)
           end == SkipDigits(minor)
           v == http11_http_version(p)
<1>1. v = IF Matched(p, word) = Len(word) /\ dot > major /\ Char(dot) = "." /\ end > minor
          THEN [pos |-> end, major |-> atoi(major, dot), minor |-> atoi(minor, end)]
          ELSE [pos |-> No, major |-> 0, minor |-> 0]
  BY DEF http11_http_version
<1>2. Len(word) \in Nat /\ \A i \in 1..Len(word) : word[i] \notin {"CR", "LF", "nul"}
  <2> DEFINE Letters == {"h", "t", "p", "/"}
  <2>1. word \in Seq(Letters)
    OBVIOUS
  <2>2. \A c \in Letters : c \notin {"CR", "LF", "nul"}
    OBVIOUS
  <2> HIDE DEF word, Letters
  <2>3. \A i \in 1..Len(word) : word[i] \in Letters
    BY <2>1, ElementOfSeq
  <2> QED
    BY <2>1, <2>2, <2>3, LenProperties
<1> HIDE DEF word
<1>3. /\ Matched(p, word) \in 0..Len(word) /\ major \in p..received
      /\ \A i \in 1..Matched(p, word) : Char(p + i - 1) = word[i]
  BY <1>2, MatchedIs
<1>4. ASSUME NEW k \in p..major - 1 PROVE Char(k) \notin {"CR", "LF"}
  <2>1. /\ k - p + 1 \in 1..Matched(p, word) /\ k - p + 1 \in 1..Len(word)
        /\ p + (k - p + 1) - 1 = k
    BY <1>0, <1>2, <1>3
  <2> QED
    BY <1>2, <1>3, <2>1
<1> HIDE DEF major
<1>5. major \in 0..received
  BY <1>0, <1>3
<1>6. dot \in major..received /\ \A k \in major..dot - 1 : Char(k) \in Digits
  BY <1>5, DigitsSkipped
<1> HIDE DEF dot
<1> SUFFICES ASSUME v.pos # No
             PROVE  v.pos \in p..received /\ \A k \in p..v.pos - 1 : Char(k) \notin {"CR", "LF"}
  OBVIOUS
<1>7. v.pos = end /\ Char(dot) = "."
  <2> HIDE DEF v, end, minor
  <2> QED
    BY <1>1
<1>8. minor = dot + 1 /\ minor \in 0..received
  <2>1. dot \in Nat
    BY <1>0, <1>5, <1>6
  <2>2. dot \in 0..received - 1
    BY <1>7, <2>1, HasArrived
  <2>3. minor = dot + 1
    BY <2>2, Positions
  <2> QED
    BY <1>0, <2>2, <2>3
<1> HIDE DEF minor
<1>9. end \in minor..received /\ \A k \in minor..end - 1 : Char(k) \in Digits
  BY <1>8, DigitsSkipped
<1> HIDE DEF end, v
<1>10. ASSUME NEW k \in p..end - 1 PROVE Char(k) \notin {"CR", "LF"}
  <2>1. \/ k \in p..major - 1
        \/ k \in major..dot - 1
        \/ k = dot
        \/ k \in minor..end - 1
    BY <1>0, <1>3, <1>6, <1>8, <1>9
  <2>2. \A c \in Digits : c \notin {"CR", "LF"}
    BY DEF Digits
  <2> QED
    BY <1>4, <1>6, <1>7, <1>9, <2>1, <2>2
<1>11. end \in p..received
  BY <1>0, <1>3, <1>6, <1>8, <1>9
<1> QED
  BY <1>7, <1>10, <1>11

-----------------------------------------------------------------------------
\* What has been sent stays as it is, and so does what is read off it.
LEMMA TextStays ==
  ASSUME request' = request
  PROVE  /\ Spaces' = Spaces /\ TargetAt' = TargetAt
         /\ LineStarts' = LineStarts /\ BlankLines' = BlankLines
         /\ \A i : HeadLines(i)' = HeadLines(i)
         /\ \A p : LineEnd(p)' = LineEnd(p) /\ IsCrlf(p)' = IsCrlf(p)
         /\ Blank' = Blank /\ \A i : Value(i)' = Value(i)
<1>1. \A p : IsCrlf(p)' = IsCrlf(p)
  BY DEF IsCrlf
<1>2. Spaces' = Spaces /\ LineStarts' = LineStarts
  BY <1>1 DEF Spaces, LineStarts
<1>3. BlankLines' = BlankLines /\ TargetAt' = TargetAt
  BY <1>1, <1>2 DEF BlankLines, TargetAt
<1>4. \A i : HeadLines(i)' = HeadLines(i)
  BY <1>2, <1>3 DEF HeadLines, Holds
<1>5. \A p : LineEnd(p)' = LineEnd(p)
  BY <1>1 DEF LineEnd
<1>6. Blank' = Blank
  BY <1>3 DEF Blank
<1>7. \A i : LinesOf(i)' = LinesOf(i)
  BY <1>2, <1>6 DEF LinesOf, Holds
<1>8. \A i : Value(i)' = Value(i)
  BY <1>5, <1>7 DEF Value
<1> QED
  BY <1>1, <1>2, <1>3, <1>4, <1>5, <1>6, <1>8

\* A space that has none before it is in front of the target.
LEMMA TargetIs ==
  ASSUME NEW s \in Spaces, Len(request) \in Nat, \A k \in 0..s - 1 : k \notin Spaces
  PROVE  TargetAt = s + 1
<1>1. Spaces \subseteq Nat
  BY DEF Spaces
<1>2. \A k \in Spaces : s <= k
  <2>1. \A k \in Spaces : k < s => k \in 0..s - 1
    BY <1>1
  <2> QED
    BY <1>1, <2>1
<1> DEFINE Least(x) == \A k \in Spaces : x <= k
           first == CHOOSE x \in Spaces : Least(x)
<1>3. \A x \in Spaces : Least(x) => x = s
  BY <1>1, <1>2
<1>4. TargetAt = 1 + first
  BY DEF TargetAt
<1> HIDE DEF Least
<1>5. first \in Spaces /\ Least(first)
  BY <1>2 DEF Least
<1>6. first = s
  BY <1>3, <1>5
<1> HIDE DEF first
<1> QED
  BY <1>1, <1>4, <1>6

\* An attempt that is over or has not begun: all depends on what is left behind.
LEMMA Waits ==
  ASSUME Shape', LeftBehind', pc' \in {"idle", "check", "line"}, read_pos' = 0
  PROVE  HttpInv'
  BY DEF HttpInv, RightRequest

LEMMA InvInit == Init => HttpInv
<1> SUFFICES ASSUME Init PROVE HttpInv
  OBVIOUS
<1>1. request \in Seq(STRING) /\ 0 \in 0..Len(request)
  BY RequestsAssumption, LenProperties DEF Init
<1>2. /\ http.target = NoHeader /\ http.fields = Uri!NoFields
      /\ http.header = [i \in Slots |-> NoHeader]
  BY DEF Init, Cleared
<1>3. NoHeader \in [at : Nat, len : Nat] /\ NoHeader.at + NoHeader.len = 0
  BY DEF NoHeader
<1>4. http = [method |-> http.method, target |-> http.target, fields |-> http.fields,
              major |-> http.major, minor |-> http.minor, header |-> http.header]
  BY DEF Init, Cleared
<1>5. Shape
  BY <1>1, <1>2, <1>3, <1>4 DEF Shape, Init
<1>6. LeftBehind
  BY <1>2, <1>3 DEF LeftBehind, Init
<1> QED
  BY <1>5, <1>6 DEF HttpInv, RightRequest, Init

LEMMA InvReceive == HttpInv /\ Receive => HttpInv'
<1> SUFFICES ASSUME HttpInv, Receive PROVE HttpInv'
  OBVIOUS
<1>1. /\ request' = request /\ http' = http /\ pc' = "check" /\ read_pos' = 0
      /\ received' \in received + 1..Len(request)
  BY DEF Receive, HttpInv
<1>2. Len(request) \in Nat /\ received \in Nat
  BY Positions DEF HttpInv
<1>3. Shape'
  <2>1. received' \in 0..Len(request) /\ 0 \in 0..received'
    BY <1>1, <1>2
  <2> QED
    BY <1>1, <2>1 DEF HttpInv, Shape
<1>4. LeftBehind'
  <2>1. \A f, t : /\ t \in Nat /\ FieldsIn(f, t, received) => FieldsIn(f, t, received')
                  /\ t \in Nat /\ t <= received => t <= received'
    BY <1>1, <1>2 DEF FieldsIn
  <2>2. TargetAt \in Nat \/ Spaces = {}
    <3>1. Spaces \subseteq Nat
      BY DEF Spaces
    <3>2. CASE Spaces # {}
      <4>1. PICK p \in Spaces : \A k \in Spaces : p <= k
        BY <3>1, <3>2, Uri!LeastElement
      <4>2. p \in Nat /\ \A k \in 0..p - 1 : k \notin Spaces
        BY <3>1, <4>1
      <4>3. TargetAt = p + 1
        BY <1>2, <4>2, TargetIs
      <4> QED
        BY <4>2, <4>3
    <3> QED
      BY <3>2
  <2>3. \A i \in Slots : http.header[i].at + http.header[i].len <= received'
    <3>1. \A i \in Slots : /\ http.header[i].at + http.header[i].len <= received
                           /\ http.header[i].at \in Nat /\ http.header[i].len \in Nat
      BY DEF HttpInv, LeftBehind, Shape
    <3> QED
      BY <1>1, <1>2, <3>1
  <2>4. \/ http.target = NoHeader /\ http.fields = Uri!NoFields
        \/ /\ Spaces # {} /\ http.target.at = TargetAt /\ TargetAt <= received'
           /\ http.fields = Uri!NoFields \/ FieldsIn(http.fields, TargetAt, received')
    BY <2>1, <2>2 DEF HttpInv, LeftBehind
  <2>5. \A i \in Slots : http.header[i] = NoHeader \/ HeadLines(i) # {}
    BY DEF HttpInv, LeftBehind
  <2> QED
    BY <1>1, <2>3, <2>4, <2>5, TextStays DEF LeftBehind
<1> QED
  BY <1>1, <1>3, <1>4, Waits

\* Nothing changes but where the parser is.
LEMMA LeftAsItWas ==
  ASSUME LeftBehind, UNCHANGED <<request, received, http>>
  PROVE  LeftBehind'
  BY TextStays DEF LeftBehind

LEMMA InvCheck == HttpInv /\ Check => HttpInv'
<1> SUFFICES ASSUME HttpInv, Check PROVE HttpInv'
  OBVIOUS
<1>1. UNCHANGED <<request, received, http>> /\ pc' \in {"idle", "line"} /\ read_pos' = 0
  BY DEF Check, GiveUp
<1>2. Shape'
  <2>1. 0 \in 0..received
    BY DEF HttpInv, Shape
  <2> QED
    BY <1>1, <2>1 DEF HttpInv, Shape
<1> QED
  BY <1>1, <1>2, LeftAsItWas, Waits DEF HttpInv

LEMMA InvRequestLine == HttpInv /\ RequestLine => HttpInv'
<1> SUFFICES ASSUME HttpInv, RequestLine PROVE HttpInv'
  OBVIOUS
<1> DEFINE m == http11_method(0)
           found == m.i # 0 /\ Char(m.pos) = "SP"
<1>0. Shape /\ LeftBehind /\ read_pos = 0 /\ 0 \in 0..received
  BY DEF HttpInv, RequestLine, Shape
<1>1. /\ http' = [http EXCEPT !.method = IF m.i = 0 THEN @ ELSE m.i - 1,
                              !.target = IF ~found THEN @
                                         ELSE [at |-> Next1(m.pos), len |-> received - Next1(m.pos)]]
      /\ IF ~found THEN pc' = "idle" /\ read_pos' = 0
         ELSE /\ pc' = "uri" /\ read_pos' = Next1(m.pos)
              /\ uri' = SubSeq(request, Next1(m.pos) + 1, received)
      /\ request' = request /\ received' = received
  BY <1>0 DEF RequestLine, GiveUp
<1>2. m.i # 0 => /\ m.pos \in 0..received
                 /\ \A k \in 0..m.pos - 1 : Char(k) \notin {"SP", "CR", "LF"}
  BY <1>0, MethodFound
<1>3. Len(request) \in Nat /\ received \in Nat /\ received <= Len(request)
  BY <1>0, Positions
<1> HIDE DEF m, found
<1>4. /\ http' = [method |-> http'.method, target |-> http'.target, fields |-> http'.fields,
                  major |-> http'.major, minor |-> http'.minor, header |-> http'.header]
      /\ http'.fields = http.fields /\ http'.header = http.header
      /\ http'.target = IF ~found THEN http.target
                        ELSE [at |-> Next1(m.pos), len |-> received - Next1(m.pos)]
  <2>1. http = [method |-> http.method, target |-> http.target, fields |-> http.fields,
                major |-> http.major, minor |-> http.minor, header |-> http.header]
    BY <1>0 DEF Shape
  <2> QED
    BY <1>1, <2>1
<1>5. CASE ~found
  <2>1. Shape'
    BY <1>0, <1>1, <1>4, <1>5 DEF Shape
  <2>2. LeftBehind'
    BY <1>0, <1>1, <1>4, <1>5, TextStays DEF LeftBehind
  <2> QED
    BY <1>1, <1>5, <2>1, <2>2, Waits
<1>6. CASE found
  <2>1. m.pos \in 0..received - 1 /\ m.pos \in Nat /\ request[m.pos + 1] = "SP"
    <3>1. m.pos \in Nat /\ Char(m.pos) = "SP" /\ Char(m.pos) # "nul"
      BY <1>2, <1>3, <1>6 DEF found
    <3> QED
      BY <1>0, <3>1, HasArrived
  <2>2. m.pos \in Spaces
    BY <1>3, <2>1 DEF Spaces
  <2>3. ASSUME NEW k \in 0..m.pos - 1 PROVE request[k + 1] \notin {"SP", "CR", "LF"}
    <3>1. k \in 0..received - 1
      BY <1>3, <2>1
    <3>2. Char(k) = request[k + 1]
      BY <1>0, <3>1, Positions
    <3> QED
      BY <1>2, <1>6, <3>2 DEF found
  <2>4. TargetAt = m.pos + 1
    <3>1. \A k \in 0..m.pos - 1 : k \notin Spaces
      BY <2>3 DEF Spaces
    <3> QED
      BY <1>3, <2>2, <3>1, TargetIs
  <2>5. Next1(m.pos) = TargetAt /\ TargetAt \in 0..received /\ TargetAt <= received
    BY <1>0, <1>3, <2>1, <2>4, Positions
  <2>6. http'.target = [at |-> TargetAt, len |-> received - TargetAt]
    BY <1>4, <1>6, <2>5
  <2>7. Shape'
    <3>1. http'.target \in [at : Nat, len : Nat]
      BY <1>3, <2>5, <2>6
    <3>2. read_pos' \in 0..received
      BY <1>1, <1>6, <2>5
    <3> QED
      BY <1>0, <1>1, <1>4, <1>6, <3>1, <3>2 DEF Shape
  <2>8. LeftBehind'
    <3>1. http.fields = Uri!NoFields \/ FieldsIn(http.fields, TargetAt, received)
      BY <1>0 DEF LeftBehind
    <3>2. Spaces # {} /\ http'.target.at = TargetAt
      BY <2>2, <2>6
    <3> QED
      BY <1>0, <1>1, <1>4, <2>5, <3>1, <3>2, TextStays DEF LeftBehind
  <2>9. AtTarget'
    <3>1. \A k \in 0..TargetAt - 1 : request[k + 1] \notin {"CR", "LF"}
      <4>1. \A k \in 0..TargetAt - 1 : k = m.pos \/ k \in 0..m.pos - 1
        BY <2>1, <2>4
      <4>2. \A k \in 0..m.pos - 1 : request[k + 1] \notin {"CR", "LF"}
        BY <2>3
      <4>3. request[m.pos + 1] \notin {"CR", "LF"}
        BY <2>1
      <4> QED
        BY <4>1, <4>2, <4>3
    <3>2. Spaces # {}
      BY <2>2
    <3> QED
      BY <1>1, <1>6, <2>5, <2>6, <3>1, <3>2, TextStays DEF AtTarget
  <2> QED
    BY <1>1, <1>6, <2>7, <2>8, <2>9 DEF HttpInv, RightRequest
<1> QED
  BY <1>5, <1>6

-----------------------------------------------------------------------------
\* The parser of the target stays in what has arrived, and what it passes over
\* is a character of a URI or stands behind an escape.
LEMMA TargetParsed ==
  ASSUME Shape, LeftBehind, AtTarget
  PROVE  LET u == Uri!uriaa_check_url(http.fields)
         IN /\ TargetAt \in 0..received
            /\ u.ok \in BOOLEAN /\ u.pos \in 0..received - TargetAt
            /\ FieldsIn(u.f, TargetAt, received)
            /\ Uri!Passed(0, u.pos)
            /\ \A k \in 0..received - TargetAt - 1 : Uri!Char(k) = Char(TargetAt + k)
<1> DEFINE u == Uri!uriaa_check_url(http.fields)
<1>1. Len(request) \in Nat /\ received \in Nat /\ received <= Len(request)
  BY Positions
<1>2. TargetAt \in 0..received
  BY DEF AtTarget, Shape
<1>3. /\ Uri!Size = received - TargetAt /\ Uri!Size \in Nat
      /\ \A k \in 1..received - TargetAt : uri[k] = request[TargetAt + k]
  <2>1. \A i \in TargetAt + 1..received : request[i] \in STRING
    <3>1. \A i \in TargetAt + 1..received : i \in 1..Len(request)
      BY <1>1, <1>2
    <3> QED
      BY <3>1, ElementOfSeq DEF Shape
  <2>2. /\ TargetAt + 1 \in Int /\ received \in Int
        /\ (IF TargetAt + 1 <= received THEN received - (TargetAt + 1) + 1 ELSE 0)
             = received - TargetAt
    BY <1>1, <1>2
  <2>3. /\ Len(uri) = received - TargetAt
        /\ \A k \in 1..received - (TargetAt + 1) + 1 : uri[k] = request[TargetAt + 1 + k - 1]
    BY <2>1, <2>2, SubSeqProperties DEF AtTarget
  <2>4. ASSUME NEW k \in 1..received - TargetAt PROVE uri[k] = request[TargetAt + k]
    <3>1. k \in 1..received - (TargetAt + 1) + 1 /\ TargetAt + 1 + k - 1 = TargetAt + k
      BY <1>1, <1>2
    <3> QED
      BY <2>3, <3>1
  <2> QED
    BY <1>1, <1>2, <2>3, <2>4 DEF Uri!Size
<1>4. Uri!Inside(http.fields)
  <2>1. CASE http.fields = Uri!NoFields
    BY <1>3, <2>1, Uri!NoFieldsInside
  <2>2. CASE FieldsIn(http.fields, TargetAt, received)
    <3>1. ASSUME NEW x \in Uri!Fields
          PROVE  http.fields[x].at + http.fields[x].len <= Uri!Size
      <4>1. /\ http.fields[x].at \in Nat /\ http.fields[x].len \in Nat
            /\ TargetAt + http.fields[x].at + http.fields[x].len <= received
        BY <2>2 DEF FieldsIn
      <4> QED
        BY <1>1, <1>2, <1>3, <4>1
    <3> QED
      BY <2>2, <3>1 DEF FieldsIn, Uri!Inside
  <2> QED
    BY <2>1, <2>2 DEF LeftBehind
<1>5. Uri!Parsed(u, 0, http.fields, Uri!Fields)
  BY <1>3, <1>4, Uri!CheckUrlParsed
<1> HIDE DEF u
<1>6. /\ u.ok \in BOOLEAN /\ u.pos \in 0..Uri!Size /\ Uri!Passed(0, u.pos)
      /\ Uri!Inside(u.f)
  BY <1>5 DEF Uri!Parsed
<1>7. FieldsIn(u.f, TargetAt, received)
  <2>1. ASSUME NEW x \in Uri!Fields
        PROVE  TargetAt + u.f[x].at + u.f[x].len <= received
    <3>1. /\ u.f[x].at \in Nat /\ u.f[x].len \in Nat
          /\ u.f[x].at + u.f[x].len <= Uri!Size
      BY <1>6 DEF Uri!Inside
    <3> QED
      BY <1>1, <1>2, <1>3, <3>1
  <2> QED
    BY <1>6, <2>1 DEF FieldsIn, Uri!Inside
<1>8. ASSUME NEW k \in 0..received - TargetAt - 1 PROVE Uri!Char(k) = Char(TargetAt + k)
  <2>1. /\ k + 1 \in 1..received - TargetAt /\ TargetAt + k \in 0..received - 1
        /\ TargetAt + (k + 1) = (TargetAt + k) + 1
    BY <1>1, <1>2
  <2>2. Uri!Char(k) = uri[k + 1]
    <3>1. k < Uri!Size
      BY <1>1, <1>2, <1>3
    <3> QED
      BY <3>1 DEF Uri!Char
  <2>3. Char(TargetAt + k) = request[(TargetAt + k) + 1]
    BY <2>1, Positions
  <2> QED
    BY <1>3, <2>1, <2>2, <2>3
<1> QED
  BY <1>2, <1>3, <1>6, <1>7, <1>8 DEF u

\* What the alphabet of URIs leaves out.
LEMMA NotInUris == {"SP", "CR", "LF"} \cap Uri!UriChars = {} /\ "CR" \notin Uri!HEX
<1>1. \A c \in {"SP", "CR", "LF"} : c \notin Uri!RESERVED \cup Uri!UNRESERVED
  <2>1. \A c \in {"SP", "CR", "LF"} :
          /\ c \notin Uri!RESERVED /\ c \notin Uri!MARK /\ c \notin Uri!LOWALPHA
          /\ c \notin Uri!DIGIT
    BY DEF Uri!RESERVED, Uri!MARK, Uri!LOWALPHA, Uri!DIGIT
  <2> QED
    BY <2>1 DEF Uri!UNRESERVED, Uri!ALPHANUM
<1>2. \A c \in {"SP", "CR", "LF"} : c \notin {"%", "#"}
  OBVIOUS
<1>3. "CR" \notin Uri!HEX
  BY DEF Uri!HEX, Uri!DIGIT
<1> QED
  BY <1>1, <1>2, <1>3 DEF Uri!UriChars, Uri!URIC

\* Before the end of the version no line has ended: not before the target, not
\* in it (a CR behind an escape has no LF behind it), not in the version.
LEMMA FirstLineGoesOn ==
  ASSUME Shape, LeftBehind, AtTarget,
         NEW n \in 0..received - TargetAt, Uri!Passed(0, n), Char(TargetAt + n) = "SP",
         \A k \in 0..received - TargetAt - 1 : Uri!Char(k) = Char(TargetAt + k),
         NEW end \in TargetAt + n + 1..received,
         \A k \in TargetAt + n + 1..end - 1 : Char(k) \notin {"CR", "LF"}
  PROVE  \A x \in 0..end - 1 : ~IsCrlf(x)
<1>1. Len(request) \in Nat /\ received \in Nat /\ received <= Len(request)
  BY Positions
<1>2. TargetAt \in 0..received
  BY DEF AtTarget, Shape
<1> SUFFICES ASSUME NEW x \in 0..end - 1, IsCrlf(x) PROVE FALSE
  OBVIOUS
<1>3. x \in 0..received - 1 /\ x + 1 < received => Char(x + 1) = "LF"
  <2>1. x + 1 < received => /\ x + 1 \in 0..received - 1 /\ (x + 1) + 1 = x + 2
    BY <1>1, <1>2
  <2>2. x + 1 < received => Char(x + 1) = request[x + 2]
    BY <2>1, Positions
  <2> QED
    BY <1>1, <1>2, <2>2 DEF IsCrlf
<1>4. x \in 0..received - 1 /\ Char(x) = "CR"
  <2>1. x \in 0..received - 1
    BY <1>1, <1>2
  <2> QED
    BY <2>1, Positions DEF IsCrlf
<1>5. \/ x \in 0..TargetAt - 1 \/ x \in TargetAt..TargetAt + n - 1
      \/ x = TargetAt + n \/ x \in TargetAt + n + 1..end - 1
  BY <1>1, <1>2
<1>6. CASE x \in 0..TargetAt - 1
  <2>1. request[x + 1] = "CR"
    BY DEF IsCrlf
  <2> QED
    BY <1>6, <2>1 DEF AtTarget
<1>7. CASE x \in TargetAt..TargetAt + n - 1
  <2> DEFINE k == x - TargetAt
  <2>1. /\ k \in 0..n - 1 /\ k \in 0..received - TargetAt - 1 /\ TargetAt + k = x
        /\ k + 1 \in 0..n - 1 \/ x + 1 = TargetAt + n
        /\ x + 1 < received \/ x + 1 = TargetAt + n
        /\ k + 1 \in Nat /\ (k + 1) - 1 = k
    BY <1>1, <1>2, <1>7
  <2>2. Uri!Char(k) = "CR"
    BY <1>4, <2>1
  <2>3. CASE x + 1 = TargetAt + n
    <3>1. Char(x + 1) = "SP" /\ x + 1 \in Nat
      BY <1>4, <2>3
    <3>2. x + 1 \in 0..received - 1
      <4>1. "SP" # "nul"
        OBVIOUS
      <4>2. Char(x + 1) # "nul"
        BY <3>1, <4>1
      <4> QED
        BY <3>1, <4>2, HasArrived
    <3>3. x + 1 < received
      BY <1>1, <3>2
    <3> QED
      BY <1>3, <1>4, <3>1, <3>3
  <2>4. CASE x + 1 # TargetAt + n
    <3>1. /\ k + 1 \in 0..n - 1 /\ k + 1 \in 0..received - TargetAt - 1 /\ x + 1 < received
          /\ TargetAt + (k + 1) = x + 1
      BY <1>1, <1>2, <2>1, <2>4
    <3> HIDE DEF k
    <3>2. Uri!Char(k + 1) = "LF"
      BY <1>3, <1>4, <3>1
    <3>3. Uri!BehindEscape(k + 1)
      BY <3>1, <3>2, NotInUris DEF Uri!Passed
    <3>4. Uri!Char((k + 1) - 1) \in Uri!HEX
      BY <3>3 DEF Uri!BehindEscape
    <3> QED
      BY <2>1, <2>2, <3>4, NotInUris
  <2> QED
    BY <2>3, <2>4
<1>8. CASE x = TargetAt + n
  BY <1>4, <1>8
<1>9. CASE x \in TargetAt + n + 1..end - 1
  BY <1>4, <1>9
<1> QED
  BY <1>5, <1>6, <1>7, <1>8, <1>9

\* The spaces within the target.
LEMMA SpacesInTarget ==
  ASSUME Shape, LeftBehind, AtTarget,
         NEW n \in 0..received - TargetAt, Uri!Passed(0, n),
         \A k \in 0..received - TargetAt - 1 : Uri!Char(k) = Char(TargetAt + k)
  PROVE  \A p \in Spaces \cap (TargetAt..TargetAt + n - 1) : BehindEscape(TargetAt, p)
<1>1. Len(request) \in Nat /\ received \in Nat /\ received <= Len(request)
  BY Positions
<1>2. TargetAt \in 0..received
  BY DEF AtTarget, Shape
<1> SUFFICES ASSUME NEW p \in Spaces \cap (TargetAt..TargetAt + n - 1)
             PROVE  BehindEscape(TargetAt, p)
  OBVIOUS
<1> DEFINE k == p - TargetAt
<1>3. /\ p \in 0..received - 1 /\ k \in 0..n - 1 /\ k \in 0..received - TargetAt - 1
      /\ TargetAt + k = p
  BY <1>1, <1>2
<1> HIDE DEF k
<1>4. Char(p) = "SP"
  BY <1>3, Positions DEF Spaces
<1>5. Uri!Char(k) = "SP"
  BY <1>3, <1>4
<1>6. Uri!BehindEscape(k)
  BY <1>3, <1>5, NotInUris DEF Uri!Passed
<1>7. /\ k >= 3 /\ Uri!Char(k - 3) = "%"
      /\ Uri!Char(k - 2) \in Uri!HEX /\ Uri!Char(k - 1) \in Uri!HEX
  BY <1>6 DEF Uri!BehindEscape
<1>8. ASSUME NEW d \in 1..3 PROVE Uri!Char(k - d) = request[p - d + 1]
  <2>1. /\ k - d \in 0..received - TargetAt - 1 /\ TargetAt + (k - d) = p - d
        /\ p - d \in 0..received - 1
    BY <1>1, <1>2, <1>3, <1>7
  <2> QED
    BY <2>1, Positions
<1>9. p - 3 >= TargetAt /\ p - 3 + 1 = p - 2 /\ p - 2 + 1 = p - 1 /\ p - 1 + 1 = p
  BY <1>1, <1>2, <1>3, <1>7
<1>10. 1 \in 1..3 /\ 2 \in 1..3 /\ 3 \in 1..3
  OBVIOUS
<1>11. /\ Uri!Char(k - 3) = request[p - 2] /\ Uri!Char(k - 2) = request[p - 1]
       /\ Uri!Char(k - 1) = request[p]
  BY <1>8, <1>9, <1>10
<1> QED
  BY <1>7, <1>9, <1>11 DEF BehindEscape

-----------------------------------------------------------------------------
\* A line begins behind a line end, and the next one behind the next line end.
LEMMA LineStartIs ==
  /\ \A x \in 0..Len(request) : IsCrlf(x) => x + 2 \in LineStarts
  /\ \A s \in LineStarts \ {0} : \E x \in 0..Len(request) : IsCrlf(x) /\ s = x + 2
  BY DEF LineStarts

LEMMA NextLineStart ==
  ASSUME Len(request) \in Nat, NEW p \in LineStarts, NEW end \in p..Len(request),
         IsCrlf(end), \A k \in p..end - 1 : ~IsCrlf(k),
         NEW s \in LineStarts, s > p
  PROVE  s >= end + 2
<1>1. p \in Nat /\ (p # 0 => \E y \in 0..Len(request) : IsCrlf(y) /\ p = y + 2)
  BY LineStartIs DEF LineStarts
<1>2. s # 0
  BY <1>1
<1>3. PICK x \in 0..Len(request) : IsCrlf(x) /\ s = x + 2
  BY <1>2, LineStartIs
<1>4. ~(x \in p..end - 1)
  BY <1>3
<1>5. x >= p
  <2>1. CASE p = 0
    BY <2>1
  <2>2. CASE p # 0
    <3>1. PICK y \in 0..Len(request) : IsCrlf(y) /\ p = y + 2
      BY <1>1, <2>2
    <3>2. request[y + 2] = "LF" /\ request[x + 1] = "CR"
      BY <1>3, <3>1 DEF IsCrlf
    <3>3. x + 1 # y + 2
      BY <3>2
    <3> QED
      BY <1>3, <3>1, <3>3
  <2> QED
    BY <2>1, <2>2
<1> QED
  BY <1>1, <1>3, <1>4, <1>5

LEMMA InvRequestUri == HttpInv /\ RequestUri => HttpInv'
<1> SUFFICES ASSUME HttpInv, RequestUri PROVE HttpInv'
  OBVIOUS
<1> DEFINE u == Uri!uriaa_check_url(http.fields)
           v == http11_http_version(Next1(read_pos + u.pos))
           with_target == IF u.ok THEN [http EXCEPT !.fields = u.f, !.target.len = u.pos]
                          ELSE [http EXCEPT !.fields = u.f]
           versioned == u.ok /\ Char(read_pos + u.pos) = "SP" /\ v.pos # No
           found == versioned /\ http11_crlf(v.pos) # No
<1>0. Shape /\ LeftBehind /\ AtTarget /\ read_pos = TargetAt
  BY DEF HttpInv, RequestUri, AtTarget
<1>1. /\ http' = IF ~versioned THEN with_target
                 ELSE [with_target EXCEPT !.major = v.major, !.minor = v.minor]
      /\ IF ~found THEN pc' = "idle" /\ read_pos' = 0
         ELSE pc' = "headers" /\ read_pos' = http11_crlf(v.pos)
      /\ request' = request /\ received' = received
  BY DEF RequestUri, GiveUp
<1>2. Len(request) \in Nat /\ received \in Nat /\ received <= Len(request)
  BY <1>0, Positions
<1>3. /\ TargetAt \in 0..received
      /\ u.ok \in BOOLEAN /\ u.pos \in 0..received - TargetAt
      /\ FieldsIn(u.f, TargetAt, received)
      /\ Uri!Passed(0, u.pos)
      /\ \A k \in 0..received - TargetAt - 1 : Uri!Char(k) = Char(TargetAt + k)
  BY <1>0, TargetParsed
<1> HIDE DEF u, v, found, versioned
<1>4. /\ http' = [method |-> http'.method, target |-> http'.target, fields |-> http'.fields,
                  major |-> http'.major, minor |-> http'.minor, header |-> http'.header]
      /\ http'.fields = u.f /\ http'.header = http.header
      /\ http'.target = IF u.ok THEN [at |-> TargetAt, len |-> u.pos] ELSE http.target
  <2>1. http = [method |-> http.method, target |-> http.target, fields |-> http.fields,
                major |-> http.major, minor |-> http.minor, header |-> http.header]
    BY <1>0 DEF Shape
  <2>2. http.target = [at |-> TargetAt, len |-> received - TargetAt]
    BY <1>0 DEF AtTarget
  <2>3. /\ with_target = [method |-> with_target.method, target |-> with_target.target,
                          fields |-> with_target.fields, major |-> with_target.major,
                          minor |-> with_target.minor, header |-> with_target.header]
        /\ with_target.fields = u.f /\ with_target.header = http.header
        /\ with_target.target = IF u.ok THEN [at |-> TargetAt, len |-> u.pos] ELSE http.target
    <3>1. [http EXCEPT !.fields = u.f, !.target.len = u.pos]
            = [method |-> http.method, target |-> [at |-> TargetAt, len |-> u.pos],
               fields |-> u.f, major |-> http.major, minor |-> http.minor,
               header |-> http.header]
      <4> DEFINE h == [method |-> http.method, target |-> http.target, fields |-> u.f,
                       major |-> http.major, minor |-> http.minor, header |-> http.header]
      <4>1. [http EXCEPT !.fields = u.f] = h
        BY <2>1
      <4>2. [http EXCEPT !.fields = u.f, !.target.len = u.pos] = [h EXCEPT !.target.len = u.pos]
        BY <4>1
      <4>3. [h.target EXCEPT !.len = u.pos] = [at |-> TargetAt, len |-> u.pos]
        BY <2>2
      <4>4. [h EXCEPT !.target.len = u.pos] = [h EXCEPT !.target = [h.target EXCEPT !.len = u.pos]]
        OBVIOUS
      <4> QED
        BY <4>2, <4>3, <4>4
    <3>2. [http EXCEPT !.fields = u.f]
            = [method |-> http.method, target |-> http.target,
               fields |-> u.f, major |-> http.major, minor |-> http.minor,
               header |-> http.header]
      BY <2>1
    <3> QED
      BY <3>1, <3>2
  <2> HIDE DEF with_target
  <2> QED
    BY <1>1, <2>3
<1> HIDE DEF with_target
<1>5. http'.target \in [at : Nat, len : Nat] /\ http'.target.at = TargetAt
  <2>1. http.target \in [at : Nat, len : Nat] /\ http.target.at = TargetAt
    BY <1>0 DEF Shape, AtTarget
  <2> QED
    BY <1>2, <1>3, <1>4, <2>1
<1>6. LeftBehind'
  <2>1. Spaces # {} /\ TargetAt <= received
    BY <1>2, <1>3, <1>0 DEF AtTarget
  <2>2. \/ http'.target = NoHeader /\ http'.fields = Uri!NoFields
        \/ /\ Spaces # {} /\ http'.target.at = TargetAt /\ TargetAt <= received
           /\ http'.fields = Uri!NoFields \/ FieldsIn(http'.fields, TargetAt, received)
    BY <1>3, <1>4, <1>5, <2>1
  <2> QED
    BY <1>0, <1>1, <1>4, <2>2, TextStays DEF LeftBehind
<1>7. CASE ~found
  <2>1. read_pos' = 0 /\ pc' = "idle" /\ 0 \in 0..received
    BY <1>1, <1>2, <1>7
  <2>2. Shape'
    BY <1>0, <1>1, <1>4, <1>5, <2>1 DEF Shape
  <2> QED
    BY <1>6, <2>1, <2>2, Waits
<1>8. CASE found
  <2> DEFINE end == v.pos
             space == TargetAt + u.pos
  <2>1. u.ok /\ Char(space) = "SP" /\ end # No /\ http11_crlf(end) # No
    BY <1>0, <1>8 DEF found, versioned
  <2>2. space \in 0..received - 1 /\ space \in Nat /\ request[space + 1] = "SP"
    <3>1. space \in Nat
      BY <1>2, <1>3
    <3>2. Char(space) # "nul"
      BY <2>1
    <3> HIDE DEF space
    <3> QED
      BY <1>0, <2>1, <3>1, <3>2, HasArrived
  <2>3. v = http11_http_version(space + 1) /\ space + 1 \in 0..received
    <3>1. Next1(space) = space + 1 /\ space + 1 \in 0..received
      BY <1>0, <1>2, <2>2, Positions
    <3> QED
      BY <1>0, <3>1 DEF v
  <2>4. /\ end \in space + 1..received
        /\ \A k \in space + 1..end - 1 : Char(k) \notin {"CR", "LF"}
    BY <1>0, <2>1, <2>3, VersionFound
  <2> HIDE DEF end
  <2>5. end \in 0..received
    BY <1>2, <2>2, <2>4
  <2>6. end + 1 < received /\ IsCrlf(end) /\ http11_crlf(end) = end + 2 /\ end + 2 \in 0..received
    BY <1>0, <2>1, <2>5, CrlfStep
  <2>7. \A x \in 0..end - 1 : ~IsCrlf(x)
    BY <1>0, <1>3, <2>1, <2>4, FirstLineGoesOn
  <2>8. pc' = "headers" /\ read_pos' = end + 2
    BY <1>1, <1>8, <2>6 DEF end
  <2>9. Shape'
    BY <1>0, <1>1, <1>4, <1>5, <2>6, <2>8 DEF Shape
  <2>10. ASSUME NEW s \in LineStarts \ {0} PROVE s >= end + 2
    <3>1. s \in Nat /\ s > 0 /\ 0 \in LineStarts /\ end \in 0..Len(request)
      BY <1>2, <2>5 DEF LineStarts
    <3> QED
      BY <1>2, <2>6, <2>7, <3>1, NextLineStart
  <2>11. RightTarget'
    <3>1. TargetAt - 1 \in Spaces /\ space \in Spaces
      <4>1. space \in Spaces
        BY <1>2, <2>2 DEF Spaces
      <4>2. Spaces \subseteq Nat
        BY DEF Spaces
      <4>3. PICK s \in Spaces : \A k \in Spaces : s <= k
        BY <4>1, <4>2, Uri!LeastElement
      <4>4. \A k \in 0..s - 1 : k \notin Spaces
        BY <4>2, <4>3
      <4>5. TargetAt = s + 1
        BY <1>2, <4>4, TargetIs
      <4>6. TargetAt - 1 = s
        BY <4>2, <4>5
      <4> QED
        BY <4>1, <4>6
    <3>2. http'.target.at = TargetAt /\ http'.target.len = u.pos
      BY <1>4, <2>1
    <3>3. \A p \in Spaces \cap (TargetAt..TargetAt + u.pos - 1) : BehindEscape(TargetAt, p)
      BY <1>0, <1>3, SpacesInTarget
    <3>4. /\ Spaces' = Spaces
          /\ \A p : BehindEscape(TargetAt, p)' <=> BehindEscape(TargetAt, p)
      BY <1>1, TextStays DEF BehindEscape
    <3>5. TargetAt' = TargetAt
      BY <1>1, TextStays
    <3> HIDE DEF space
    <3> QED
      BY <1>1, <3>1, <3>2, <3>3, <3>4, <3>5 DEF RightTarget, space, BehindEscape
  <2>12. AtLine'
    <3>1. end + 2 \in LineStarts \ {0} /\ LineStarts' = LineStarts
      BY <1>1, <1>2, <2>5, <2>6, LineStartIs, TextStays
    <3>2. \A q \in BlankLines : end + 2 <= q
      <4>1. \A q \in BlankLines : q \in LineStarts \ {0} /\ q \in Nat
        BY DEF BlankLines, LineStarts
      <4> QED
        BY <2>5, <2>10, <4>1
    <3>3. ASSUME NEW i \in Slots PROVE {p \in HeadLines(i)' : p < read_pos'} = {}
      <4>1. ASSUME NEW p \in HeadLines(i) PROVE ~(p < end + 2)
        <5>1. p \in LineStarts \ {0} /\ p \in Nat
          BY DEF HeadLines, LineStarts
        <5> QED
          BY <2>5, <2>10, <5>1
      <4> QED
        BY <1>1, <2>8, <4>1, TextStays
    <3>4. ASSUME NEW i \in Slots PROVE Stored(i, read_pos)'
      BY <3>3 DEF Stored
    <3> QED
      BY <1>1, <2>8, <2>11, <3>1, <3>2, <3>4, TextStays DEF AtLine
  <2> QED
    BY <1>6, <2>8, <2>9, <2>12 DEF HttpInv, RightRequest
<1> QED
  BY <1>7, <1>8

-----------------------------------------------------------------------------
\* The tables of header names, side by side.
LEMMA Tables ==
  /\ \A a \in {general_header_array, entity_header_array, request_header_array} :
       a \in Seq(Seq(STRING)) /\ Len(a) \in Nat
  /\ general_start \in Nat /\ entity_start \in Nat /\ request_start \in Nat
  /\ \A k \in 1..Len(general_header_array) : /\ general_start + k \in Slots
       /\ AllNames[general_start + k] = general_header_array[k]
  /\ \A k \in 1..Len(entity_header_array) : /\ entity_start + k \in Slots
       /\ AllNames[entity_start + k] = entity_header_array[k]
  /\ \A k \in 1..Len(request_header_array) : /\ request_start + k \in Slots
       /\ AllNames[request_start + k] = request_header_array[k]
  /\ \A i \in Slots : /\ i \in Nat \ {0}
       /\ \/ \E k \in 1..Len(general_header_array) : i = general_start + k
          \/ \E k \in 1..Len(entity_header_array) : i = entity_start + k
          \/ \E k \in 1..Len(request_header_array) : i = request_start + k
  /\ \A i \in Slots : AllNames[i] \in Seq(STRING) /\ Len(AllNames[i]) \in Nat
<1> DEFINE G == general_header_array
           E == entity_header_array
           R == request_header_array
           T == Seq(STRING)
<1>1. /\ G \in Seq(T) /\ E \in Seq(T) /\ R \in Seq(T)
      /\ Len(G) \in Nat /\ Len(E) \in Nat /\ Len(R) \in Nat
  BY NamesAssumption, LenProperties
<1> HIDE DEF T
<1>2. /\ G \o E \in Seq(T) /\ Len(G \o E) = Len(G) + Len(E)
      /\ \A i \in 1..Len(G) + Len(E) : (G \o E)[i] = IF i <= Len(G) THEN G[i] ELSE E[i - Len(G)]
  BY <1>1, ConcatProperties
<1>3. /\ (G \o E) \o R \in Seq(T) /\ Len((G \o E) \o R) = Len(G) + Len(E) + Len(R)
      /\ \A i \in 1..Len(G \o E) + Len(R) :
           ((G \o E) \o R)[i] = IF i <= Len(G \o E) THEN (G \o E)[i] ELSE R[i - Len(G \o E)]
  BY <1>1, <1>2, ConcatProperties
<1>4. AllNames = (G \o E) \o R /\ Slots = 1..Len(G) + Len(E) + Len(R)
  BY DEF AllNames, Slots, request_start
<1>5. general_start = 0 /\ entity_start = Len(G) /\ request_start = Len(G) + Len(E)
  BY DEF general_start, entity_start, request_start
<1>6. \A i \in Slots : AllNames[i] = IF i <= Len(G) THEN G[i]
                                     ELSE IF i <= Len(G) + Len(E) THEN E[i - Len(G)]
                                     ELSE R[i - (Len(G) + Len(E))]
  <2> HIDE DEF G, E, R
  <2> QED
    BY <1>1, <1>2, <1>3, <1>4
<1>7. ASSUME NEW i \in Slots PROVE AllNames[i] \in T /\ Len(AllNames[i]) \in Nat
  <2>1. i \in 1..Len(AllNames)
    BY <1>3, <1>4
  <2>2. AllNames[i] \in T
    BY <1>3, <1>4, <2>1, ElementOfSeq
  <2> QED
    BY <2>2, LenProperties DEF T
<1> HIDE DEF G, E, R
<1>8. \A k \in 1..Len(G) : general_start + k \in Slots /\ AllNames[general_start + k] = G[k]
  BY <1>1, <1>4, <1>5, <1>6
<1>9. \A k \in 1..Len(E) : entity_start + k \in Slots /\ AllNames[entity_start + k] = E[k]
  <2>1. \A k \in 1..Len(E) : /\ Len(G) + k \in Slots /\ ~(Len(G) + k <= Len(G))
                             /\ Len(G) + k <= Len(G) + Len(E) /\ Len(G) + k - Len(G) = k
    BY <1>1, <1>4
  <2> QED
    BY <1>5, <1>6, <2>1
<1>10. \A k \in 1..Len(R) : request_start + k \in Slots /\ AllNames[request_start + k] = R[k]
  <2>1. \A k \in 1..Len(R) : /\ Len(G) + Len(E) + k \in Slots
                             /\ ~(Len(G) + Len(E) + k <= Len(G))
                             /\ ~(Len(G) + Len(E) + k <= Len(G) + Len(E))
                             /\ Len(G) + Len(E) + k - (Len(G) + Len(E)) = k
    BY <1>1, <1>4
  <2> QED
    BY <1>5, <1>6, <2>1
<1>11. ASSUME NEW i \in Slots
       PROVE  /\ i \in Nat \ {0}
              /\ \/ \E k \in 1..Len(G) : i = general_start + k
                 \/ \E k \in 1..Len(E) : i = entity_start + k
                 \/ \E k \in 1..Len(R) : i = request_start + k
  <2>1. \/ i \in 1..Len(G)
        \/ i - Len(G) \in 1..Len(E)
        \/ i - (Len(G) + Len(E)) \in 1..Len(R)
    BY <1>1, <1>4
  <2>2. i = 0 + i /\ i = Len(G) + (i - Len(G)) /\ i = Len(G) + Len(E) + (i - (Len(G) + Len(E)))
    BY <1>1, <1>4
  <2> QED
    BY <1>1, <1>4, <1>5, <2>1, <2>2
<1> QED
  BY <1>1, <1>5, <1>7, <1>8, <1>9, <1>10, <1>11 DEF G, E, R, T

\* The name of header i and its ":" stand at p.
LEMMA HoldsName ==
  ASSUME Shape, NEW p \in Nat, NEW i \in Slots
  PROVE  Holds(p, Append(AllNames[i], ":")) <=>
           /\ p + Len(AllNames[i]) < Len(request)
           /\ \A k \in 1..Len(AllNames[i]) : request[p + k] = AllNames[i][k]
           /\ request[p + Len(AllNames[i]) + 1] = ":"
<1> DEFINE S == STRING \cup {":"}
           name == AllNames[i]
           word == Append(name, ":")
<1>1. name \in Seq(STRING) /\ Len(name) \in Nat /\ Len(request) \in Nat
  BY Tables, Positions
<1>2. name \in Seq(S) /\ request \in Seq(S)
  BY <1>1, SeqMonotonic DEF Shape
<1> HIDE DEF name
<1>3. /\ word \in Seq(S) /\ Len(word) = Len(name) + 1
      /\ \A k \in 1..Len(name) : word[k] = name[k]
      /\ word[Len(name) + 1] = ":"
  BY <1>2, AppendProperties
<1>4. Holds(p, word) <=> /\ p + Len(word) <= Len(request)
                         /\ \A k \in 1..Len(word) : request[p + k] = word[k]
  <2> HIDE DEF S, word
  <2> QED
    BY <1>2, <1>3, HoldsIs
<1> HIDE DEF word
<1>5. \A k \in 1..Len(word) : k \in 1..Len(name) \/ k = Len(name) + 1
  BY <1>1, <1>3
<1>6. /\ Len(name) + 1 \in 1..Len(word) /\ \A k \in 1..Len(name) : k \in 1..Len(word)
      /\ p + (Len(name) + 1) = p + Len(name) + 1
      /\ p + Len(word) <= Len(request) <=> p + Len(name) < Len(request)
  BY <1>1, <1>3
<1>7. (\A k \in 1..Len(word) : request[p + k] = word[k]) <=>
        /\ \A k \in 1..Len(name) : request[p + k] = name[k]
        /\ request[p + Len(name) + 1] = ":"
  BY <1>3, <1>5, <1>6
<1> QED
  BY <1>4, <1>6, <1>7 DEF word, name

\* One name only; and no line ends in it.
LEMMA HoldsOne ==
  ASSUME Shape, NEW p \in Nat, NEW i \in Slots, NEW j \in Slots,
         Holds(p, Append(AllNames[i], ":")), Holds(p, Append(AllNames[j], ":"))
  PROVE  i = j
<1>1. ASSUME NEW a \in Slots, NEW b \in Slots,
             Holds(p, Append(AllNames[a], ":")), Holds(p, Append(AllNames[b], ":"))
      PROVE  ~(Len(AllNames[a]) < Len(AllNames[b]))
  <2> SUFFICES ASSUME Len(AllNames[a]) < Len(AllNames[b]) PROVE FALSE
    OBVIOUS
  <2> DEFINE n == Len(AllNames[a]) + 1
  <2>0. Len(AllNames[a]) \in Nat /\ Len(AllNames[b]) \in Nat
    BY Tables
  <2>1. n \in 1..Len(AllNames[b]) /\ p + n = p + Len(AllNames[a]) + 1
    BY <2>0
  <2>2. request[p + n] = ":"
    BY <1>1, <2>1, HoldsName
  <2> HIDE DEF n
  <2>3. AllNames[b][n] = ":"
    BY <1>1, <2>1, <2>2, HoldsName
  <2> QED
    BY <2>1, <2>3, NamesAssumption
<1>2. Len(AllNames[i]) = Len(AllNames[j])
  <2>1. ~(Len(AllNames[i]) < Len(AllNames[j])) /\ ~(Len(AllNames[j]) < Len(AllNames[i]))
    BY <1>1
  <2> QED
    BY <2>1, Tables
<1>3. \A k \in 1..Len(AllNames[i]) : AllNames[i][k] = AllNames[j][k]
  <2>1. \A k \in 1..Len(AllNames[i]) : request[p + k] = AllNames[i][k]
    BY HoldsName
  <2>2. \A k \in 1..Len(AllNames[j]) : request[p + k] = AllNames[j][k]
    BY HoldsName
  <2> QED
    BY <1>2, <2>1, <2>2
<1>4. AllNames[i] = AllNames[j]
  BY <1>2, <1>3, Tables, SeqEqual
<1> QED
  BY <1>4, NamesAssumption

LEMMA HoldsNoCrlf ==
  ASSUME Shape, NEW p \in Nat, NEW i \in Slots, Holds(p, Append(AllNames[i], ":"))
  PROVE  \A k \in p..p + Len(AllNames[i]) : ~IsCrlf(k)
<1>1. Len(AllNames[i]) \in Nat
  BY Tables
<1>2. ASSUME NEW k \in p..p + Len(AllNames[i]) PROVE request[k + 1] # "CR"
  <2> DEFINE n == k - p + 1
  <2>1. /\ n \in 1..Len(AllNames[i]) \/ n = Len(AllNames[i]) + 1
        /\ p + n = k + 1 /\ p + (Len(AllNames[i]) + 1) = p + Len(AllNames[i]) + 1
    BY <1>1
  <2> HIDE DEF n
  <2>2. CASE n \in 1..Len(AllNames[i])
    <3>1. request[p + n] = AllNames[i][n]
      BY <2>2, HoldsName
    <3> QED
      BY <2>1, <2>2, <3>1, NamesAssumption
  <2>3. CASE n = Len(AllNames[i]) + 1
    <3>1. request[p + Len(AllNames[i]) + 1] = ":"
      BY HoldsName
    <3> QED
      BY <2>1, <2>3, <3>1
  <2> QED
    BY <2>1, <2>2, <2>3
<1> QED
  BY <1>2 DEF IsCrlf

\* A name that has arrived, with its ":".
NamedAt(i, p) ==
  p + Len(AllNames[i]) < received /\ Holds(p, Append(AllNames[i], ":"))

LEMMA NameMatches ==
  ASSUME Shape, NEW p \in 0..received, NEW i \in Slots
  PROVE  (/\ Matched(p, AllNames[i]) = Len(AllNames[i])
          /\ Char(p + Len(AllNames[i])) = ":") <=> NamedAt(i, p)
<1> DEFINE name == AllNames[i]
<1>0. Len(request) \in Nat /\ received \in Nat /\ received <= Len(request) /\ p \in Nat
  BY Positions
<1>1. Len(name) \in Nat /\ \A k \in 1..Len(name) : name[k] # "nul"
  BY Tables, NamesAssumption
<1>2. NamedAt(i, p) <=>
        /\ p + Len(name) < received
        /\ p + Len(name) < Len(request)
        /\ \A k \in 1..Len(name) : request[p + k] = name[k]
        /\ request[p + Len(name) + 1] = ":"
  BY <1>0, HoldsName DEF NamedAt
<1> HIDE DEF name
<1>3. Matched(p, name) = Len(name) <=>
        /\ p + Len(name) <= Len(request) /\ p + Len(name) <= received
        /\ \A k \in 1..Len(name) : request[p + k] = name[k]
  BY <1>1, WholeWord
<1>4. p + Len(name) \in Nat
  BY <1>0, <1>1
<1>5. Char(p + Len(name)) = ":" <=>
        p + Len(name) < received /\ request[p + Len(name) + 1] = ":"
  <2>1. CASE p + Len(name) < received
    <3>1. p + Len(name) \in 0..received - 1
      BY <1>0, <1>4, <2>1
    <3> QED
      BY <2>1, <3>1, Positions
  <2>2. CASE ~(p + Len(name) < received)
    BY <2>2 DEF Char
  <2> QED
    BY <2>1, <2>2
<1>6. p + Len(name) < received =>
        p + Len(name) <= Len(request) /\ p + Len(name) <= received /\ p + Len(name) < Len(request)
  BY <1>0, <1>4
<1> QED
  BY <1>2, <1>3, <1>5, <1>6 DEF name

\* What is found in one of the tables.
LEMMA LookupIs ==
  ASSUME Shape, NEW p \in 0..received, NEW array, Len(array) \in Nat, NEW start,
         \A k \in 1..Len(array) : start + k \in Slots /\ AllNames[start + k] = array[k]
  PROVE  \/ Lookup(array, p) = 0 /\ \A k \in 1..Len(array) : ~NamedAt(start + k, p)
         \/ /\ Lookup(array, p) \in 1..Len(array) /\ Lookup(array, p) > 0
            /\ NamedAt(start + Lookup(array, p), p)
<1> DEFINE named == {k \in 1..Len(array) : /\ Matched(p, array[k]) = Len(array[k])
                                          /\ Char(p + Len(array[k])) = ":"}
<1>1. Lookup(array, p) = IF named = {} THEN 0 ELSE CHOOSE i \in named : \A k \in named : i <= k
  BY DEF Lookup
<1>2. \A k \in 1..Len(array) : k \in named <=> NamedAt(start + k, p)
  BY NameMatches
<1>3. named \subseteq 1..Len(array) /\ named \subseteq Nat
  OBVIOUS
<1> HIDE DEF named
<1>4. CASE named = {}
  BY <1>1, <1>2, <1>4
<1>5. CASE named # {}
  <2>1. \E i \in named : \A k \in named : i <= k
    BY <1>3, <1>5, Uri!LeastElement
  <2>2. Lookup(array, p) \in named
    BY <1>1, <1>5, <2>1
  <2>3. \A x \in 1..Len(array) : x > 0
    OBVIOUS
  <2>4. Lookup(array, p) \in 1..Len(array)
    BY <1>3, <2>2
  <2> QED
    BY <1>2, <2>2, <2>3, <2>4
<1> QED
  BY <1>4, <1>5

LEMMA HeaderLineIs ==
  ASSUME Shape, NEW p \in 0..received
  PROVE  LET h == HeaderLine(p)
         IN \/ h.slot = 0 /\ \A i \in Slots : ~NamedAt(i, p)
            \/ /\ h.slot \in Slots /\ h.slot > 0
               /\ NamedAt(h.slot, p) /\ h.at = p + Len(AllNames[h.slot])
<1> DEFINE g == Lookup(general_header_array, p)
           r == Lookup(request_header_array, p)
           e == Lookup(entity_header_array, p)
           h == HeaderLine(p)
<1>1. \/ g = 0 /\ \A k \in 1..Len(general_header_array) : ~NamedAt(general_start + k, p)
      \/ g \in 1..Len(general_header_array) /\ g > 0 /\ NamedAt(general_start + g, p)
  BY Tables, LookupIs
<1>2. \/ r = 0 /\ \A k \in 1..Len(request_header_array) : ~NamedAt(request_start + k, p)
      \/ r \in 1..Len(request_header_array) /\ r > 0 /\ NamedAt(request_start + r, p)
  BY Tables, LookupIs
<1>3. \/ e = 0 /\ \A k \in 1..Len(entity_header_array) : ~NamedAt(entity_start + k, p)
      \/ e \in 1..Len(entity_header_array) /\ e > 0 /\ NamedAt(entity_start + e, p)
  BY Tables, LookupIs
<1>4. h = IF g > 0 THEN [slot |-> general_start + g, at |-> p + Len(general_header_array[g])]
          ELSE IF r > 0 THEN [slot |-> request_start + r, at |-> p + Len(request_header_array[r])]
          ELSE IF e > 0 THEN [slot |-> entity_start + e, at |-> p + Len(entity_header_array[e])]
          ELSE [slot |-> 0, at |-> p]
  <2>1. /\ \A k \in 1..Len(general_header_array) : general_start + k > 0
        /\ \A k \in 1..Len(request_header_array) : request_start + k > 0
    BY Tables
  <2>2. /\ g > 0 => general_start + g > 0
        /\ r > 0 => request_start + r > 0
    BY <1>1, <1>2, <2>1
  <2> QED
    BY <2>2 DEF HeaderLine, Filled, http11_general_header, http11_request_header,
                http11_entity_header
<1> HIDE DEF g, r, e, h
<1>5. CASE g > 0
  <2>1. h.slot = general_start + g /\ h.at = p + Len(general_header_array[g])
    BY <1>4, <1>5
  <2>2. g \in 1..Len(general_header_array) /\ NamedAt(general_start + g, p)
    BY <1>1, <1>5
  <2>3. /\ general_start + g \in Slots
        /\ AllNames[general_start + g] = general_header_array[g]
    BY <2>2, Tables
  <2>4. general_start + g > 0
    BY <2>3, Tables
  <2> QED
    BY <2>1, <2>2, <2>3, <2>4 DEF h
<1>6. CASE ~(g > 0) /\ r > 0
  <2>1. h.slot = request_start + r /\ h.at = p + Len(request_header_array[r])
    BY <1>4, <1>6
  <2>2. r \in 1..Len(request_header_array) /\ NamedAt(request_start + r, p)
    BY <1>2, <1>6
  <2>3. /\ request_start + r \in Slots
        /\ AllNames[request_start + r] = request_header_array[r]
    BY <2>2, Tables
  <2>4. request_start + r > 0
    BY <2>3, Tables
  <2> QED
    BY <2>1, <2>2, <2>3, <2>4 DEF h
<1>7. CASE ~(g > 0) /\ ~(r > 0) /\ e > 0
  <2>1. h.slot = entity_start + e /\ h.at = p + Len(entity_header_array[e])
    BY <1>4, <1>7
  <2>2. e \in 1..Len(entity_header_array) /\ NamedAt(entity_start + e, p)
    BY <1>3, <1>7
  <2>3. /\ entity_start + e \in Slots
        /\ AllNames[entity_start + e] = entity_header_array[e]
    BY <2>2, Tables
  <2>4. entity_start + e > 0
    BY <2>3, Tables
  <2> QED
    BY <2>1, <2>2, <2>3, <2>4 DEF h
<1>8. CASE ~(g > 0) /\ ~(r > 0) /\ ~(e > 0)
  <2>1. h.slot = 0
    BY <1>4, <1>8
  <2>2. \A i \in Slots : ~NamedAt(i, p)
    BY <1>1, <1>2, <1>3, <1>8, Tables
  <2> QED
    BY <2>1, <2>2 DEF h
<1> QED
  BY <1>5, <1>6, <1>7, <1>8

-----------------------------------------------------------------------------
\* The header lines.
LEMMA LinePassed ==
  ASSUME Shape, AtLine, ~IsCrlf(read_pos),
         NEW end \in read_pos..received, end + 1 < received,
         IsCrlf(end), \A k \in read_pos..end - 1 : ~IsCrlf(k)
  PROVE  /\ end + 2 \in LineStarts \ {0}
         /\ \A q \in BlankLines : read_pos < q /\ end + 2 <= q
         /\ \A j \in Slots : \A x \in HeadLines(j) :
              x < end + 2 <=> (x < read_pos \/ x = read_pos)
<1>1. Len(request) \in Nat /\ received \in Nat /\ received <= Len(request)
  BY Positions
<1>2. read_pos \in LineStarts \ {0} /\ read_pos \in 0..received
  BY DEF AtLine, Shape
<1>3. end \in 0..Len(request) /\ end \in read_pos..Len(request) /\ end \in Nat
  BY <1>1, <1>2
<1>4. \A s \in LineStarts : s \in Nat /\ (s > read_pos => s >= end + 2)
  <2>1. \A s \in LineStarts : s \in Nat
    BY DEF LineStarts
  <2> QED
    BY <1>1, <1>2, <1>3, <2>1, NextLineStart
<1>5. \A q \in BlankLines : q \in LineStarts /\ read_pos <= q /\ q # read_pos
  BY DEF AtLine, BlankLines
<1>6. end + 2 \in LineStarts \ {0}
  <2>1. end + 2 \in LineStarts
    BY <1>3, LineStartIs
  <2> QED
    BY <1>3, <2>1
<1>7. \A j \in Slots : \A x \in HeadLines(j) : x \in LineStarts
  BY DEF HeadLines
<1>8. \A q \in BlankLines : read_pos < q /\ end + 2 <= q
  <2>1. \A q \in BlankLines : q \in Nat /\ read_pos <= q /\ q # read_pos
    BY <1>4, <1>5
  <2>2. \A q \in BlankLines : read_pos < q
    BY <1>1, <1>2, <2>1
  <2>3. \A q \in BlankLines : q > read_pos
    BY <1>1, <1>2, <2>1, <2>2
  <2> QED
    BY <1>3, <1>4, <1>5, <2>1, <2>2, <2>3
<1>9. ASSUME NEW j \in Slots, NEW x \in HeadLines(j)
      PROVE  x < end + 2 <=> (x < read_pos \/ x = read_pos)
  <2>1. x \in Nat /\ (x > read_pos => x >= end + 2)
    BY <1>4, <1>7
  <2> QED
    BY <1>1, <1>2, <1>3, <2>1
<1> QED
  BY <1>6, <1>8, <1>9

\* What has been dealt with, and stays so.
LEMMA StoredStays ==
  ASSUME request' = request, NEW i \in Slots, Stored(i, read_pos),
         http'.header[i] = http.header[i],
         \A x \in HeadLines(i) : x < read_pos' <=> x < read_pos
  PROVE  Stored(i, read_pos)'
<1> DEFINE lines == {x \in HeadLines(i) : x < read_pos}
<1>1. {x \in HeadLines(i)' : x < read_pos'} = lines
  BY TextStays
<1>2. \A x : LineEnd(x)' = LineEnd(x)
  BY TextStays
<1>3. lines # {} => \E p \in lines :
        /\ \A k \in lines : k <= p
        /\ http.header[i] = [at |-> p + Len(AllNames[i]),
                             len |-> LineEnd(p) - (p + Len(AllNames[i]))]
  BY DEF Stored
<1> HIDE DEF lines
<1> QED
  BY <1>1, <1>2, <1>3 DEF Stored

LEMMA TargetStays ==
  ASSUME RightTarget, request' = request, http'.target = http.target
  PROVE  RightTarget'
<1>1. Spaces' = Spaces
  BY TextStays
<1> QED
  BY <1>1 DEF RightTarget, BehindEscape

LEMMA InvKnownHeader == HttpInv /\ KnownHeader => HttpInv'
<1> SUFFICES ASSUME HttpInv, KnownHeader PROVE HttpInv'
  OBVIOUS
<1> DEFINE h == HeaderLine(read_pos)
           i == h.slot
           end == http11_find_crlf(h.at)
           to == IF end = No THEN received ELSE end
           p == read_pos
<1>0. Shape /\ LeftBehind /\ AtLine /\ p \in 0..received
  BY DEF HttpInv, KnownHeader, Shape
<1>1. /\ i > 0
      /\ http' = [http EXCEPT !.header[i] = [at |-> h.at, len |-> to - h.at]]
      /\ IF end = No THEN pc' = "idle" /\ read_pos' = 0
         ELSE read_pos' = http11_crlf(end) /\ pc' = "headers"
      /\ request' = request /\ received' = received
  BY DEF KnownHeader, GiveUp
<1>2. Len(request) \in Nat /\ received \in Nat /\ received <= Len(request)
  BY <1>0, Positions
<1>3. i \in Slots /\ NamedAt(i, p) /\ h.at = p + Len(AllNames[i])
  <2> HIDE DEF p
  <2>1. i # 0
    BY <1>1
  <2> QED
    BY <1>0, <2>1, HeaderLineIs DEF p
<1> HIDE DEF h
<1>4. /\ h.at \in p..received /\ h.at \in 0..received
      /\ Holds(p, Append(AllNames[i], ":")) /\ Len(AllNames[i]) \in Nat
  BY <1>0, <1>2, <1>3, Tables DEF NamedAt
<1>5. \A k \in p..h.at : ~IsCrlf(k)
  <2>1. p \in Nat
    BY <1>0, <1>2
  <2> QED
    BY <1>0, <1>3, <1>4, <2>1, HoldsNoCrlf
<1>6. ~IsCrlf(p)
  BY <1>0, <1>4, <1>5
<1>7. p \in HeadLines(i)
  <2>1. \A q \in BlankLines : p \in Nat /\ q \in Nat /\ p <= q /\ p # q
    BY <1>0, <1>2, <1>6 DEF AtLine, BlankLines, LineStarts
  <2>2. p \in LineStarts \ {0} /\ \A q \in BlankLines : p < q
    BY <1>0, <2>1 DEF AtLine
  <2> QED
    BY <1>4, <2>2 DEF HeadLines
<1>8. \/ end = No
      \/ /\ end # No /\ end \in h.at..received /\ end + 1 < received
         /\ IsCrlf(end) /\ (\A k \in h.at..end - 1 : ~IsCrlf(k))
         /\ http11_crlf(end) = end + 2 /\ end + 2 \in 0..received
  BY <1>0, <1>4, FindCrlf
<1> HIDE DEF end
<1>9. to \in h.at..received /\ to - h.at \in Nat /\ h.at + (to - h.at) <= received
  BY <1>2, <1>4, <1>8
<1> DEFINE value == [at |-> h.at, len |-> to - h.at]
<1>10. /\ http' = [method |-> http'.method, target |-> http'.target, fields |-> http'.fields,
                   major |-> http'.major, minor |-> http'.minor, header |-> http'.header]
       /\ http'.target = http.target /\ http'.fields = http.fields
       /\ http'.header = [http.header EXCEPT ![i] = value]
  <2>1. http = [method |-> http.method, target |-> http.target, fields |-> http.fields,
                major |-> http.major, minor |-> http.minor, header |-> http.header]
    BY <1>0 DEF Shape
  <2> HIDE DEF i, to
  <2> QED
    BY <1>1, <2>1
<1>11. value \in [at : Nat, len : Nat] /\ value.at = h.at /\ value.at + value.len <= received
  BY <1>4, <1>9
<1> HIDE DEF value, to, i
<1>12. /\ http'.header \in [Slots -> [at : Nat, len : Nat]]
       /\ http'.header[i] = value
       /\ \A j \in Slots : j # i => http'.header[j] = http.header[j]
  <2>1. http.header \in [Slots -> [at : Nat, len : Nat]]
    BY <1>0 DEF Shape
  <2> QED
    BY <1>3, <1>10, <1>11, <2>1
<1>13. LeftBehind'
  <2>1. ASSUME NEW j \in Slots
        PROVE  /\ http'.header[j].at + http'.header[j].len <= received
               /\ http'.header[j] = NoHeader \/ HeadLines(j) # {}
    <3>1. CASE j = i
      BY <1>7, <1>11, <1>12, <3>1
    <3>2. CASE j # i
      BY <1>0, <1>12, <3>2 DEF LeftBehind
    <3> QED
      BY <3>1, <3>2
  <2> QED
    BY <1>0, <1>1, <1>10, <2>1, TextStays DEF LeftBehind
<1>14. CASE end = No
  <2>1. read_pos' = 0 /\ pc' = "idle" /\ 0 \in 0..received
    BY <1>1, <1>2, <1>14
  <2>2. Shape'
    BY <1>0, <1>1, <1>10, <1>12, <2>1 DEF Shape
  <2> QED
    BY <1>13, <2>1, <2>2, Waits
<1>15. CASE end # No
  <2>1. /\ end \in p..received /\ end + 1 < received /\ IsCrlf(end)
        /\ \A k \in p..end - 1 : ~IsCrlf(k)
        /\ end \in p..Len(request) /\ p \in Nat
    <3>1. \A k \in p..end - 1 : k \in p..h.at \/ k \in h.at..end - 1
      BY <1>0, <1>2, <1>4, <1>8, <1>15
    <3> QED
      BY <1>0, <1>2, <1>4, <1>5, <1>8, <1>15, <3>1
  <2>2. LineEnd(p) = end
    BY <1>2, <2>1, LineEndIs
  <2>3. pc' = "headers" /\ read_pos' = end + 2 /\ end + 2 \in 0..received
    BY <1>1, <1>8, <1>15
  <2>4. /\ end + 2 \in LineStarts \ {0}
        /\ \A q \in BlankLines : p < q /\ end + 2 <= q
        /\ \A j \in Slots : \A x \in HeadLines(j) : x < end + 2 <=> (x < p \/ x = p)
    BY <1>0, <1>6, <2>1, LinePassed
  <2>5. Shape'
    BY <1>0, <1>1, <1>10, <1>12, <2>3 DEF Shape
  <2>6. ASSUME NEW j \in Slots PROVE Stored(j, read_pos)'
    <3>1. CASE j = i
      <4> DEFINE lines == {x \in HeadLines(j) : x < end + 2}
      <4>1. p \in lines /\ \A k \in lines : k <= p
        <5>1. p < end + 2 /\ \A k \in HeadLines(j) : k \in Nat
          BY <2>1 DEF HeadLines, LineStarts
        <5> QED
          BY <1>3, <1>7, <2>1, <2>4, <3>1, <5>1
      <4>2. value = [at |-> p + Len(AllNames[j]), len |-> LineEnd(p) - (p + Len(AllNames[j]))]
        BY <1>3, <1>15, <2>2, <3>1 DEF value, to
      <4>3. \A x : x \in HeadLines(j)' /\ x < read_pos' <=> x \in lines
        BY <1>1, <2>3, TextStays
      <4>4. \A x : LineEnd(x)' = LineEnd(x)
        BY <1>1, TextStays
      <4> HIDE DEF lines, p
      <4>5. \E x \in lines : /\ \A k \in lines : k <= x
              /\ http'.header[j] = [at |-> x + Len(AllNames[j]),
                                    len |-> LineEnd(x) - (x + Len(AllNames[j]))]
        BY <1>12, <3>1, <4>1, <4>2
      <4> QED
        BY <4>3, <4>4, <4>5 DEF Stored
    <3>2. CASE j # i
      <4>1. p \notin HeadLines(j)
        BY <1>0, <1>3, <1>4, <2>1, <3>2, HoldsOne DEF HeadLines
      <4>2. \A x \in HeadLines(j) : x < read_pos' <=> x < p
        BY <2>3, <2>4, <4>1
      <4>3. Stored(j, read_pos)
        BY <1>0 DEF AtLine
      <4> QED
        BY <1>1, <1>12, <3>2, <4>2, <4>3, StoredStays
    <3> QED
      BY <3>1, <3>2
  <2>7. AtLine'
    <3>1. RightTarget'
      BY <1>0, <1>1, <1>10, TargetStays DEF AtLine
    <3> QED
      BY <1>1, <2>3, <2>4, <2>6, <3>1, TextStays DEF AtLine
  <2> QED
    BY <1>13, <2>3, <2>5, <2>7 DEF HttpInv, RightRequest
<1> QED
  BY <1>14, <1>15

LEMMA InvUnknownHeader == HttpInv /\ UnknownHeader => HttpInv'
<1> SUFFICES ASSUME HttpInv, UnknownHeader PROVE HttpInv'
  OBVIOUS
<1> DEFINE p == read_pos
           end == http11_find_crlf(p)
<1>0. Shape /\ LeftBehind /\ AtLine /\ p \in 0..received
  BY DEF HttpInv, UnknownHeader, Shape
<1>1. /\ HeaderLine(p).slot = 0 /\ http11_crlf(p) = No
      /\ IF end = No THEN pc' = "idle" /\ read_pos' = 0
         ELSE read_pos' = http11_crlf(end) /\ pc' = "headers"
      /\ request' = request /\ received' = received /\ http' = http
  BY DEF UnknownHeader, GiveUp
<1>2. Len(request) \in Nat /\ received \in Nat /\ received <= Len(request) /\ p \in Nat
  BY <1>0, Positions
<1>3. LeftBehind'
  BY <1>0, <1>1, LeftAsItWas
<1>4. CASE end = No
  <2>1. read_pos' = 0 /\ pc' = "idle" /\ 0 \in 0..received
    BY <1>1, <1>2, <1>4
  <2>2. Shape'
    BY <1>0, <1>1, <2>1 DEF Shape
  <2> QED
    BY <1>3, <2>1, <2>2, Waits
<1>5. CASE end # No
  <2>1. /\ end \in p..received /\ end + 1 < received /\ IsCrlf(end)
        /\ \A k \in p..end - 1 : ~IsCrlf(k)
        /\ http11_crlf(end) = end + 2 /\ end + 2 \in 0..received
    BY <1>0, <1>5, FindCrlf
  <2> HIDE DEF end
  <2>2. ~IsCrlf(p)
    <3>1. ~(p + 1 < received /\ IsCrlf(p))
      BY <1>0, <1>1, CrlfStep
    <3>2. p + 1 < received
      BY <1>2, <2>1
    <3> QED
      BY <3>1, <3>2
  <2>3. pc' = "headers" /\ read_pos' = end + 2
    BY <1>1, <1>5, <2>1
  <2>4. /\ end + 2 \in LineStarts \ {0}
        /\ \A q \in BlankLines : p < q /\ end + 2 <= q
        /\ \A j \in Slots : \A x \in HeadLines(j) : x < end + 2 <=> (x < p \/ x = p)
    BY <1>0, <2>1, <2>2, LinePassed
  <2>5. Shape'
    BY <1>0, <1>1, <2>1, <2>3 DEF Shape
  <2>6. ASSUME NEW j \in Slots PROVE p \notin HeadLines(j)
    <3> SUFFICES ASSUME Holds(p, Append(AllNames[j], ":")) PROVE FALSE
      BY DEF HeadLines
    <3>1. \A k \in p..p + Len(AllNames[j]) : ~IsCrlf(k)
      BY <1>0, <1>2, HoldsNoCrlf
    <3>2. p + Len(AllNames[j]) < received
      <4>1. Len(AllNames[j]) \in Nat /\ ~(end \in p..p + Len(AllNames[j]))
        BY <2>1, <3>1, Tables
      <4> QED
        BY <1>2, <2>1, <4>1
    <3>3. NamedAt(j, p)
      BY <3>2 DEF NamedAt
    <3>4. HeaderLine(p).slot \in Slots => HeaderLine(p).slot # 0
      BY Tables
    <3> QED
      BY <1>0, <1>1, <3>3, <3>4, HeaderLineIs
  <2>7. ASSUME NEW j \in Slots PROVE Stored(j, read_pos)'
    <3>1. \A x \in HeadLines(j) : x < read_pos' <=> x < p
      BY <2>3, <2>4, <2>6
    <3>2. Stored(j, read_pos)
      BY <1>0 DEF AtLine
    <3> QED
      BY <1>1, <3>1, <3>2, StoredStays
  <2>8. AtLine'
    <3>1. RightTarget'
      BY <1>0, <1>1, TargetStays DEF AtLine
    <3> QED
      BY <1>1, <2>3, <2>4, <2>7, <3>1, TextStays DEF AtLine
  <2> QED
    BY <1>3, <2>3, <2>5, <2>8 DEF HttpInv, RightRequest
<1> QED
  BY <1>4, <1>5

\* The first line that is empty ends the request, and the last line of a header
\* before it is the last one that has been stored.
LEMMA StoredValue ==
  ASSUME NEW i \in Slots, NEW p \in BlankLines, p = Blank, \A q \in BlankLines : p <= q,
         Stored(i, p)
  PROVE  HeadLines(i) # {} => http.header[i] = Value(i)
<1>1. \A x \in Nat : x < p <=> \A q \in BlankLines : x < q
  <2>1. \A q \in BlankLines : q \in Nat
    BY DEF BlankLines, LineStarts
  <2> QED
    BY <2>1
<1>2. LineStarts \subseteq Nat
  BY DEF LineStarts
<1>3. HeadLines(i) = LinesOf(i)
  BY <1>1, <1>2 DEF HeadLines, LinesOf
<1>4. {x \in HeadLines(i) : x < p} = HeadLines(i)
  BY DEF HeadLines
<1> SUFFICES ASSUME HeadLines(i) # {} PROVE http.header[i] = Value(i)
  OBVIOUS
<1>5. PICK x \in HeadLines(i) :
        /\ \A k \in HeadLines(i) : k <= x
        /\ http.header[i] = [at |-> x + Len(AllNames[i]),
                             len |-> LineEnd(x) - (x + Len(AllNames[i]))]
  BY <1>4 DEF Stored
<1> DEFINE Last(q) == \A k \in LinesOf(i) : k <= q
           last == CHOOSE q \in LinesOf(i) : Last(q)
<1>6. \A q \in LinesOf(i) : Last(q) => q = x
  <2>1. LinesOf(i) \subseteq Nat
    BY <1>2 DEF LinesOf
  <2> QED
    BY <1>3, <1>5, <2>1
<1>7. Value(i) = [at |-> last + Len(AllNames[i]),
                  len |-> LineEnd(last) - (last + Len(AllNames[i]))]
  BY <1>3 DEF Value
<1>8. x \in LinesOf(i) /\ Last(x)
  BY <1>3, <1>5
<1> HIDE DEF Last
<1>9. last = x
  BY <1>6, <1>8
<1> HIDE DEF last
<1> QED
  BY <1>5, <1>7, <1>9

LEMMA InvEmptyLine == HttpInv /\ EmptyLine => HttpInv'
<1> SUFFICES ASSUME HttpInv, EmptyLine PROVE HttpInv'
  OBVIOUS
<1> DEFINE p == read_pos
<1>0. Shape /\ LeftBehind /\ AtLine /\ p \in 0..received
  BY DEF HttpInv, EmptyLine, Shape
<1>1. /\ http11_crlf(p) # No /\ pc' = "done" /\ read_pos' = http11_crlf(p)
      /\ request' = request /\ received' = received /\ http' = http
  BY DEF EmptyLine
<1>2. IsCrlf(p) /\ http11_crlf(p) = p + 2 /\ p + 2 \in 0..received
  BY <1>0, <1>1, CrlfStep
<1>3. p \in BlankLines /\ \A q \in BlankLines : p <= q
  BY <1>0, <1>2 DEF BlankLines, AtLine
<1>4. Blank = p
  <2> DEFINE First(q) == \A k \in BlankLines : q <= k
  <2>1. \A q \in BlankLines : First(q) => q = p
    <3>1. \A q \in BlankLines : q \in Nat
      BY DEF BlankLines, LineStarts
    <3> QED
      BY <1>3, <3>1
  <2>2. Blank = CHOOSE q \in BlankLines : First(q)
    BY DEF Blank
  <2>3. First(p)
    BY <1>3
  <2> HIDE DEF First, p
  <2> QED
    BY <1>3, <2>1, <2>2, <2>3
<1>5. Shape'
  BY <1>0, <1>1, <1>2 DEF Shape
<1>6. LeftBehind'
  BY <1>0, <1>1, LeftAsItWas
<1>7. ASSUME NEW i \in Slots PROVE http.header[i] = Value(i)
  <2>1. /\ http.header[i] = NoHeader \/ HeadLines(i) # {}
        /\ Stored(i, p)
    BY <1>0 DEF LeftBehind, AtLine
  <2>2. HeadLines(i) # {} => http.header[i] = Value(i)
    BY <1>3, <1>4, <2>1, StoredValue
  <2>3. HeadLines(i) = {} => Value(i) = NoHeader
    <3>1. \A x \in LinesOf(i) : x \in HeadLines(i)
      <4>1. \A x \in LineStarts, q \in BlankLines : x < p => x < q
        <5>1. \A q \in BlankLines : q \in Nat /\ p <= q
          BY <1>3 DEF BlankLines, LineStarts
        <5>2. \A x \in LineStarts : x \in Nat
          BY DEF LineStarts
        <5> QED
          BY <1>0, <5>1, <5>2
      <4> QED
        BY <1>4, <4>1 DEF LinesOf, HeadLines
    <3> QED
      BY <3>1 DEF Value
  <2> QED
    BY <2>1, <2>2, <2>3
<1>8. RightTarget'
  BY <1>0, <1>1, TargetStays DEF AtLine
<1>9. RightRequest'
  <2>1. /\ BlankLines' = BlankLines /\ Blank' = Blank
        /\ \A i : Value(i)' = Value(i)
    BY <1>1, TextStays
  <2>2. BlankLines # {} /\ read_pos' = Blank + 2
    BY <1>1, <1>2, <1>3, <1>4
  <2>3. \A i \in Slots : http'.header[i] = Value(i)
    BY <1>1, <1>7
  <2> QED
    BY <1>8, <2>1, <2>2, <2>3 DEF RightRequest, RightTarget
<1> QED
  BY <1>1, <1>5, <1>6, <1>9 DEF HttpInv

LEMMA InvStutters == HttpInv /\ UNCHANGED vars => HttpInv'
<1> SUFFICES ASSUME HttpInv, UNCHANGED vars PROVE HttpInv'
  OBVIOUS
<1>1. /\ request' = request /\ received' = received /\ pc' = pc
      /\ read_pos' = read_pos /\ http' = http /\ uri' = uri
  BY DEF vars
<1>2. Shape' /\ LeftBehind'
  BY <1>1, LeftAsItWas DEF HttpInv, Shape
<1>3. AtTarget => AtTarget'
  BY <1>1, TextStays DEF AtTarget
<1>4. AtLine => AtLine'
  <2> SUFFICES ASSUME AtLine PROVE AtLine'
    OBVIOUS
  <2>1. RightTarget'
    BY <1>1, TargetStays DEF AtLine
  <2>2. \A i \in Slots : Stored(i, read_pos)'
    BY <1>1, StoredStays DEF AtLine
  <2> QED
    BY <1>1, <2>1, <2>2, TextStays DEF AtLine
<1>5. RightRequest'
  <2>1. \A p : BehindEscape(http.target.at, p)' <=> BehindEscape(http.target.at, p)
    BY <1>1 DEF BehindEscape
  <2> QED
    BY <1>1, <2>1, TextStays DEF HttpInv, RightRequest
<1> QED
  BY <1>1, <1>2, <1>3, <1>4, <1>5 DEF HttpInv

LEMMA HttpInvariant == Spec => []HttpInv
<1>1. HttpInv /\ [Next]_vars => HttpInv'
  BY InvReceive, InvCheck, InvRequestLine, InvRequestUri, InvKnownHeader, InvEmptyLine,
     InvUnknownHeader, InvStutters DEF Next, LineSteps
<1> QED
  BY InvInit, <1>1, PTL DEF Spec

-----------------------------------------------------------------------------
\* Positions stay in what has arrived, however the pieces cut the text, and so
\* does what http11_request_line and the header functions leave in the struct
\* when an attempt on an earlier piece fails.
THEOREM TypeCorrect == Spec => []TypeOK
<1>1. HttpInv => TypeOK
  <2> SUFFICES ASSUME HttpInv PROVE TypeOK
    OBVIOUS
  <2>1. Shape /\ LeftBehind /\ received \in Nat
    BY Positions DEF HttpInv
  <2>2. ASSUME NEW i \in Slots
        PROVE  http.header[i].len >= 0 /\ http.header[i].at + http.header[i].len <= received
    <3>1. http.header[i] \in [at : Nat, len : Nat]
      BY <2>1 DEF Shape
    <3> QED
      BY <2>1, <3>1 DEF LeftBehind
  <2>3. ASSUME NEW x \in Uri!Fields
        PROVE  /\ http.fields[x].len >= 0
               /\ http.target.at + http.fields[x].at + http.fields[x].len <= received
    <3>1. http.target.at \in Nat /\ http.target.at <= received
      BY <2>1 DEF LeftBehind, NoHeader, Shape
    <3>2. CASE http.fields = Uri!NoFields
      <4>1. http.fields[x].at = 0 /\ http.fields[x].len = 0
        BY <3>2 DEF Uri!NoFields, Uri!Unset
      <4> QED
        BY <2>1, <3>1, <4>1
    <3>3. CASE /\ http.target.at = TargetAt
               /\ FieldsIn(http.fields, TargetAt, received)
      BY <3>3 DEF FieldsIn
    <3> QED
      BY <2>1, <3>2, <3>3 DEF LeftBehind
  <2> QED
    BY <2>1, <2>2, <2>3 DEF TypeOK, Shape
<1> QED
  BY HttpInvariant, <1>1, PTL

\* A request for which httpaa_parse_request_headers has succeeded is the one that
\* was written, for every text and every way of cutting it into pieces.
THEOREM ParsedRight == Spec => []RightRequest
<1>1. HttpInv => RightRequest
  BY DEF HttpInv
<1> QED
  BY HttpInvariant, <1>1, PTL
=============================================================================
