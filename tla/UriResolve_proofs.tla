------------------------- MODULE UriResolve_proofs -------------------------
(* uriaa_resolve_uri for every base and every reference: the loops' indexes *)
(* stay in the buffer, every pass of a loop makes progress, the path that   *)
(* is composed has no "." or ".." segment, whatever the texts are, and a    *)
(* path without oddities is the one RFC 2396 describes.                     *)
EXTENDS UriResolve, SequenceTheorems, TLAPS

\* The characters; that a string literal is in STRING is not a fact the provers
\* have.
Characters == STRING \cup {".", "/", "nul"}
Text == Seq(Characters)
ComponentTexts == [Grammar!Fields -> [init : BOOLEAN, text : Text]]

\* The parser's components, as texts.
LEMMA ComponentsType ==
  ASSUME uri \in Text, NEW f, Grammar!Inside(f)
  PROVE  Components(f) \in ComponentTexts
<1>1. f \in [Grammar!Fields -> [at : Nat, len : Nat, init : BOOLEAN]]
      /\ \A x \in Grammar!Fields : f[x].at + f[x].len <= Len(uri)
  BY DEF Grammar!Inside, Grammar!Size
<1>2. ASSUME NEW x \in Grammar!Fields
      PROVE  /\ f[x].init \in BOOLEAN
             /\ SubSeq(uri, f[x].at + 1, f[x].at + f[x].len) \in Text
  <2>1. f[x].init \in BOOLEAN /\ f[x].at \in Nat /\ f[x].len \in Nat
        /\ f[x].at + f[x].len <= Len(uri)
    BY <1>1
  <2> QED
    BY <2>1 DEF Text
<1>3. DOMAIN f = Grammar!Fields
  BY <1>1
<1> QED
  BY <1>2, <1>3 DEF Components, ComponentTexts

\* What uriaa_check_url leaves of the text.
LEMMA ParsedComponents ==
  ASSUME uri \in Text
  PROVE  LET u == Grammar!uriaa_check_url(Grammar!NoFields)
         IN u.ok \in BOOLEAN /\ Components(u.f) \in ComponentTexts
<1>1. Grammar!Size \in Nat
  BY DEF Text, Grammar!Size
<1>2. Grammar!Inside(Grammar!NoFields)
  BY <1>1, Grammar!NoFieldsInside
<1>3. Grammar!Parsed(Grammar!uriaa_check_url(Grammar!NoFields), 0,
                     Grammar!NoFields, Grammar!Fields)
  BY <1>1, <1>2, Grammar!CheckUrlParsed
<1> QED
  BY <1>3, ComponentsType DEF Grammar!Parsed

-----------------------------------------------------------------------------
\* A part of a text, and a text without the part from p to q - 1.
LEMMA PartOfText ==
  ASSUME NEW s \in Text, NEW p \in Nat, NEW q \in 0..Len(s), p <= q
  PROVE  /\ SubSeq(s, p + 1, q) \in Text /\ Len(SubSeq(s, p + 1, q)) = q - p
         /\ \A m \in 1..q - p : SubSeq(s, p + 1, q)[m] = s[p + m]
<1>1. \A m \in p + 1..q : s[m] \in Characters
  BY DEF Text
<1>2. IF p + 1 <= q + 1 THEN Len(SubSeq(s, p + 1, q)) = q + 1 - (p + 1)
      ELSE Len(SubSeq(s, p + 1, q)) = 0
  BY DEF Text
<1> QED
  BY <1>1, <1>2 DEF Text

LEMMA CutText ==
  ASSUME NEW s \in Text, NEW p \in Nat, NEW q \in 0..Len(s), p <= q
  PROVE  /\ Cut(s, p, q) \in Text /\ Len(Cut(s, p, q)) = Len(s) - (q - p)
         /\ \A m \in 1..p : Cut(s, p, q)[m] = s[m]
         /\ \A m \in p + 1..Len(s) - (q - p) : Cut(s, p, q)[m] = s[m + (q - p)]
<1> DEFINE a == SubSeq(s, 1, p)
           b == SubSeq(s, q + 1, Len(s))
<1>0. Len(s) \in Nat
  BY DEF Text
<1>1. a \in Text /\ Len(a) = p /\ \A m \in 1..p : a[m] = s[m]
  <2>1. 0 \in Nat /\ p \in 0..Len(s) /\ 0 <= p
    BY <1>0
  <2>2. /\ SubSeq(s, 0 + 1, p) \in Text /\ Len(SubSeq(s, 0 + 1, p)) = p - 0
        /\ \A m \in 1..p - 0 : SubSeq(s, 0 + 1, p)[m] = s[0 + m]
    BY <2>1, PartOfText
  <2> QED
    BY <2>2
<1>2. b \in Text /\ Len(b) = Len(s) - q /\ \A m \in 1..Len(s) - q : b[m] = s[q + m]
  BY <1>0, PartOfText
<1>3. Cut(s, p, q) = a \o b
  BY DEF Cut
<1> HIDE DEF a, b
<1>4. a \o b \in Text /\ Len(a \o b) = Len(a) + Len(b)
  BY <1>1, <1>2, ConcatProperties DEF Text
<1>5. ASSUME NEW m \in 1..Len(a) + Len(b)
      PROVE  (a \o b)[m] = IF m <= Len(a) THEN a[m] ELSE b[m - Len(a)]
  BY <1>1, <1>2 DEF Text
<1>6. ASSUME NEW m \in 1..p PROVE (a \o b)[m] = s[m]
  BY <1>0, <1>1, <1>2, <1>5
<1>7. ASSUME NEW m \in p + 1..Len(s) - (q - p) PROVE (a \o b)[m] = s[m + (q - p)]
  <2>1. m \in 1..Len(a) + Len(b) /\ m > Len(a) /\ m - Len(a) \in 1..Len(s) - q
    BY <1>0, <1>1, <1>2
  <2>2. (a \o b)[m] = b[m - Len(a)]
    BY <1>5, <2>1
  <2>3. q + (m - Len(a)) = m + (q - p)
    BY <1>1, <2>1
  <2> QED
    BY <1>2, <2>1, <2>2, <2>3
<1> QED
  BY <1>0, <1>1, <1>2, <1>3, <1>4, <1>6, <1>7

-----------------------------------------------------------------------------
\* The loops' variables are in their places.
InBuffer(l) ==
  /\ l \in [buf : Text, i_s : Nat, segment_s : Nat]
  /\ l.segment_s <= l.i_s /\ l.i_s <= Len(l.buf)

\* A pass that makes progress: it cuts the buffer, or looks one character on.
Progress(l, m) ==
  \/ Len(m.buf) < Len(l.buf)
  \/ m.buf = l.buf /\ m.i_s = l.i_s + 1

LEMMA OnwardMoves ==
  ASSUME NEW l, InBuffer(l), l.i_s < Len(l.buf), NEW s \in l.segment_s..l.i_s + 1
  PROVE  /\ InBuffer(Onward(l)) /\ Progress(l, Onward(l))
         /\ InBuffer([Onward(l) EXCEPT !.segment_s = s])
         /\ Progress(l, [Onward(l) EXCEPT !.segment_s = s])
<1>1. /\ l.buf \in Text /\ Len(l.buf) \in Nat /\ l.i_s \in Nat /\ l.segment_s \in Nat
      /\ l.segment_s <= l.i_s
  BY DEF InBuffer, Text
<1> DEFINE m == Onward(l)
           n == [m EXCEPT !.segment_s = s]
<1>2. m = [buf |-> l.buf, i_s |-> l.i_s + 1, segment_s |-> l.segment_s]
  BY DEF Onward, InBuffer
<1> HIDE DEF m
<1>3. n = [buf |-> l.buf, i_s |-> l.i_s + 1, segment_s |-> s]
  BY <1>2
<1> HIDE DEF n
<1>4. InBuffer(m) /\ Progress(l, m)
  BY <1>1, <1>2 DEF InBuffer, Progress
<1>5. InBuffer(n) /\ Progress(l, n)
  BY <1>1, <1>3 DEF InBuffer, Progress
<1> QED
  BY <1>4, <1>5 DEF m, n

\* One and two characters.
LEMMA OneCharacter ==
  ASSUME NEW C, NEW s \in Seq(C), NEW c \in C
  PROVE  s = <<c>> <=> (Len(s) = 1 /\ s[1] = c)
<1>1. <<c>> \in Seq(C) /\ Len(<<c>>) = 1 /\ <<c>>[1] = c
  OBVIOUS
<1>2. ASSUME Len(s) = 1, s[1] = c PROVE s = <<c>>
  <2>1. \A m \in 1..Len(s) : s[m] = <<c>>[m]
    BY <1>1, <1>2
  <2> QED
    BY <1>1, <1>2, <2>1, SeqEqual
<1> QED
  BY <1>1, <1>2

LEMMA TwoCharacters ==
  ASSUME NEW C, NEW s \in Seq(C), NEW c \in C, NEW d \in C
  PROVE  s = <<c, d>> <=> (Len(s) = 2 /\ s[1] = c /\ s[2] = d)
<1>1. <<c, d>> \in Seq(C) /\ Len(<<c, d>>) = 2 /\ <<c, d>>[1] = c /\ <<c, d>>[2] = d
  OBVIOUS
<1>2. ASSUME Len(s) = 2, s[1] = c, s[2] = d PROVE s = <<c, d>>
  <2>1. \A m \in 1..Len(s) : s[m] = <<c, d>>[m]
    BY <1>1, <1>2
  <2> QED
    BY <1>1, <1>2, <2>1, SeqEqual
<1> QED
  BY <1>1, <1>2

LEMMA PartIs ==
  ASSUME NEW s \in Text, NEW p \in Nat, NEW q \in 0..Len(s), p <= q
  PROVE  LET a == SubSeq(s, p + 1, q)
         IN /\ a = <<".">> <=> (q = p + 1 /\ s[p + 1] = ".")
            /\ a = DotDot <=> (q = p + 2 /\ s[p + 1] = "." /\ s[p + 2] = ".")
            /\ a = Slash <=> (q = p + 1 /\ s[p + 1] = "/")
<1> DEFINE a == SubSeq(s, p + 1, q)
<1>1. a \in Text /\ Len(a) = q - p /\ \A m \in 1..q - p : a[m] = s[p + m]
  BY PartOfText
<1> HIDE DEF a
<1>2. q = p + 1 => a[1] = s[p + 1]
  BY <1>1
<1>3. q = p + 2 => a[1] = s[p + 1] /\ a[2] = s[p + 2]
  BY <1>1
<1>4. Len(a) = 1 <=> q = p + 1
  BY <1>1
<1>5. Len(a) = 2 <=> q = p + 2
  BY <1>1
<1> DEFINE C == Characters
           point == "."
           slash == "/"
<1>9. a \in Seq(C)
  BY <1>1 DEF Text
<1>10. point \in C /\ slash \in C
  BY DEF Characters
<1> HIDE DEF C, point, slash
<1>11. a = <<point>> <=> (Len(a) = 1 /\ a[1] = point)
  BY <1>9, <1>10, OneCharacter
<1>12. a = <<slash>> <=> (Len(a) = 1 /\ a[1] = slash)
  BY <1>9, <1>10, OneCharacter
<1>13. a = <<point, point>> <=> (Len(a) = 2 /\ a[1] = point /\ a[2] = point)
  BY <1>9, <1>10, TwoCharacters
<1>6. a = <<".">> <=> (Len(a) = 1 /\ a[1] = ".")
  BY <1>11 DEF point
<1>7. a = Slash <=> (Len(a) = 1 /\ a[1] = "/")
  BY <1>12 DEF slash, Slash
<1>8. a = DotDot <=> (Len(a) = 2 /\ a[1] = "." /\ a[2] = ".")
  BY <1>13 DEF point, DotDot
<1> QED
  BY <1>2, <1>3, <1>4, <1>5, <1>6, <1>7, <1>8 DEF a

\* The text of a segment, and of what is behind position i.
LEMMA SegmentIs ==
  ASSUME NEW l, InBuffer(l)
  PROVE  /\ Segment(l) = <<".">> <=> (l.i_s = l.segment_s + 1 /\ l.buf[l.segment_s + 1] = ".")
         /\ Segment(l) = DotDot <=> /\ l.i_s = l.segment_s + 2
                                    /\ l.buf[l.segment_s + 1] = "."
                                    /\ l.buf[l.segment_s + 2] = "."
<1>1. /\ l.buf \in Text /\ l.segment_s \in Nat /\ l.i_s \in 0..Len(l.buf)
      /\ l.segment_s <= l.i_s
  BY DEF InBuffer, Text
<1> QED
  BY <1>1, PartIs DEF Segment

LEMMA NextIs ==
  ASSUME NEW s \in Text, NEW i \in Nat, i < Len(s)
  PROVE  LET next == SubSeq(s, i + 2, Len(s))
         IN /\ next = DotDot <=> (i + 3 = Len(s) /\ s[i + 2] = "." /\ s[i + 3] = ".")
            /\ Holds(next, 0, DotDot) <=> (i + 3 <= Len(s) /\ s[i + 2] = "." /\ s[i + 3] = ".")
            /\ Holds(next, 2, Slash) <=> (i + 4 <= Len(s) /\ s[i + 4] = "/")
<1> DEFINE next == SubSeq(s, i + 2, Len(s))
           k == i + 1
<1>0. /\ Len(s) \in Nat /\ k \in Nat /\ k <= Len(s) /\ Len(s) \in 0..Len(s)
      /\ k = i + 1 /\ k + 1 = i + 2 /\ k + 2 = i + 3
  BY DEF Text
<1> HIDE DEF k
<1>1. next = SubSeq(s, k + 1, Len(s))
  BY <1>0
<1> HIDE DEF next
<1>2. next = DotDot <=> (Len(s) = k + 2 /\ s[k + 1] = "." /\ s[k + 2] = ".")
  BY <1>0, <1>1, PartIs
<1>3. next \in Text /\ Len(next) = Len(s) - k /\ \A m \in 1..Len(s) - k : next[m] = s[k + m]
  BY <1>0, <1>1, PartOfText
<1>4. Len(DotDot) = 2 /\ Len(Slash) = 1
  BY DEF DotDot, Slash
<1>5. Holds(next, 0, DotDot) <=> (i + 3 <= Len(s) /\ s[i + 2] = "." /\ s[i + 3] = ".")
  <2>1. Holds(next, 0, DotDot) <=> (2 <= Len(next) /\ SubSeq(next, 0 + 1, 2) = DotDot)
    BY <1>4 DEF Holds
  <2> SUFFICES ASSUME 2 <= Len(next)
               PROVE  SubSeq(next, 0 + 1, 2) = DotDot <=> (s[i + 2] = "." /\ s[i + 3] = ".")
    BY <1>0, <1>3, <2>1
  <2>2. 2 \in 0..Len(next) /\ 0 \in Nat /\ 0 <= 2
    BY <1>0, <1>3
  <2>3. SubSeq(next, 0 + 1, 2) = DotDot <=> (2 = 0 + 2 /\ next[0 + 1] = "." /\ next[0 + 2] = ".")
    BY <1>3, <2>2, PartIs
  <2>4. next[1] = s[i + 2] /\ next[2] = s[i + 3]
    BY <1>0, <1>3
  <2> QED
    BY <2>3, <2>4
<1>6. Holds(next, 2, Slash) <=> (i + 4 <= Len(s) /\ s[i + 4] = "/")
  <2>1. Holds(next, 2, Slash) <=> (3 <= Len(next) /\ SubSeq(next, 2 + 1, 3) = Slash)
    BY <1>4 DEF Holds
  <2> SUFFICES ASSUME 3 <= Len(next)
               PROVE  SubSeq(next, 2 + 1, 3) = Slash <=> s[i + 4] = "/"
    BY <1>0, <1>3, <2>1
  <2>2. 3 \in 0..Len(next) /\ 2 \in Nat /\ 2 <= 3
    BY <1>0, <1>3
  <2>3. SubSeq(next, 2 + 1, 3) = Slash <=> (3 = 2 + 1 /\ next[2 + 1] = "/")
    BY <1>3, <2>2, PartIs
  <2>4. next[3] = s[i + 4]
    BY <1>0, <1>3
  <2> QED
    BY <2>3, <2>4
<1> QED
  BY <1>0, <1>2, <1>5, <1>6 DEF next

\* The values of the loops' variables after a pass.
LoopAt(s, i, j) == [buf |-> s, i_s |-> i, segment_s |-> j]

LEMMA LoopAtInBuffer ==
  ASSUME NEW s \in Text, NEW i \in 0..Len(s), NEW j \in 0..i
  PROVE  /\ InBuffer(LoopAt(s, i, j)) /\ LoopAt(s, i, j).buf = s
         /\ LoopAt(s, i, j).i_s = i /\ LoopAt(s, i, j).segment_s = j
  BY DEF InBuffer, LoopAt, Text

LEMMA InBufferIs ==
  ASSUME NEW l, InBuffer(l)
  PROVE  /\ l = LoopAt(l.buf, l.i_s, l.segment_s) /\ l.buf \in Text /\ Len(l.buf) \in Nat
         /\ l.i_s \in 0..Len(l.buf) /\ l.segment_s \in 0..l.i_s
  BY DEF InBuffer, LoopAt, Text

LEMMA PointPass ==
  ASSUME NEW l, InBuffer(l), l.i_s < Len(l.buf)
  PROVE  LET m == uriaa_remove_segment_point(l)
             b == l.buf
             i == l.i_s
             j == l.segment_s
             Point == i = j + 1 /\ b[j + 1] = "."
         IN \/ b[i + 1] # "/" /\ m = LoopAt(b, i + 1, j)
            \/ b[i + 1] = "/" /\ ~Point /\ m = LoopAt(b, i + 1, i + 1)
            \/ b[i + 1] = "/" /\ Point /\ m = LoopAt(Cut(b, j, i + 1), j, j)
<1> DEFINE b == l.buf
           i == l.i_s
           j == l.segment_s
           Point == i = j + 1 /\ b[j + 1] = "."
           m == uriaa_remove_segment_point(l)
           c == Cut(b, j, i + 1)
<1>1. l = LoopAt(b, i, j)
  BY InBufferIs
<1>2. m = IF b[i + 1] # "/" THEN Onward(l)
          ELSE IF Point
          THEN [l EXCEPT !.buf = c, !.i_s = j]
          ELSE [Onward(l) EXCEPT !.segment_s = l.i_s + 1]
  BY SegmentIs DEF uriaa_remove_segment_point, At
<1> HIDE DEF b, i, j, m, c
<1>3. l.buf = b /\ l.i_s = i /\ l.segment_s = j
  BY DEF b, i, j
<1>4. Onward(l) = LoopAt(b, i + 1, j)
  BY <1>1 DEF Onward, LoopAt
<1>5. [Onward(l) EXCEPT !.segment_s = l.i_s + 1] = LoopAt(b, i + 1, i + 1)
  BY <1>3, <1>4 DEF LoopAt
<1>6. [l EXCEPT !.buf = c, !.i_s = j] = LoopAt(c, j, j)
  <2> DEFINE r == [l EXCEPT !.buf = c, !.i_s = j]
             t == LoopAt(c, j, j)
             Names == {"buf", "i_s", "segment_s"}
  <2>1. r["buf"] = c /\ r["i_s"] = j /\ r["segment_s"] = j
    BY <1>1 DEF LoopAt
  <2>2. t["buf"] = c /\ t["i_s"] = j /\ t["segment_s"] = j
    BY DEF LoopAt
  <2>3. r = [x \in Names |-> r[x]] /\ t = [x \in Names |-> t[x]]
    BY <1>1 DEF LoopAt
  <2> HIDE DEF r, t
  <2>4. \A x \in Names : r[x] = t[x]
    BY <2>1, <2>2
  <2>5. r = t
    BY <2>3, <2>4
  <2> QED
    BY <2>5 DEF r, t
<1> QED
  BY <1>2, <1>4, <1>5, <1>6 DEF b, i, j, m, c

LEMMA PointsPass ==
  ASSUME NEW l, InBuffer(l), l.i_s < Len(l.buf)
  PROVE  LET m == uriaa_remove_segment_points(l)
             b == l.buf
             i == l.i_s
             j == l.segment_s
             Up == i = j + 2 /\ b[j + 1] = "." /\ b[j + 2] = "."
             Dots == i + 3 <= Len(b) /\ b[i + 2] = "." /\ b[i + 3] = "."
             More == i + 4 <= Len(b) /\ b[i + 4] = "/"
         IN \/ b[i + 1] # "/" /\ m = LoopAt(b, i + 1, j)
            \/ b[i + 1] = "/" /\ Up /\ m = LoopAt(b, i + 1, i + 1)
            \/ b[i + 1] = "/" /\ ~Dots /\ m = LoopAt(b, i + 1, i + 1)
            \/ b[i + 1] = "/" /\ Dots /\ More /\ m = LoopAt(Cut(b, j, i + 4), 0, 0)
            \/ b[i + 1] = "/" /\ Dots /\ i + 3 = Len(b) /\ m = LoopAt(Cut(b, j, i + 3), 0, 0)
            \/ b[i + 1] = "/" /\ Dots /\ ~More /\ i + 3 # Len(b) /\ m = LoopAt(b, i + 1, j)
<1> DEFINE b == l.buf
           i == l.i_s
           j == l.segment_s
           Up == i = j + 2 /\ b[j + 1] = "." /\ b[j + 2] = "."
           Dots == i + 3 <= Len(b) /\ b[i + 2] = "." /\ b[i + 3] = "."
           More == i + 4 <= Len(b) /\ b[i + 4] = "/"
           m == uriaa_remove_segment_points(l)
           next == SubSeq(l.buf, l.i_s + 2, Len(l.buf))
<1>1. /\ l = LoopAt(b, i, j) /\ b \in Text /\ Len(b) \in Nat /\ i \in Nat /\ i < Len(b)
  BY InBufferIs
<1>2. /\ next = DotDot <=> (i + 3 = Len(b) /\ b[i + 2] = "." /\ b[i + 3] = ".")
      /\ Holds(next, 0, DotDot) <=> Dots
      /\ Holds(next, 2, Slash) <=> More
  BY <1>1, NextIs
<1>3. Segment(l) = DotDot <=> Up
  BY SegmentIs
<1>4. m = IF At(l, l.i_s) # "/" THEN Onward(l)
          ELSE IF Segment(l) = DotDot THEN [Onward(l) EXCEPT !.segment_s = l.i_s + 1]
          ELSE IF Holds(next, 0, DotDot)
          THEN IF Holds(next, 2, Slash)
               THEN FromStart(Cut(l.buf, l.segment_s, l.i_s + 4))
               ELSE IF next = DotDot
               THEN FromStart(Cut(l.buf, l.segment_s, l.i_s + 3))
               ELSE Onward(l)
          ELSE [Onward(l) EXCEPT !.segment_s = l.i_s + 1]
  BY DEF uriaa_remove_segment_points
<1>5. At(l, l.i_s) = b[i + 1]
  BY DEF At
<1> HIDE DEF b, i, j, m, next
<1>6. l.buf = b /\ l.i_s = i /\ l.segment_s = j
  BY DEF b, i, j
<1>7. Onward(l) = LoopAt(b, i + 1, j)
  BY <1>1 DEF Onward, LoopAt
<1>8. [Onward(l) EXCEPT !.segment_s = l.i_s + 1] = LoopAt(b, i + 1, i + 1)
  BY <1>6, <1>7 DEF LoopAt
<1>9. \A s : FromStart(s) = LoopAt(s, 0, 0)
  BY DEF FromStart, LoopAt
<1> HIDE DEF Up, More
<1>10. m = IF b[i + 1] # "/" THEN LoopAt(b, i + 1, j)
           ELSE IF Up THEN LoopAt(b, i + 1, i + 1)
           ELSE IF Dots
           THEN IF More THEN LoopAt(Cut(b, j, i + 4), 0, 0)
                ELSE IF i + 3 = Len(b) THEN LoopAt(Cut(b, j, i + 3), 0, 0)
                ELSE LoopAt(b, i + 1, j)
           ELSE LoopAt(b, i + 1, i + 1)
  BY <1>2, <1>3, <1>4, <1>5, <1>6, <1>7, <1>8, <1>9
<1> HIDE DEF Dots
<1>11. \/ b[i + 1] # "/" /\ m = LoopAt(b, i + 1, j)
       \/ b[i + 1] = "/" /\ Up /\ m = LoopAt(b, i + 1, i + 1)
       \/ b[i + 1] = "/" /\ ~Dots /\ m = LoopAt(b, i + 1, i + 1)
       \/ b[i + 1] = "/" /\ Dots /\ More /\ m = LoopAt(Cut(b, j, i + 4), 0, 0)
       \/ b[i + 1] = "/" /\ Dots /\ i + 3 = Len(b) /\ m = LoopAt(Cut(b, j, i + 3), 0, 0)
       \/ b[i + 1] = "/" /\ Dots /\ ~More /\ i + 3 # Len(b) /\ m = LoopAt(b, i + 1, j)
  BY <1>10
<1> QED
  BY <1>11 DEF b, i, j, m, Up, Dots, More

-----------------------------------------------------------------------------
\* A scan at position i of s, in a segment that begins at j.
ScanAt(s, i, j) ==
  /\ s \in Text /\ i \in 0..Len(s) /\ j \in 0..i
  /\ j = 0 \/ s[j] = "/"

\* The first loop has left no segment "." before the segment it is in.
FirstScan(s, i, j) ==
  /\ ScanAt(s, i, j)
  /\ \A k \in j + 1..i : s[k] # "/"
  /\ \A k \in 0..j - 1 : ~PointAt(s, k)

\* The second loop: no segment "." at all, a segment ".." that has been passed
\* only at the start or behind another one; behind the start of the segment it
\* is in, the loop has passed none.
SecondScan(s, i, j) ==
  /\ ScanAt(s, i, j)
  /\ \A k \in Nat : ~PointAt(s, k)
  /\ \A k \in 0..j : PointsAt(s, k) => k = 0 \/ (k - 3 \in Nat /\ PointsAt(s, k - 3))
  /\ \A k \in j + 1..i : ~PointsAt(s, k)

\* One pass of the first loop.
LEMMA FirstPass ==
  ASSUME NEW s, NEW i, NEW j, FirstScan(s, i, j), i < Len(s)
  PROVE  /\ s[i + 1] # "/" => FirstScan(s, i + 1, j)
         /\ s[i + 1] = "/" /\ ~(i = j + 1 /\ s[j + 1] = ".") => FirstScan(s, i + 1, i + 1)
         /\ s[i + 1] = "/" /\ i = j + 1 => FirstScan(Cut(s, j, i + 1), j, j)
<1>1. /\ s \in Text /\ Len(s) \in Nat /\ i \in Nat /\ j \in Nat /\ i \in 0..Len(s) /\ j <= i
      /\ j = 0 \/ s[j] = "/"
  BY DEF FirstScan, ScanAt, Text
<1>2. ASSUME s[i + 1] # "/" PROVE FirstScan(s, i + 1, j)
  BY <1>1, <1>2 DEF FirstScan, ScanAt
<1>3. ASSUME s[i + 1] = "/", ~(i = j + 1 /\ s[j + 1] = ".")
      PROVE  FirstScan(s, i + 1, i + 1)
  <2>1. ASSUME NEW k \in 0..i PROVE ~PointAt(s, k)
    <3>1. CASE k < j
      BY <1>1, <3>1 DEF FirstScan
    <3>2. CASE k > j
      BY <1>1, <3>2 DEF FirstScan, PointAt
    <3>3. CASE k = j
      <4>1. i = j => s[j + 1] = "/"
        BY <1>3
      <4>2. i > j => j + 1 < Len(s)
        BY <1>1
      <4>3. i > j + 1 => s[j + 2] # "/"
        BY <1>1 DEF FirstScan
      <4> QED
        BY <1>1, <1>3, <3>3, <4>1, <4>2, <4>3 DEF PointAt
    <3> QED
      BY <1>1, <3>1, <3>2, <3>3
  <2> QED
    BY <1>1, <1>3, <2>1 DEF FirstScan, ScanAt
<1>4. ASSUME s[i + 1] = "/", i = j + 1 PROVE FirstScan(Cut(s, j, i + 1), j, j)
  <2> DEFINE t == Cut(s, j, i + 1)
  <2>1. /\ t \in Text /\ Len(t) = Len(s) - 2
        /\ \A m \in 1..j : t[m] = s[m]
    <3> DEFINE q == i + 1
    <3>1. q \in 0..Len(s) /\ j <= q /\ q - j = 2
      BY <1>1, <1>4
    <3> HIDE DEF q
    <3>2. /\ Cut(s, j, q) \in Text /\ Len(Cut(s, j, q)) = Len(s) - (q - j)
          /\ \A m \in 1..j : Cut(s, j, q)[m] = s[m]
      BY <1>1, <3>1, CutText
    <3> QED
      BY <3>1, <3>2 DEF q
  <2> HIDE DEF t
  <2>2. Len(t) \in Nat /\ j \in 0..Len(t) /\ (j = 0 \/ t[j] = "/")
    BY <1>1, <1>4, <2>1
  <2>3. ASSUME NEW k \in 0..j - 1 PROVE ~PointAt(t, k)
    <3>1. CASE k = j - 1
      BY <1>1, <2>2, <3>1 DEF PointAt
    <3>2. CASE k < j - 1
      <4>1. k \in 1..j \/ k = 0
        BY <1>1
      <4>2. t[k + 1] = s[k + 1] /\ t[k + 2] = s[k + 2] /\ (k # 0 => t[k] = s[k])
        BY <1>1, <2>1, <3>2
      <4>3. k + 1 # Len(t) /\ k \in 0..Len(s) - 1
        BY <1>1, <2>2, <3>2
      <4>4. PointAt(t, k) => PointAt(s, k)
        BY <4>2, <4>3 DEF PointAt
      <4> QED
        BY <4>4 DEF FirstScan
    <3> QED
      BY <1>1, <3>1, <3>2
  <2> QED
    BY <1>1, <2>1, <2>2, <2>3 DEF FirstScan, ScanAt, t
<1> QED
  BY <1>2, <1>3, <1>4

\* The end of the first loop: a last segment "." becomes "nul".
LEMMA FirstScanEnds ==
  ASSUME NEW s, NEW j, FirstScan(s, Len(s), j)
  PROVE  SecondScan(EndPoint(LoopAt(s, Len(s), j)), 0, 0)
<1> DEFINE t == EndPoint(LoopAt(s, Len(s), j))
           last == SubSeq(s, j + 1, Len(s))
<1>1. /\ s \in Text /\ Len(s) \in Nat /\ j \in 0..Len(s) /\ j \in Nat
      /\ j = 0 \/ s[j] = "/"
  BY DEF FirstScan, ScanAt, Text
<1>2. t = IF last = <<".">> THEN [s EXCEPT ![j + 1] = "nul"] ELSE s
  BY DEF EndPoint, LoopAt
<1>3. last = <<".">> <=> (Len(s) = j + 1 /\ s[j + 1] = ".")
  <2>1. Len(s) \in 0..Len(s) /\ j <= Len(s)
    BY <1>1
  <2> QED
    BY <1>1, <2>1, PartIs
<1> HIDE DEF t, last
<1>4. /\ t \in Text /\ Len(t) = Len(s) /\ \A m \in 1..j : t[m] = s[m]
      /\ last = <<".">> => t[j + 1] = "nul"
      /\ last # <<".">> => t = s
  <2>1. CASE last = <<".">>
    <3>1. t = [s EXCEPT ![j + 1] = "nul"] /\ j + 1 \in 1..Len(s)
      BY <1>1, <1>2, <1>3, <2>1
    <3>2. s \in [1..Len(s) -> Characters] /\ "nul" \in Characters
      BY <1>1 DEF Text, Characters
    <3>3. t \in [1..Len(s) -> Characters]
      BY <3>1, <3>2
    <3>4. t \in Seq(Characters) /\ Len(t) = Len(s)
      BY <1>1, <3>3
    <3>5. t[j + 1] = "nul" /\ \A m \in 1..j : t[m] = s[m]
      BY <1>1, <3>1, <3>2
    <3> QED
      BY <2>1, <3>4, <3>5 DEF Text
  <2>2. CASE last # <<".">>
    BY <1>1, <1>2, <2>2
  <2> QED
    BY <2>1, <2>2
<1>5. ASSUME NEW k \in Nat, PointAt(t, k) PROVE FALSE
  <2>1. k \in 0..Len(s) - 1 /\ t[k + 1] = "." /\ (k = 0 \/ t[k] = "/")
    BY <1>4, <1>5 DEF PointAt
  <2>2. CASE k < j
    <3>1. k + 1 \in 1..j
      BY <1>1, <2>2
    <3>2. k + 1 # j
      BY <1>1, <1>4, <2>1, <2>2
    <3>3. k + 2 \in 1..j /\ k + 1 # Len(s) /\ (k # 0 => k \in 1..j)
      BY <1>1, <2>2, <3>2
    <3>4. t[k + 1] = s[k + 1] /\ t[k + 2] = s[k + 2] /\ (k # 0 => t[k] = s[k])
      BY <1>4, <3>1, <3>3
    <3>5. PointAt(s, k)
      BY <1>4, <1>5, <3>3, <3>4 DEF PointAt
    <3> QED
      BY <1>1, <2>2, <3>5 DEF FirstScan
  <2>3. CASE k >= j /\ last = <<".">>
    <3>1. k = j
      BY <1>1, <1>3, <2>1, <2>3
    <3> QED
      BY <1>4, <2>1, <2>3, <3>1
  <2>4. CASE k >= j /\ last # <<".">>
    <3>1. PointAt(s, k)
      BY <1>4, <1>5, <2>4
    <3>2. k = j
      BY <1>1, <2>1, <2>4, <3>1 DEF FirstScan, PointAt
    <3>3. j + 1 = Len(s)
      <4>1. CASE s[k + 2] = "/" /\ k + 1 # Len(s)
        <5>1. k + 2 \in j + 1..Len(s)
          BY <1>1, <2>1, <3>2, <4>1
        <5> QED
          BY <4>1, <5>1 DEF FirstScan
      <4> QED
        BY <3>1, <3>2, <4>1 DEF PointAt
    <3> QED
      BY <1>3, <2>4, <3>1, <3>2, <3>3 DEF PointAt
  <2> QED
    BY <1>1, <2>1, <2>2, <2>3, <2>4
<1>6. SecondScan(t, 0, 0)
  BY <1>1, <1>4, <1>5 DEF SecondScan, ScanAt
<1> QED
  BY <1>6 DEF t

\* Cutting out whole segments makes no segment ".".
LEMMA CutMakesNoPoint ==
  ASSUME NEW s \in Text, NEW j \in Nat, NEW q \in 0..Len(s), j <= q,
         \A k \in Nat : ~PointAt(s, k),
         j = 0 \/ s[j] = "/", q = Len(s) \/ s[q] = "/"
  PROVE  \A k \in Nat : ~PointAt(Cut(s, j, q), k)
<1> DEFINE t == Cut(s, j, q)
           d == q - j
<1>1. /\ Len(s) \in Nat /\ d \in Nat /\ q = j + d /\ Len(s) - d \in Nat
  BY DEF Text
<1>2. /\ t \in Text /\ Len(t) = Len(s) - d
      /\ \A m \in 1..j : t[m] = s[m]
      /\ \A m \in j + 1..Len(s) - d : t[m] = s[m + d]
  BY CutText
<1> HIDE DEF t, d
<1> SUFFICES ASSUME NEW k \in Nat, PointAt(t, k) PROVE FALSE
  BY DEF t
<1>3. /\ k \in 0..Len(t) - 1 /\ t[k + 1] = "."
      /\ k = 0 \/ t[k] = "/"
      /\ k + 1 = Len(t) \/ t[k + 2] = "/"
  BY DEF PointAt
<1>4. CASE k + 1 = j
  BY <1>2, <1>3, <1>4
<1>5. CASE k + 1 < j
  <2>1. k + 1 \in 1..j /\ k + 2 \in 1..j /\ k + 1 # Len(t) /\ k + 1 # Len(s)
    BY <1>1, <1>2, <1>5
  <2>2. t[k + 1] = s[k + 1] /\ t[k + 2] = s[k + 2] /\ (k # 0 => t[k] = s[k])
    BY <1>2, <2>1
  <2>3. PointAt(s, k)
    BY <1>1, <1>3, <1>5, <2>1, <2>2 DEF PointAt
  <2> QED
    BY <2>3
<1>6. CASE j <= k
  <2>1. k + d \in 0..Len(s) - 1 /\ k + d \in Nat
    BY <1>1, <1>2, <1>3
  <2>2. q # Len(s)
    BY <1>1, <1>6, <2>1
  <2>3. s[(k + d) + 1] = "."
    BY <1>1, <1>2, <1>3, <1>6
  <2>4. s[k + d] = "/"
    <3>1. CASE k = j
      BY <1>1, <2>2, <3>1
    <3>2. CASE k > j
      BY <1>1, <1>2, <1>3, <3>2
    <3> QED
      BY <1>6, <3>1, <3>2
  <2>5. (k + d) + 1 = Len(s) \/ s[(k + d) + 2] = "/"
    <3>0. Len(s) \in Nat /\ d \in Nat /\ Len(t) = Len(s) - d /\ k \in 0..Len(t) - 1
      BY <1>1, <1>2, <1>3
    <3>1. CASE k + 1 = Len(t)
      <4>1. (k + d) + 1 = Len(s)
        BY <3>0, <3>1
      <4> QED
        BY <4>1
    <3>2. CASE k + 1 # Len(t)
      <4>1. k + 2 \in j + 1..Len(s) - d /\ (k + 2) + d = (k + d) + 2
        BY <1>6, <3>0, <3>2
      <4> QED
        BY <1>2, <1>3, <3>2, <4>1
    <3> QED
      BY <3>1, <3>2
  <2>6. PointAt(s, k + d)
    BY <2>1, <2>3, <2>4, <2>5 DEF PointAt
  <2> QED
    BY <2>1, <2>6
<1> QED
  BY <1>4, <1>5, <1>6

\* One pass of the second loop, by what it does.
LEMMA SecondPass ==
  ASSUME NEW s, NEW i, NEW j, SecondScan(s, i, j), i < Len(s)
  PROVE  LET Up == i = j + 2 /\ s[j + 1] = "." /\ s[j + 2] = "."
             Dots == i + 3 <= Len(s) /\ s[i + 2] = "." /\ s[i + 3] = "."
             More == i + 4 <= Len(s) /\ s[i + 4] = "/"
         IN /\ s[i + 1] # "/" => SecondScan(s, i + 1, j)
            /\ s[i + 1] = "/" /\ Up => SecondScan(s, i + 1, i + 1)
            /\ s[i + 1] = "/" /\ ~Dots => SecondScan(s, i + 1, i + 1)
            /\ Dots /\ More => SecondScan(Cut(s, j, i + 4), 0, 0)
            /\ Dots /\ i + 3 = Len(s) => SecondScan(Cut(s, j, i + 3), 0, 0)
            /\ Dots /\ ~More /\ i + 3 # Len(s) => SecondScan(s, i + 1, j)
<1> DEFINE Up == i = j + 2 /\ s[j + 1] = "." /\ s[j + 2] = "."
           Dots == i + 3 <= Len(s) /\ s[i + 2] = "." /\ s[i + 3] = "."
           More == i + 4 <= Len(s) /\ s[i + 4] = "/"
<1>1. /\ s \in Text /\ Len(s) \in Nat /\ i \in Nat /\ j \in Nat /\ i \in 0..Len(s) /\ j <= i
      /\ j = 0 \/ s[j] = "/"
      /\ \A k \in Nat : ~PointAt(s, k)
  BY DEF SecondScan, ScanAt, Text
<1>2. /\ \A k \in 0..j : PointsAt(s, k) => k = 0 \/ (k - 3 \in Nat /\ PointsAt(s, k - 3))
      /\ \A k \in j + 1..i : ~PointsAt(s, k)
  BY DEF SecondScan
<1>3. ASSUME ~PointsAt(s, i + 1) PROVE SecondScan(s, i + 1, j)
  <2>1. \A k \in j + 1..i + 1 : ~PointsAt(s, k)
    BY <1>1, <1>2, <1>3
  <2>2. ScanAt(s, i + 1, j)
    BY <1>1 DEF ScanAt
  <2> QED
    BY <1>1, <1>2, <2>1, <2>2 DEF SecondScan
<1>4. ASSUME s[i + 1] = "/",
             PointsAt(s, i + 1) => i - 2 \in Nat /\ PointsAt(s, i - 2)
      PROVE  SecondScan(s, i + 1, i + 1)
  <2>1. ASSUME NEW k \in 0..i + 1, PointsAt(s, k)
        PROVE  k = 0 \/ (k - 3 \in Nat /\ PointsAt(s, k - 3))
    <3>1. CASE k \in 0..j
      BY <1>2, <2>1, <3>1
    <3>2. CASE k \in j + 1..i
      BY <1>2, <2>1, <3>2
    <3>3. CASE k = i + 1
      <4>1. k - 3 = i - 2
        BY <1>1, <3>3
      <4> QED
        BY <1>4, <2>1, <3>3, <4>1
    <3> QED
      BY <1>1, <3>1, <3>2, <3>3
  <2>2. ScanAt(s, i + 1, i + 1)
    BY <1>1, <1>4 DEF ScanAt
  <2>3. \A k \in (i + 1) + 1..i + 1 : ~PointsAt(s, k)
    BY <1>1
  <2> QED
    BY <1>1, <2>1, <2>2, <2>3 DEF SecondScan
<1>5. ASSUME NEW q \in 0..Len(s), j <= q, q = Len(s) \/ s[q] = "/"
      PROVE  SecondScan(Cut(s, j, q), 0, 0)
  <2> DEFINE t == Cut(s, j, q)
  <2>1. \A k \in Nat : ~PointAt(t, k)
    BY <1>1, <1>5, CutMakesNoPoint
  <2>2. t \in Text
    BY <1>1, <1>5, CutText
  <2> HIDE DEF t
  <2>3. Len(t) \in Nat
    BY <2>2 DEF Text
  <2>4. SecondScan(t, 0, 0)
    BY <2>1, <2>2, <2>3 DEF SecondScan, ScanAt
  <2> QED
    BY <2>4 DEF t
<1>6. ASSUME s[i + 1] # "/" PROVE SecondScan(s, i + 1, j)
  <2>1. ~PointsAt(s, i + 1)
    BY <1>1, <1>6 DEF PointsAt
  <2> QED
    BY <1>3, <2>1
<1>7. ASSUME s[i + 1] = "/", Up PROVE SecondScan(s, i + 1, i + 1)
  <2>1. i - 2 \in Nat /\ i - 2 = j
    BY <1>1, <1>7
  <2>2. PointsAt(s, j)
    BY <1>1, <1>7 DEF PointsAt
  <2> QED
    BY <1>4, <1>7, <2>1, <2>2
<1>8. ASSUME s[i + 1] = "/", ~Dots PROVE SecondScan(s, i + 1, i + 1)
  <2>1. ~PointsAt(s, i + 1)
    <3> SUFFICES ASSUME PointsAt(s, i + 1) PROVE FALSE
      OBVIOUS
    <3>1. /\ i + 1 \in 0..Len(s) - 2 /\ s[(i + 1) + 1] = "." /\ s[(i + 1) + 2] = "."
      BY DEF PointsAt
    <3>2. (i + 1) + 1 = i + 2 /\ (i + 1) + 2 = i + 3 /\ i + 3 <= Len(s)
      BY <1>1, <3>1
    <3> QED
      BY <1>8, <3>1, <3>2
  <2> QED
    BY <1>4, <1>8, <2>1
<1>9. ASSUME Dots, More PROVE SecondScan(Cut(s, j, i + 4), 0, 0)
  <2>1. i + 4 \in 0..Len(s) /\ j <= i + 4
    BY <1>1, <1>9
  <2> QED
    BY <1>5, <1>9, <2>1
<1>10. ASSUME Dots, i + 3 = Len(s) PROVE SecondScan(Cut(s, j, i + 3), 0, 0)
  <2>1. i + 3 \in 0..Len(s) /\ j <= i + 3
    BY <1>1, <1>10
  <2> QED
    BY <1>5, <1>10, <2>1
<1>11. ASSUME Dots, ~More, i + 3 # Len(s) PROVE SecondScan(s, i + 1, j)
  <2>1. ~PointsAt(s, i + 1)
    <3> SUFFICES ASSUME PointsAt(s, i + 1) PROVE FALSE
      OBVIOUS
    <3>1. i + 1 \in 0..Len(s) - 2 /\ ((i + 1) + 2 = Len(s) \/ s[(i + 1) + 3] = "/")
      BY DEF PointsAt
    <3>2. (i + 1) + 2 = i + 3 /\ (i + 1) + 3 = i + 4 /\ i + 3 <= Len(s)
      BY <1>1, <3>1
    <3>3. i + 4 <= Len(s) /\ s[i + 4] = "/"
      BY <1>1, <1>11, <3>1, <3>2
    <3> QED
      BY <1>11, <3>3
  <2> QED
    BY <1>3, <2>1
<1> QED
  BY <1>6, <1>7, <1>8, <1>9, <1>10, <1>11

\* Where both loops have ended and the path does not begin with "..".
LEMMA NoDotsLeft ==
  ASSUME NEW s, NEW j, SecondScan(s, Len(s), j), ~Climbs(s)
  PROVE  NoDots(s)
<1>1. /\ s \in Text /\ Len(s) \in Nat /\ j \in 0..Len(s)
      /\ \A k \in Nat : ~PointAt(s, k)
  BY DEF SecondScan, ScanAt, Text
<1>2. ASSUME NEW k \in Nat, PointsAt(s, k)
      PROVE  k = 0 \/ (k - 3 \in Nat /\ PointsAt(s, k - 3))
  <2>1. k \in 0..Len(s)
    BY <1>1, <1>2 DEF PointsAt
  <2>2. k \in 0..j \/ k \in j + 1..Len(s)
    BY <1>1, <2>1
  <2> QED
    BY <1>2, <2>2 DEF SecondScan
<1>3. ~PointsAt(s, 0)
  <2> SUFFICES ASSUME PointsAt(s, 0) PROVE Climbs(s)
    OBVIOUS
  <2>1. /\ 2 <= Len(s) /\ s[1] = "." /\ s[2] = "."
        /\ 2 = Len(s) \/ s[3] = "/"
    BY <1>1 DEF PointsAt
  <2>2. SubSeq(s, 0 + 1, 2) = DotDot <=> (2 = 0 + 2 /\ s[0 + 1] = "." /\ s[0 + 2] = ".")
    <3>1. 2 \in 0..Len(s) /\ 0 \in Nat /\ 0 <= 2
      BY <1>1, <2>1
    <3> QED
      BY <1>1, <3>1, PartIs
  <2>3. Len(DotDot) = 2
    BY DEF DotDot
  <2>4. Holds(s, 0, DotDot)
    BY <2>1, <2>2, <2>3 DEF Holds
  <2>5. 0 \in 0..Len(s) /\ \A m \in 1..0 : s[m] = "/"
    BY <1>1
  <2> QED
    BY <2>1, <2>4, <2>5 DEF Climbs
<1>4. ASSUME NEW k \in Nat, PointsAt(s, k) PROVE FALSE
  <2> DEFINE T == {m \in Nat : PointsAt(s, m)}
  <2>1. T \subseteq Nat /\ T # {}
    BY <1>4
  <2>2. PICK m \in T : \A y \in T : m <= y
    BY <2>1, Grammar!LeastElement
  <2>3. m # 0 /\ m - 3 \in Nat /\ PointsAt(s, m - 3)
    BY <1>2, <1>3, <2>2
  <2>4. m <= m - 3 /\ m \in Nat
    BY <2>2, <2>3
  <2> QED
    BY <2>4
<1> QED
  BY <1>1, <1>4 DEF NoDots

\* The base's directory is a text.
LEMMA DirectoryType ==
  ASSUME NEW s \in Text
  PROVE  Directory(s) \in Text
<1>1. Len(s) \in Nat
  BY DEF Text
<1>2. CASE \A k \in 1..Len(s) : s[k] # "/"
  BY <1>2 DEF Directory
<1>3. CASE ~\A k \in 1..Len(s) : s[k] # "/"
  <2> DEFINE IsLast(k) == s[k] = "/" /\ \A j \in k + 1..Len(s) : s[j] # "/"
             last == CHOOSE k \in 1..Len(s) : IsLast(k)
             T == {m \in Nat : m < Len(s) /\ s[Len(s) - m] = "/"}
  <2>1. T # {} /\ T \subseteq Nat
    <3>1. PICK k \in 1..Len(s) : s[k] = "/"
      BY <1>3
    <3>2. Len(s) - k \in Nat /\ Len(s) - k < Len(s) /\ Len(s) - (Len(s) - k) = k
      BY <1>1
    <3>3. Len(s) - k \in T
      BY <3>1, <3>2
    <3> QED
      BY <3>3
  <2>2. PICK m \in T : \A y \in T : m <= y
    BY <2>1, Grammar!LeastElement
  <2>3. Len(s) - m \in 1..Len(s) /\ s[Len(s) - m] = "/"
    BY <1>1, <2>2
  <2>4. ASSUME NEW j \in (Len(s) - m) + 1..Len(s) PROVE s[j] # "/"
    <3>1. Len(s) - j \in Nat /\ Len(s) - j < m /\ Len(s) - (Len(s) - j) = j
      BY <1>1, <2>2
    <3>2. Len(s) - j \notin T
      BY <2>2, <3>1
    <3>3. Len(s) - j < Len(s)
      BY <1>1, <2>2, <3>1
    <3> QED
      BY <3>1, <3>2, <3>3
  <2>5. IsLast(Len(s) - m)
    BY <2>3, <2>4
  <2> HIDE DEF IsLast
  <2>6. last \in 1..Len(s)
    BY <2>3, <2>5
  <2>7. Directory(s) = SubSeq(s, 1, last)
    BY <1>3 DEF Directory, IsLast
  <2> HIDE DEF last
  <2>8. last \in 0..Len(s) /\ 0 \in Nat /\ 0 <= last
    BY <1>1, <2>6
  <2>9. SubSeq(s, 0 + 1, last) \in Text
    BY <2>8, PartOfText
  <2> QED
    BY <2>7, <2>9
<1> QED
  BY <1>2, <1>3

-----------------------------------------------------------------------------
PCs == {"base", "reference", "start", "merge", "direct", "point", "points", "compose", "done"}

Shape ==
  /\ pc \in PCs /\ answer \in -1..3 /\ (pc # "done" => answer = -1)
  /\ text \in Text /\ (pc \in {"base", "reference"} => uri \in Text)
  /\ base_uri \in ComponentTexts /\ relative_uri \in ComponentTexts
Scans ==
  /\ InBuffer(loop)
  /\ pc \in {"base", "reference", "start", "merge", "direct"} => loop = FromStart(<< >>)
  /\ pc = "point" => FirstScan(loop.buf, loop.i_s, loop.segment_s)
  /\ pc = "points" => SecondScan(loop.buf, loop.i_s, loop.segment_s)
\* What Verdict has let pass.
BufferWithoutDots == pc = "compose" \/ answer = 1 => NoDots(loop.buf)
ResolveInv == Shape /\ Scans /\ BufferWithoutDots

LEMMA EmptyBuffer ==
  /\ InBuffer(FromStart(<< >>)) /\ FromStart(<< >>).buf = << >> /\ NoDots(<< >>)
<1>1. << >> \in Text /\ Len(<< >>) = 0
  BY DEF Text
<1>2. NoDots(<< >>)
  BY <1>1 DEF NoDots, PointAt, PointsAt
<1> QED
  BY <1>1, <1>2 DEF InBuffer, FromStart

LEMMA ResolveInit == Init => ResolveInv
<1> SUFFICES ASSUME Init PROVE ResolveInv
  OBVIOUS
<1>1. uri \in Text /\ text \in Text
  <2>1. uri \in Seq(STRING) /\ text \in Seq(STRING)
    BY TextsAssumption DEF Init
  <2>2. ASSUME NEW s \in Seq(STRING) PROVE s \in Text
    <3>1. STRING \subseteq Characters
      BY DEF Characters
    <3> DEFINE S == STRING
               C == Characters
    <3>2. S \subseteq C /\ s \in Seq(S)
      BY <3>1
    <3> HIDE DEF S, C
    <3>3. s \in Seq(C)
      BY <3>2
    <3> QED
      BY <3>3 DEF C, Text
  <2> QED
    BY <2>1, <2>2
<1>2. Nothing \in ComponentTexts
  <2>1. << >> \in Text
    BY DEF Text
  <2> QED
    BY <2>1 DEF Nothing, ComponentTexts
<1> QED
  BY <1>1, <1>2, EmptyBuffer DEF Init, ResolveInv, Shape, Scans, BufferWithoutDots, PCs

\* A scan that begins: nothing has been passed.
LEMMA ScanBegins ==
  ASSUME NEW s \in Text
  PROVE  /\ FirstScan(s, 0, 0) /\ FromStart(s) = LoopAt(s, 0, 0) /\ InBuffer(FromStart(s))
         /\ FromStart(s).buf = s /\ FromStart(s).i_s = 0 /\ FromStart(s).segment_s = 0
<1>1. Len(s) \in Nat
  BY DEF Text
<1> QED
  BY <1>1 DEF FirstScan, ScanAt, FromStart, LoopAt, InBuffer

\* A pass of the first loop.
LEMMA RemovePointKeeps ==
  ASSUME ResolveInv, RemovePoint
  PROVE  ResolveInv' /\ Progress(loop, loop')
<1> DEFINE b == loop.buf
           i == loop.i_s
           j == loop.segment_s
           m == uriaa_remove_segment_point(loop)
<1>1. pc = "point" /\ InBuffer(loop) /\ FirstScan(b, i, j) /\ i < Len(b) /\ loop' = m
  BY DEF RemovePoint, ResolveInv, Scans
<1>2. /\ b \in Text /\ Len(b) \in Nat /\ i \in Nat /\ i \in 0..Len(b) /\ j \in 0..i /\ j \in Nat
  BY <1>1, InBufferIs
<1>3. \/ b[i + 1] # "/" /\ m = LoopAt(b, i + 1, j)
      \/ b[i + 1] = "/" /\ ~(i = j + 1 /\ b[j + 1] = ".") /\ m = LoopAt(b, i + 1, i + 1)
      \/ b[i + 1] = "/" /\ (i = j + 1 /\ b[j + 1] = ".") /\ m = LoopAt(Cut(b, j, i + 1), j, j)
  BY <1>1, PointPass
<1> HIDE DEF b, i, j, m
<1>4. \E s, k, n : FirstScan(s, k, n) /\ m = LoopAt(s, k, n)
                   /\ (Len(s) < Len(b) \/ (s = b /\ k = i + 1))
  <2>1. CASE b[i + 1] # "/" /\ m = LoopAt(b, i + 1, j)
    <3>1. FirstScan(b, i + 1, j)
      BY <1>1, <2>1, FirstPass
    <3> QED
      BY <2>1, <3>1
  <2>2. CASE b[i + 1] = "/" /\ ~(i = j + 1 /\ b[j + 1] = ".") /\ m = LoopAt(b, i + 1, i + 1)
    <3>1. FirstScan(b, i + 1, i + 1)
      BY <1>1, <2>2, FirstPass
    <3> QED
      BY <2>2, <3>1
  <2>3. CASE b[i + 1] = "/" /\ (i = j + 1 /\ b[j + 1] = ".") /\ m = LoopAt(Cut(b, j, i + 1), j, j)
    <3>1. FirstScan(Cut(b, j, i + 1), j, j)
      BY <1>1, <2>3, FirstPass
    <3> DEFINE q == i + 1
    <3>2. q \in 0..Len(b) /\ j <= q /\ q - j > 0 /\ q - j \in Nat
      BY <1>1, <1>2
    <3> HIDE DEF q
    <3>3. Len(Cut(b, j, q)) = Len(b) - (q - j)
      BY <1>2, <3>2, CutText
    <3>4. Len(Cut(b, j, q)) < Len(b)
      BY <1>2, <3>2, <3>3
    <3> QED
      BY <2>3, <3>1, <3>4 DEF q
  <2> QED
    BY <1>3, <2>1, <2>2, <2>3
<1>5. PICK s, k, n : FirstScan(s, k, n) /\ m = LoopAt(s, k, n)
                     /\ (Len(s) < Len(b) \/ (s = b /\ k = i + 1))
  BY <1>4
<1>6. s \in Text /\ k \in 0..Len(s) /\ n \in 0..k
  BY <1>5 DEF FirstScan, ScanAt
<1>7. InBuffer(m) /\ m.buf = s /\ m.i_s = k /\ m.segment_s = n
  BY <1>5, <1>6, LoopAtInBuffer
<1>8. Scans'
  BY <1>1, <1>5, <1>7 DEF RemovePoint, Scans
<1>9. Shape' /\ BufferWithoutDots'
  BY <1>1 DEF RemovePoint, ResolveInv, Shape, BufferWithoutDots, PCs
<1> QED
  BY <1>1, <1>5, <1>7, <1>8, <1>9 DEF ResolveInv, Progress, b, i

\* A pass of the second loop.
LEMMA RemovePointsKeeps ==
  ASSUME ResolveInv, RemovePoints
  PROVE  ResolveInv' /\ Progress(loop, loop')
<1> DEFINE b == loop.buf
           i == loop.i_s
           j == loop.segment_s
           m == uriaa_remove_segment_points(loop)
           Up == i = j + 2 /\ b[j + 1] = "." /\ b[j + 2] = "."
           Dots == i + 3 <= Len(b) /\ b[i + 2] = "." /\ b[i + 3] = "."
           More == i + 4 <= Len(b) /\ b[i + 4] = "/"
<1>1. pc = "points" /\ InBuffer(loop) /\ SecondScan(b, i, j) /\ i < Len(b) /\ loop' = m
  BY DEF RemovePoints, ResolveInv, Scans
<1>2. /\ b \in Text /\ Len(b) \in Nat /\ i \in Nat /\ i \in 0..Len(b) /\ j \in 0..i /\ j \in Nat
  BY <1>1, InBufferIs
<1>3. \/ b[i + 1] # "/" /\ m = LoopAt(b, i + 1, j)
      \/ b[i + 1] = "/" /\ Up /\ m = LoopAt(b, i + 1, i + 1)
      \/ b[i + 1] = "/" /\ ~Dots /\ m = LoopAt(b, i + 1, i + 1)
      \/ b[i + 1] = "/" /\ Dots /\ More /\ m = LoopAt(Cut(b, j, i + 4), 0, 0)
      \/ b[i + 1] = "/" /\ Dots /\ i + 3 = Len(b) /\ m = LoopAt(Cut(b, j, i + 3), 0, 0)
      \/ b[i + 1] = "/" /\ Dots /\ ~More /\ i + 3 # Len(b) /\ m = LoopAt(b, i + 1, j)
  BY <1>1, PointsPass
<1>4. /\ b[i + 1] # "/" => SecondScan(b, i + 1, j)
      /\ b[i + 1] = "/" /\ Up => SecondScan(b, i + 1, i + 1)
      /\ b[i + 1] = "/" /\ ~Dots => SecondScan(b, i + 1, i + 1)
      /\ Dots /\ More => SecondScan(Cut(b, j, i + 4), 0, 0)
      /\ Dots /\ i + 3 = Len(b) => SecondScan(Cut(b, j, i + 3), 0, 0)
      /\ Dots /\ ~More /\ i + 3 # Len(b) => SecondScan(b, i + 1, j)
  <2> HIDE DEF b, i, j
  <2> QED
    BY <1>1, SecondPass
<1>5. Dots => i + 3 <= Len(b)
  OBVIOUS
<1>6. Dots /\ More => i + 4 <= Len(b)
  OBVIOUS
<1> HIDE DEF b, i, j, m, Up, Dots, More
<1>7. ASSUME NEW q \in {i + 3, i + 4}, q <= Len(b)
      PROVE  Len(Cut(b, j, q)) < Len(b)
  <2>1. q \in 0..Len(b) /\ j <= q /\ q - j > 0 /\ q - j \in Nat
    BY <1>2, <1>7
  <2>2. Len(Cut(b, j, q)) = Len(b) - (q - j)
    BY <1>2, <2>1, CutText
  <2> QED
    BY <1>2, <2>1, <2>2
<1>8. \E s, k, n : SecondScan(s, k, n) /\ m = LoopAt(s, k, n)
                   /\ (Len(s) < Len(b) \/ (s = b /\ k = i + 1))
  BY <1>3, <1>4, <1>5, <1>6, <1>7
<1>9. PICK s, k, n : SecondScan(s, k, n) /\ m = LoopAt(s, k, n)
                     /\ (Len(s) < Len(b) \/ (s = b /\ k = i + 1))
  BY <1>8
<1>10. s \in Text /\ k \in 0..Len(s) /\ n \in 0..k
  BY <1>9 DEF SecondScan, ScanAt
<1>11. InBuffer(m) /\ m.buf = s /\ m.i_s = k /\ m.segment_s = n
  BY <1>9, <1>10, LoopAtInBuffer
<1>12. Scans'
  BY <1>1, <1>9, <1>11 DEF RemovePoints, Scans
<1>13. Shape' /\ BufferWithoutDots'
  BY <1>1 DEF RemovePoints, ResolveInv, Shape, BufferWithoutDots, PCs
<1> QED
  BY <1>1, <1>9, <1>11, <1>12, <1>13 DEF ResolveInv, Progress, b, i

\* The actions outside of the loops.
LEMMA CheckBaseKeeps == ASSUME ResolveInv, CheckBase PROVE ResolveInv'
<1>1. pc = "base" /\ uri \in Text /\ text \in Text /\ loop = FromStart(<< >>) /\ answer = -1
  BY DEF CheckBase, ResolveInv, Shape, Scans
<1> DEFINE u == Grammar!uriaa_check_url(Grammar!NoFields)
<1>2. /\ base_uri' = Components(u.f) /\ pc' = (IF u.ok THEN "reference" ELSE "done")
      /\ uri' = text /\ UNCHANGED <<text, relative_uri, merged, loop, answer>>
  BY DEF CheckBase
<1>3. Components(u.f) \in ComponentTexts
  BY <1>1, ParsedComponents
<1> HIDE DEF u
<1>4. base_uri' \in ComponentTexts /\ pc' \in {"reference", "done"}
  BY <1>2, <1>3
<1>5. Shape'
  BY <1>1, <1>2, <1>4 DEF ResolveInv, Shape, PCs
<1>6. Scans' /\ BufferWithoutDots'
  BY <1>1, <1>2, <1>4, EmptyBuffer DEF ResolveInv, Scans, BufferWithoutDots
<1> QED
  BY <1>5, <1>6 DEF ResolveInv

LEMMA CheckReferenceKeeps == ASSUME ResolveInv, CheckReference PROVE ResolveInv'
<1>1. pc = "reference" /\ uri \in Text /\ loop = FromStart(<< >>) /\ answer = -1
  BY DEF CheckReference, ResolveInv, Shape, Scans
<1> DEFINE u == Grammar!uriaa_check_url(Grammar!NoFields)
<1>2. /\ relative_uri' = Components(u.f) /\ pc' = (IF u.ok THEN "start" ELSE "done")
      /\ UNCHANGED <<text, base_uri, merged, loop, answer>>
  BY DEF CheckReference
<1>3. Components(u.f) \in ComponentTexts
  BY <1>1, ParsedComponents
<1> HIDE DEF u
<1>4. relative_uri' \in ComponentTexts /\ pc' \in {"start", "done"}
  BY <1>2, <1>3
<1>5. Shape'
  BY <1>1, <1>2, <1>4 DEF ResolveInv, Shape, PCs
<1>6. Scans' /\ BufferWithoutDots'
  BY <1>1, <1>2, <1>4, EmptyBuffer DEF ResolveInv, Scans, BufferWithoutDots
<1> QED
  BY <1>5, <1>6 DEF ResolveInv

LEMMA StartKeeps == ASSUME ResolveInv, Start PROVE ResolveInv'
<1>1. pc = "start" /\ loop = FromStart(<< >>) /\ answer = -1
  BY DEF Start, ResolveInv, Shape, Scans
<1>2. base_uri \in ComponentTexts /\ relative_uri \in ComponentTexts
  BY DEF ResolveInv, Shape
<1>3. UNCHANGED <<text, base_uri, merged, loop, uri>>
  BY DEF Start
<1>4. \/ answer' \in {2, 3} /\ pc' = "done" /\ relative_uri' = relative_uri
      \/ /\ relative_uri' = [relative_uri EXCEPT !["scheme"] = base_uri["scheme"],
                                                 !["authority"] = IF @.init THEN @
                                                                  ELSE base_uri["authority"]]
         /\ pc' \in {"direct", "merge"} /\ answer' = answer
  BY DEF Start, Return
<1>5. relative_uri' \in ComponentTexts
  <2>1. {"scheme", "authority"} \subseteq Grammar!Fields
    BY DEF Grammar!Fields
  <2> QED
    BY <1>2, <1>4, <2>1 DEF ComponentTexts
<1>6. Shape'
  BY <1>1, <1>3, <1>4, <1>5 DEF ResolveInv, Shape, PCs
<1>7. Scans' /\ BufferWithoutDots'
  BY <1>1, <1>3, <1>4, EmptyBuffer DEF ResolveInv, Scans, BufferWithoutDots
<1> QED
  BY <1>6, <1>7 DEF ResolveInv

LEMMA MergeKeeps == ASSUME ResolveInv, Merge PROVE ResolveInv'
<1> DEFINE dir == IF IsSet(base_uri, "abs_path") THEN Directory(base_uri["abs_path"].text)
                  ELSE << >>
           rel == IF IsSet(relative_uri, "rel_path") THEN relative_uri["rel_path"].text
                  ELSE << >>
           s == dir \o rel
<1>1. pc = "merge" /\ answer = -1
  BY DEF Merge, ResolveInv, Shape
<1>2. /\ loop' = FromStart(s) /\ pc' = "point"
      /\ UNCHANGED <<text, base_uri, relative_uri, answer, uri>>
  BY DEF Merge
<1>3. s \in Text
  <2>1. << >> \in Text
    BY DEF Text
  <2>2. base_uri["abs_path"].text \in Text /\ relative_uri["rel_path"].text \in Text
    <3>1. {"abs_path", "rel_path"} \subseteq Grammar!Fields
      BY DEF Grammar!Fields
    <3> QED
      BY <3>1 DEF ResolveInv, Shape, ComponentTexts
  <2>3. dir \in Text /\ rel \in Text
    BY <2>1, <2>2, DirectoryType
  <2> HIDE DEF dir, rel
  <2> QED
    BY <2>3, ConcatProperties DEF Text
<1> HIDE DEF s
<1>4. Shape'
  BY <1>1, <1>2 DEF ResolveInv, Shape, PCs
<1>5. Scans'
  BY <1>2, <1>3, ScanBegins DEF Scans
<1>6. BufferWithoutDots'
  BY <1>1, <1>2 DEF BufferWithoutDots
<1> QED
  BY <1>4, <1>5, <1>6 DEF ResolveInv

LEMMA PointsRemovedKeeps == ASSUME ResolveInv, PointsRemoved PROVE ResolveInv'
<1> DEFINE s == EndPoint(loop)
<1>1. /\ pc = "point" /\ InBuffer(loop) /\ loop.i_s >= Len(loop.buf) /\ answer = -1
      /\ FirstScan(loop.buf, loop.i_s, loop.segment_s)
  BY DEF PointsRemoved, ResolveInv, Shape, Scans
<1>2. /\ loop' = FromStart(s) /\ pc' = "points"
      /\ UNCHANGED <<text, base_uri, relative_uri, merged, answer, uri>>
  BY DEF PointsRemoved
<1>3. /\ loop.i_s = Len(loop.buf)
      /\ loop = LoopAt(loop.buf, Len(loop.buf), loop.segment_s)
  BY <1>1, InBufferIs
<1>4. FirstScan(loop.buf, Len(loop.buf), loop.segment_s)
  BY <1>1, <1>3
<1>5. SecondScan(EndPoint(LoopAt(loop.buf, Len(loop.buf), loop.segment_s)), 0, 0)
  BY <1>4, FirstScanEnds
<1>6. SecondScan(s, 0, 0)
  BY <1>3, <1>5
<1> HIDE DEF s
<1>7. s \in Text
  BY <1>6 DEF SecondScan, ScanAt
<1>8. Shape'
  BY <1>1, <1>2 DEF ResolveInv, Shape, PCs
<1>9. Scans'
  BY <1>2, <1>6, <1>7, ScanBegins DEF Scans
<1>10. BufferWithoutDots'
  BY <1>1, <1>2 DEF BufferWithoutDots
<1> QED
  BY <1>8, <1>9, <1>10 DEF ResolveInv

LEMMA VerdictKeeps == ASSUME ResolveInv, Verdict PROVE ResolveInv'
<1>1. /\ pc = "points" /\ InBuffer(loop) /\ loop.i_s >= Len(loop.buf) /\ answer = -1
      /\ SecondScan(loop.buf, loop.i_s, loop.segment_s)
  BY DEF Verdict, ResolveInv, Shape, Scans
<1>2. UNCHANGED <<text, base_uri, relative_uri, merged, loop, uri>>
  BY DEF Verdict
<1>3. \/ answer' = 0 /\ pc' = "done"
      \/ ~Climbs(loop.buf) /\ pc' = "compose" /\ answer' = answer
  BY DEF Verdict, Return
<1>4. loop.i_s = Len(loop.buf)
  BY <1>1, InBufferIs
<1>5. SecondScan(loop.buf, Len(loop.buf), loop.segment_s)
  BY <1>1, <1>4
<1>6. ~Climbs(loop.buf) => NoDots(loop.buf)
  BY <1>5, NoDotsLeft
<1>7. Shape'
  BY <1>1, <1>2, <1>3 DEF ResolveInv, Shape, PCs
<1>8. Scans'
  BY <1>1, <1>2, <1>3 DEF Scans
<1>9. BufferWithoutDots'
  BY <1>1, <1>2, <1>3, <1>6 DEF BufferWithoutDots
<1> QED
  BY <1>7, <1>8, <1>9 DEF ResolveInv

LEMMA ComposeKeeps == ASSUME ResolveInv, Compose PROVE ResolveInv'
<1>1. /\ pc \in {"direct", "compose"} /\ pc' = "done" /\ answer' = 1
      /\ UNCHANGED <<text, base_uri, relative_uri, merged, loop>>
  BY DEF Compose, Return
<1>2. NoDots(loop.buf)
  BY <1>1, EmptyBuffer DEF ResolveInv, Scans, BufferWithoutDots
<1>3. Shape'
  BY <1>1 DEF ResolveInv, Shape, PCs
<1>4. Scans' /\ BufferWithoutDots'
  BY <1>1, <1>2 DEF ResolveInv, Scans, BufferWithoutDots
<1> QED
  BY <1>3, <1>4 DEF ResolveInv

LEMMA NoMemoryKeeps == ASSUME ResolveInv, NoMemory PROVE ResolveInv'
<1>1. /\ pc \in {"merge", "direct", "compose"} /\ pc' = "done" /\ answer' = 0
      /\ UNCHANGED <<text, base_uri, relative_uri, merged, loop, uri>>
  BY DEF NoMemory, Return
<1>2. Shape'
  BY <1>1 DEF ResolveInv, Shape, PCs
<1>3. Scans' /\ BufferWithoutDots'
  BY <1>1 DEF ResolveInv, Scans, BufferWithoutDots
<1> QED
  BY <1>2, <1>3 DEF ResolveInv

LEMMA ResolveInvariant == Spec => []ResolveInv
<1>1. ResolveInv /\ [Next]_vars => ResolveInv'
  <2>1. ASSUME ResolveInv, UNCHANGED vars PROVE ResolveInv'
    BY <2>1 DEF vars, ResolveInv, Shape, Scans, BufferWithoutDots
  <2> QED
    BY <2>1, CheckBaseKeeps, CheckReferenceKeeps, StartKeeps, MergeKeeps, NoMemoryKeeps,
       RemovePointKeeps, PointsRemovedKeeps, RemovePointsKeeps, VerdictKeeps, ComposeKeeps
    DEF Next, Loops
<1> QED
  BY <1>1, ResolveInit, PTL DEF Spec

\* The loops' indexes stay in the buffer, however much was cut out of it.
THEOREM TypeCorrect == Spec => []TypeOK
<1>1. ResolveInv => TypeOK
  BY DEF ResolveInv, Shape, Scans, InBuffer, TypeOK, PCs
<1> QED
  BY <1>1, ResolveInvariant, PTL

\* A text without dot segments that loses its last character has them at most
\* at its end.
LEMMA DotsOnlyAtEnd ==
  ASSUME NEW s \in Text, NoDots(s), NEW t, t = SubSeq(s, 1, Len(s) - 1), NEW k \in 0..Len(t)
  PROVE  /\ PointAt(t, k) => k + 1 = Len(t)
         /\ PointsAt(t, k) => k + 2 = Len(t)
<1>1. Len(s) \in Nat
  BY DEF Text
<1>2. CASE Len(s) = 0
  <2>1. t = << >>
    BY <1>2
  <2>2. Len(t) = 0
    BY <2>1, EmptySeq, Zenon
  <2>3. k \notin 0..Len(t) - 1 /\ k \notin 0..Len(t) - 2
    BY <2>2
  <2> QED
    BY <2>3 DEF PointAt, PointsAt
<1>3. CASE Len(s) > 0
  <2> DEFINE n == Len(s) - 1
  <2>1. n \in 0..Len(s) /\ n + 1 = Len(s)
    BY <1>1, <1>3
  <2>2. t = SubSeq(s, 0 + 1, n)
    OBVIOUS
  <2> HIDE DEF n
  <2>3. Len(t) = n - 0 /\ \A m \in 1..n - 0 : t[m] = s[0 + m]
    BY <2>1, <2>2, PartOfText
  <2>4. Len(t) = n /\ n \in Nat /\ \A m \in 1..n : t[m] = s[m]
    BY <2>1, <2>3
  <2>5. k \in 0..Len(s)
    BY <2>1, <2>4
  <2>6. ~PointAt(s, k) /\ ~PointsAt(s, k)
    BY <2>5 DEF NoDots
  <2>7. ASSUME PointAt(t, k), k + 1 # Len(t) PROVE FALSE
    <3>1. k \in 0..n - 1 /\ k + 2 \in 1..n /\ k + 1 \in 1..n /\ (k # 0 => k \in 1..n)
      BY <2>4, <2>7 DEF PointAt
    <3>2. s[k + 1] = "." /\ (k = 0 \/ s[k] = "/") /\ s[k + 2] = "/"
      BY <2>4, <2>7, <3>1 DEF PointAt
    <3>3. k \in 0..Len(s) - 1
      BY <2>1, <3>1
    <3> QED
      BY <2>6, <3>2, <3>3 DEF PointAt
  <2>8. ASSUME PointsAt(t, k), k + 2 # Len(t) PROVE FALSE
    <3>1. /\ k \in 0..n - 2 /\ k + 3 \in 1..n /\ k + 2 \in 1..n /\ k + 1 \in 1..n
          /\ k # 0 => k \in 1..n
      BY <2>4, <2>8 DEF PointsAt
    <3>2. /\ s[k + 1] = "." /\ s[k + 2] = "." /\ (k = 0 \/ s[k] = "/")
          /\ s[k + 3] = "/"
      BY <2>4, <2>8, <3>1 DEF PointsAt
    <3>3. k \in 0..Len(s) - 2
      BY <2>1, <3>1
    <3> QED
      BY <2>6, <3>2, <3>3 DEF PointsAt
  <2> QED
    BY <2>7, <2>8
<1> QED
  BY <1>1, <1>2, <1>3

\* Whatever base and reference were given: what the two loops leave and is not
\* refused has no segment "." and no segment "..", and the path composed from
\* it has none but at its end, where a character is missing.
THEOREM PathHasNoDots == Spec => []LoopsLeaveNoDots
<1>1. ResolveInv => LoopsLeaveNoDots
  <2> SUFFICES ASSUME ResolveInv, pc = "compose" \/ (answer = 1 /\ Merged)
               PROVE  /\ NoDots(loop.buf)
                      /\ \A k \in 0..Len(ComposedPath) :
                           /\ PointAt(ComposedPath, k) => k + 1 = Len(ComposedPath)
                           /\ PointsAt(ComposedPath, k) => k + 2 = Len(ComposedPath)
    BY DEF LoopsLeaveNoDots
  <2>1. NoDots(loop.buf) /\ loop.buf \in Text
    <3>1. NoDots(loop.buf)
      BY DEF ResolveInv, BufferWithoutDots
    <3>2. InBuffer(loop)
      BY DEF ResolveInv, Scans, Shape
    <3> QED
      BY <3>1, <3>2 DEF InBuffer
  <2> DEFINE t == ComposedPath
  <2>2. t = SubSeq(loop.buf, 1, Len(loop.buf) - 1)
    BY DEF ComposedPath
  <2> HIDE DEF t
  <2>3. ASSUME NEW k \in 0..Len(t)
        PROVE  /\ PointAt(t, k) => k + 1 = Len(t)
               /\ PointsAt(t, k) => k + 2 = Len(t)
    BY <2>1, <2>2, DotsOnlyAtEnd
  <2> QED
    BY <2>1, <2>3 DEF t
<1> QED
  BY <1>1, ResolveInvariant, PTL

\* Every pass of a loop cuts the buffer or looks one character on, so that no
\* text keeps the scans, which begin again after each cut, from ending.
THEOREM ScansProgress == Spec => [][RemovePoint \/ RemovePoints => Progress(loop, loop')]_vars
<1>1. ResolveInv /\ [Next]_vars =>
        [RemovePoint \/ RemovePoints => Progress(loop, loop')]_vars
  BY RemovePointKeeps, RemovePointsKeeps
<1> QED
  BY <1>1, ResolveInvariant, PTL DEF Spec

-----------------------------------------------------------------------------
(* From here on: PathIsTheReference.  Recursion along a sequence comes first, *)
(* for the functions of the RFC's description.                               *)

\* Induction over the sequences of elements of C.
LEMMA AppendInduction ==
  ASSUME NEW C, NEW S, << >> \in S,
         \A s \in Seq(C), c \in C : s \in S => Append(s, c) \in S
  PROVE  Seq(C) \subseteq S
<1> SUFFICES ASSUME NEW z \in Seq(C), z \notin S PROVE FALSE
  OBVIOUS
<1> DEFINE T == {n \in Nat : \E t \in Seq(C) : Len(t) = n /\ t \notin S}
<1>1. T \subseteq Nat /\ T # {}
  <2>1. Len(z) \in Nat
    OBVIOUS
  <2> QED
    BY <2>1
<1>2. PICK n \in T : \A y \in T : n <= y
  BY <1>1, Grammar!LeastElement
<1>3. PICK t \in Seq(C) : Len(t) = n /\ t \notin S
  BY <1>2
<1>4. t # << >>
  BY <1>3
<1>5. PICK u \in Seq(C), c \in C : t = Append(u, c)
  BY <1>4, SequenceEmptyOrAppend
<1>6. Len(u) \in Nat /\ Len(u) + 1 = n
  BY <1>3, <1>5, AppendProperties
<1>7. u \notin S
  BY <1>3, <1>5
<1>8. Len(u) \in T
  BY <1>6, <1>7
<1> QED
  BY <1>2, <1>6, <1>8

\* f holds the values of a recursion along s: v before s, and F gives the next
\* from the index, the value and the element.
FoldsTo(f, F, v, s) ==
  f[0] = v /\ \A k \in 1..Len(s) : f[k] = F[<<k, f[k - 1], s[k]>>]
IsFold(x, F, v, s, V) ==
  \E f \in [0..Len(s) -> V] : FoldsTo(f, F, v, s) /\ x = f[Len(s)]

LEMMA FoldExists ==
  ASSUME NEW C, NEW V, NEW v \in V, NEW F \in [Nat \X V \X C -> V], NEW s \in Seq(C)
  PROVE  \E f \in [0..Len(s) -> V] : FoldsTo(f, F, v, s)
<1> DEFINE S == {t \in Seq(C) : \E f \in [0..Len(t) -> V] : FoldsTo(f, F, v, t)}
<1>1. << >> \in S
  <2>1. [k \in 0..0 |-> v] \in [0..0 -> V] /\ [k \in 0..0 |-> v][0] = v
    OBVIOUS
  <2>2. << >> \in Seq(C) /\ Len(<< >>) = 0
    OBVIOUS
  <2>3. FoldsTo([k \in 0..0 |-> v], F, v, << >>)
    BY <2>1, <2>2 DEF FoldsTo
  <2> QED
    BY <2>1, <2>2, <2>3
<1>2. ASSUME NEW t \in Seq(C), NEW c \in C, t \in S PROVE Append(t, c) \in S
  <2> DEFINE n == Len(t)
             u == Append(t, c)
  <2>1. PICK f \in [0..n -> V] : FoldsTo(f, F, v, t)
    BY <1>2
  <2>2. n \in Nat /\ u \in Seq(C) /\ Len(u) = n + 1 /\ u[n + 1] = c
        /\ \A k \in 1..n : u[k] = t[k]
    BY AppendProperties
  <2> HIDE DEF n, u
  <2> DEFINE x == F[<<n + 1, f[n], c>>]
             g == [k \in 0..n + 1 |-> IF k = n + 1 THEN x ELSE f[k]]
  <2>3. n + 1 \in Nat /\ f[n] \in V
    BY <2>1, <2>2
  <2>4. x \in V
    BY <2>3
  <2>5. /\ \A k \in 0..n : g[k] = f[k] /\ f[k] \in V
        /\ g[n + 1] = x
    BY <2>1, <2>2
  <2> HIDE DEF x
  <2>6. g \in [0..n + 1 -> V]
    BY <2>1, <2>2, <2>4
  <2> HIDE DEF g
  <2>7. ASSUME NEW k \in 1..n + 1 PROVE g[k] = F[<<k, g[k - 1], u[k]>>]
    <3>1. CASE k = n + 1
      <4>1. g[k - 1] = f[n] /\ u[k] = c /\ g[k] = x
        BY <2>2, <2>5, <3>1
      <4> QED
        BY <3>1, <4>1 DEF x
    <3>2. CASE k # n + 1
      <4>1. k \in 1..n /\ k \in 0..n /\ k - 1 \in 0..n
        BY <2>2, <3>2
      <4>2. g[k] = f[k] /\ g[k - 1] = f[k - 1] /\ u[k] = t[k]
        BY <2>2, <2>5, <4>1
      <4>3. f[k] = F[<<k, f[k - 1], t[k]>>]
        BY <2>1, <4>1 DEF FoldsTo, n
      <4> QED
        BY <4>2, <4>3
    <3> QED
      BY <3>1, <3>2
  <2>8. g[0] = v
    BY <2>1, <2>2, <2>5 DEF FoldsTo
  <2>9. FoldsTo(g, F, v, u)
    BY <2>2, <2>7, <2>8 DEF FoldsTo
  <2> QED
    BY <2>2, <2>6, <2>9 DEF u
<1> HIDE DEF S
<1>3. Seq(C) \subseteq S
  BY <1>1, <1>2, AppendInduction
<1>4. s \in S
  BY <1>3
<1> QED
  BY <1>4 DEF S

\* Its values are determined.
LEMMA FoldsAgree ==
  ASSUME NEW C, NEW F, NEW v, NEW s \in Seq(C), NEW f, NEW g,
         FoldsTo(f, F, v, s), FoldsTo(g, F, v, s)
  PROVE  \A k \in 0..Len(s) : f[k] = g[k]
<1> SUFFICES ASSUME NEW z \in 0..Len(s), f[z] # g[z] PROVE FALSE
  OBVIOUS
<1> DEFINE T == {k \in Nat : k \in 0..Len(s) /\ f[k] # g[k]}
<1>0. Len(s) \in Nat
  OBVIOUS
<1>1. T \subseteq Nat /\ T # {}
  BY <1>0
<1>2. PICK k \in T : \A y \in T : k <= y
  BY <1>1, Grammar!LeastElement
<1>3. k # 0
  BY <1>2 DEF FoldsTo
<1>4. k \in 1..Len(s) /\ k - 1 \in 0..Len(s) /\ k - 1 \in Nat /\ ~(k <= k - 1)
  BY <1>0, <1>2, <1>3
<1>5. f[k - 1] = g[k - 1]
  BY <1>2, <1>4
<1>6. f[k] = g[k]
  BY <1>4, <1>5 DEF FoldsTo
<1> QED
  BY <1>2, <1>6

LEMMA FoldEmpty ==
  ASSUME NEW F, NEW v, NEW V, NEW x, IsFold(x, F, v, << >>, V)
  PROVE  x = v
<1>1. Len(<< >>) = 0
  OBVIOUS
<1> QED
  BY <1>1 DEF IsFold, FoldsTo

LEMMA FoldAppend ==
  ASSUME NEW C, NEW V, NEW v, NEW F, NEW s \in Seq(C), NEW c \in C, NEW x, NEW y,
         IsFold(x, F, v, s, V), IsFold(y, F, v, Append(s, c), V)
  PROVE  x \in V /\ y = F[<<Len(s) + 1, x, c>>]
<1> DEFINE n == Len(s)
           u == Append(s, c)
<1>1. n \in Nat /\ Len(u) = n + 1 /\ u[n + 1] = c /\ \A k \in 1..n : u[k] = s[k]
  BY AppendProperties
<1>2. PICK f \in [0..n -> V] : FoldsTo(f, F, v, s) /\ x = f[n]
  BY DEF IsFold
<1>3. PICK g : FoldsTo(g, F, v, u) /\ y = g[Len(u)]
  BY DEF IsFold
<1> HIDE DEF n, u
<1>4. \A k \in 1..n : k \in 1..Len(u) /\ u[k] = s[k]
  BY <1>1
<1>5. FoldsTo(g, F, v, s)
  BY <1>3, <1>4 DEF FoldsTo, n
<1>6. g[n] = x
  BY <1>1, <1>2, <1>5, FoldsAgree DEF n
<1>7. n + 1 \in 1..Len(u) /\ (n + 1) - 1 = n
  BY <1>1
<1>8. g[n + 1] = F[<<n + 1, g[(n + 1) - 1], u[n + 1]>>]
  BY <1>3, <1>7 DEF FoldsTo
<1>9. y = F[<<n + 1, x, c>>]
  BY <1>1, <1>3, <1>6, <1>7, <1>8
<1>10. x \in V
  BY <1>1, <1>2
<1> QED
  BY <1>9, <1>10 DEF n

-----------------------------------------------------------------------------
(* Segments: what one more character, and one more segment, make of them.    *)
Lists == Seq(Text)
Split(w, c) ==
  IF c = "/" THEN Append(w, << >>) ELSE [w EXCEPT ![Len(w)] = Append(@, c)]
SplitF == [x \in Nat \X (Lists \ {<< >>}) \X Characters |-> Split(x[2], x[3])]

LEMMA SplitType ==
  ASSUME NEW w \in Lists \ {<< >>}, NEW c \in Characters
  PROVE  /\ Split(w, c) \in Lists \ {<< >>}
         /\ \A n \in Nat : SplitF[<<n, w, c>>] = Split(w, c)
<1>1. w \in Seq(Text) /\ w # << >> /\ Len(w) \in Nat \ {0} /\ << >> \in Text
  BY EmptySeq DEF Lists, Text
<1>2. w[Len(w)] \in Seq(Characters)
  BY <1>1 DEF Text
<1>3. Append(w[Len(w)], c) \in Text
  BY <1>2, AppendProperties DEF Text
<1>4. /\ Append(w, << >>) \in Seq(Text) /\ Append(w, << >>) # << >>
      /\ [w EXCEPT ![Len(w)] = Append(@, c)] \in Seq(Text)
      /\ Len([w EXCEPT ![Len(w)] = Append(@, c)]) = Len(w)
  <2>1. Append(w, << >>) \in Seq(Text) /\ Append(w, << >>) # << >>
    BY <1>1, AppendProperties
  <2> DEFINE e == Append(w[Len(w)], c)
  <2>2. [w EXCEPT ![Len(w)] = e] \in Seq(Text) /\ Len([w EXCEPT ![Len(w)] = e]) = Len(w)
    <3> HIDE DEF e
    <3>1. e \in Text /\ Len(w) \in 1..Len(w)
      BY <1>1, <1>3 DEF e
    <3> QED
      BY <1>1, <3>1, ExceptSeq
  <2> QED
    BY <2>1, <2>2
<1>5. Split(w, c) \in Lists \ {<< >>}
  <2>1. Len(<< >>) = 0
    OBVIOUS
  <2> QED
    BY <1>1, <1>4, <2>1 DEF Split, Lists
<1> QED
  BY <1>5 DEF SplitF

LEMMA SegmentsFold ==
  ASSUME NEW s \in Text
  PROVE  IsFold(Segments(s), SplitF, << << >> >>, s, Lists \ {<< >>})
<1> DEFINE n == Len(s)
           V == Lists \ {<< >>}
           v == << << >> >>
           IsSplit(f) == f = [k \in 0..n |->
                                IF k = 0 THEN v
                                ELSE IF s[k] = "/" THEN Append(f[k - 1], << >>)
                                ELSE LET w == f[k - 1]
                                     IN [w EXCEPT ![Len(w)] = Append(@, s[k])]]
           IsSame(f) == f = [k \in 0..n |-> IF k = 0 THEN v ELSE Split(f[k - 1], s[k])]
           split == CHOOSE f : IsSplit(f)
<1>1. n \in Nat /\ \A k \in 1..n : s[k] \in Characters
  BY DEF Text
<1>2. v \in V
  <2>1. << >> \in Text
    BY DEF Text
  <2> QED
    BY <2>1 DEF Lists
<1>3. SplitF \in [Nat \X V \X Characters -> V]
  <2>1. \A x \in Nat \X V \X Characters : Split(x[2], x[3]) \in V
    BY SplitType
  <2> QED
    BY <2>1 DEF SplitF
<1>4. Segments(s) = split[n]
  BY DEF Segments
<1>5. \A f : IsSplit(f) <=> IsSame(f)
  BY DEF Split
<1> HIDE DEF n, V, v, IsSplit
<1>6. PICK f \in [0..n -> V] : FoldsTo(f, SplitF, v, s)
  BY <1>2, <1>3, FoldExists DEF n, Text
<1>7. ASSUME NEW k \in 1..n PROVE f[k] = Split(f[k - 1], s[k])
  <2>1. k \in Nat /\ k - 1 \in 0..n /\ s[k] \in Characters
    BY <1>1
  <2>2. f[k - 1] \in V /\ f[k] = SplitF[<<k, f[k - 1], s[k]>>]
    BY <1>6, <2>1 DEF FoldsTo, n
  <2> QED
    BY <2>1, <2>2, SplitType DEF V
<1>8. IsSame(f)
  <2>1. \A k \in 0..n : k = 0 \/ k \in 1..n
    BY <1>1
  <2>2. f[0] = v
    BY <1>6 DEF FoldsTo
  <2>3. \A k \in 0..n : f[k] = IF k = 0 THEN v ELSE Split(f[k - 1], s[k])
    BY <1>7, <2>1, <2>2
  <2> QED
    BY <1>6, <2>3
<1>9. IsSame(split)
  BY <1>5, <1>8
<1> HIDE DEF split
<1>10. /\ split[0] = v
       /\ \A k \in 1..n : k \in 0..n /\ split[k] = Split(split[k - 1], s[k])
  <2>1. \A k \in 1..n : k \in 0..n /\ k # 0
    BY <1>1
  <2>2. 0 \in 0..n
    BY <1>1
  <2> QED
    BY <1>9, <2>1, <2>2
<1>11. \A k \in 0..n : split[k] = f[k]
  <2> SUFFICES ASSUME NEW z \in 0..n, split[z] # f[z] PROVE FALSE
    OBVIOUS
  <2> DEFINE T == {k \in Nat : k \in 0..n /\ split[k] # f[k]}
  <2>1. T \subseteq Nat /\ T # {}
    BY <1>1
  <2>2. PICK k \in T : \A y \in T : k <= y
    BY <2>1, Grammar!LeastElement
  <2>3. k # 0
    BY <1>6, <1>10, <2>2 DEF FoldsTo
  <2>4. k \in 1..n /\ k - 1 \in 0..n /\ k - 1 \in Nat /\ ~(k <= k - 1)
    BY <1>1, <2>2, <2>3
  <2>5. split[k - 1] = f[k - 1]
    BY <2>2, <2>4
  <2>6. split[k] = f[k]
    BY <1>7, <1>10, <2>4, <2>5
  <2> QED
    BY <2>2, <2>6
<1>12. Segments(s) = f[n]
  BY <1>1, <1>4, <1>11
<1> QED
  BY <1>6, <1>12 DEF IsFold, n, V, v

LEMMA SegmentsSteps ==
  /\ Segments(<< >>) = << << >> >>
  /\ \A s \in Text, c \in Characters :
       /\ Segments(s) \in Lists /\ Segments(s) # << >>
       /\ Segments(Append(s, c)) = Split(Segments(s), c)
<1>1. Segments(<< >>) = << << >> >>
  <2>1. << >> \in Text
    BY DEF Text
  <2> QED
    BY <2>1, SegmentsFold, FoldEmpty
<1>2. ASSUME NEW s \in Text, NEW c \in Characters
      PROVE  /\ Segments(s) \in Lists /\ Segments(s) # << >>
             /\ Segments(Append(s, c)) = Split(Segments(s), c)
  <2> DEFINE V == Lists \ {<< >>}
             v == << << >> >>
             x == Segments(s)
             y == Segments(Append(s, c))
  <2>1. s \in Seq(Characters) /\ Append(s, c) \in Text /\ Len(s) + 1 \in Nat
    BY AppendProperties DEF Text
  <2>2. IsFold(x, SplitF, v, s, V) /\ IsFold(y, SplitF, v, Append(s, c), V)
    BY <2>1, SegmentsFold
  <2> HIDE DEF V, v, x, y
  <2>3. x \in V /\ y = SplitF[<<Len(s) + 1, x, c>>]
    BY <2>1, <2>2, FoldAppend
  <2> QED
    BY <2>1, <2>3, SplitType DEF V, x, y
<1> QED
  BY <1>1, <1>2

LEMMA ConcatAppend ==
  ASSUME NEW C, NEW u \in Seq(C), NEW y \in Seq(C), NEW c \in C
  PROVE  u \o Append(y, c) = Append(u \o y, c) /\ Append(u, c) = u \o <<c>>
<1>1. Append(y, c) = y \o <<c>> /\ <<c>> \in Seq(C) /\ u \o y \in Seq(C)
  BY AppendIsConcat, ConcatProperties
<1>2. u \o (y \o <<c>>) = (u \o y) \o <<c>>
  BY <1>1, ConcatAssociative
<1> QED
  BY <1>1, <1>2, AppendIsConcat

\* Split changes the last segment only.
LEMMA SplitLast ==
  ASSUME NEW w \in Lists, NEW x \in Text, NEW c \in Characters
  PROVE  Split(Append(w, x), c) =
           IF c = "/" THEN Append(Append(w, x), << >>) ELSE Append(w, Append(x, c))
<1> SUFFICES ASSUME c # "/" PROVE Split(Append(w, x), c) = Append(w, Append(x, c))
  BY DEF Split
<1> DEFINE n == Len(w)
           u == Append(w, x)
           e == Append(x, c)
<1>1. w \in Seq(Text) /\ n \in Nat /\ e \in Text
  BY AppendProperties DEF Lists, Text
<1> HIDE DEF e
<1>2. /\ u \in Seq(Text) /\ Len(u) = n + 1 /\ u[n + 1] = x /\ \A k \in 1..n : u[k] = w[k]
      /\ Append(w, e) \in Seq(Text) /\ Len(Append(w, e)) = n + 1
      /\ Append(w, e)[n + 1] = e /\ \A k \in 1..n : Append(w, e)[k] = w[k]
  BY <1>1, AppendProperties
<1> HIDE DEF u
<1>3. Split(u, c) = [u EXCEPT ![n + 1] = e]
  BY <1>2 DEF Split, e
<1> DEFINE z == [u EXCEPT ![n + 1] = e]
<1>4. /\ z \in Seq(Text) /\ Len(z) = n + 1
      /\ \A k \in 1..n + 1 : z[k] = IF k = n + 1 THEN e ELSE u[k]
  <2>1. n + 1 \in 1..Len(u)
    BY <1>1, <1>2
  <2> QED
    BY <1>1, <1>2, <2>1, ExceptSeq
<1> HIDE DEF z
<1>5. \A k \in 1..n + 1 : z[k] = Append(w, e)[k]
  <2> SUFFICES ASSUME NEW k \in 1..n + 1 PROVE z[k] = Append(w, e)[k]
    OBVIOUS
  <2>1. k = n + 1 \/ k \in 1..n
    BY <1>1
  <2>2. k \in 1..n => k # n + 1
    BY <1>1
  <2> QED
    BY <1>2, <1>4, <2>1, <2>2
<1>6. z = Append(w, e)
  BY <1>2, <1>4, <1>5, SeqEqual
<1> QED
  BY <1>3, <1>6 DEF u, z, e

\* A text whose first part ends with "/" has the segments of both parts.
LEMMA SegmentsOfTwo ==
  ASSUME NEW x \in Text, NEW y \in Text
  PROVE  Segments(Append(x, "/") \o y) = Segments(x) \o Segments(y)
<1> DEFINE C == Characters
           d == Append(x, "/")
           A == Segments(x)
           Two(t) == Segments(d \o t) = A \o Segments(t)
           S == {t \in Seq(C) : Two(t)}
<1>0. /\ x \in Seq(C) /\ y \in Seq(C) /\ "/" \in C /\ Text = Seq(C) /\ Lists = Seq(Text)
      /\ << >> \in Text
  BY DEF Text, Characters, Lists
<1>1. d \in Seq(C) /\ Segments(d) = Split(A, "/") /\ A \in Lists
  BY <1>0, AppendProperties, SegmentsSteps
<1>2. Segments(d) = Append(A, << >>) /\ Append(A, << >>) = A \o << << >> >>
  BY <1>0, <1>1, AppendIsConcat DEF Split
<1> HIDE DEF C, d, A
<1>3. Two(<< >>)
  BY <1>1, <1>2, SegmentsSteps, ConcatEmptySeq
<1>4. ASSUME NEW t \in Seq(C), NEW c \in C, Two(t) PROVE Two(Append(t, c))
  <2>1. d \o Append(t, c) = Append(d \o t, c) /\ d \o t \in Seq(C)
    BY <1>1, ConcatAppend, ConcatProperties
  <2>2. Segments(d \o Append(t, c)) = Split(Segments(d \o t), c)
    BY <1>0, <2>1, SegmentsSteps DEF C
  <2>3. Segments(t) \in Lists /\ Segments(t) # << >> /\ Segments(Append(t, c)) = Split(Segments(t), c)
    BY <1>0, SegmentsSteps DEF C
  <2>4. PICK w \in Lists, z \in Text : Segments(t) = Append(w, z)
    BY <1>0, <2>3, SequenceEmptyOrAppend
  <2>5. A \o Append(w, z) = Append(A \o w, z) /\ A \o w \in Lists
    BY <1>0, <1>1, ConcatAppend, ConcatProperties
  <2>6. /\ Split(Append(A \o w, z), c) =
             IF c = "/" THEN Append(Append(A \o w, z), << >>) ELSE Append(A \o w, Append(z, c))
        /\ Split(Append(w, z), c) =
             IF c = "/" THEN Append(Append(w, z), << >>) ELSE Append(w, Append(z, c))
    BY <2>5, SplitLast DEF C
  <2>7. Append(z, c) \in Text /\ Append(w, z) \in Lists
    BY <1>0, AppendProperties
  <2>8. /\ A \o Append(w, Append(z, c)) = Append(A \o w, Append(z, c))
        /\ A \o Append(Append(w, z), << >>) = Append(A \o Append(w, z), << >>)
    <3>1. A \in Seq(Text) /\ w \in Seq(Text) /\ Append(w, z) \in Seq(Text)
      BY <1>0, <1>1, <2>4, <2>7
    <3> DEFINE e == Append(z, c)
               a == Append(w, z)
               nil == << >>
    <3>2. e \in Text /\ a \in Seq(Text) /\ nil \in Text
      BY <1>0, <2>7, <3>1
    <3> HIDE DEF e, a, nil
    <3>3. A \o Append(w, e) = Append(A \o w, e)
      BY <3>1, <3>2, ConcatAppend
    <3>4. A \o Append(a, nil) = Append(A \o a, nil)
      BY <3>1, <3>2, ConcatAppend
    <3> QED
      BY <3>3, <3>4 DEF e, a, nil
  <2>9. Split(A \o Segments(t), c) = A \o Split(Segments(t), c)
    BY <2>4, <2>5, <2>6, <2>8
  <2> QED
    BY <1>4, <2>2, <2>3, <2>9
<1> HIDE DEF Two
<1>5. Seq(C) \subseteq S
  <2>1. << >> \in S
    BY <1>0, <1>3
  <2>2. \A t \in Seq(C), c \in C : t \in S => Append(t, c) \in S
    BY <1>4, AppendProperties
  <2> HIDE DEF S
  <2> QED
    BY <2>1, <2>2, AppendInduction
<1>6. Two(y)
  BY <1>0, <1>5
<1> QED
  BY <1>6 DEF Two, d, A

\* A text without "/" is one segment.
LEMMA OneSegment ==
  ASSUME NEW y \in Text, \A k \in 1..Len(y) : y[k] # "/"
  PROVE  Segments(y) = <<y>>
<1> DEFINE C == Characters
           One(t) == (\A k \in 1..Len(t) : t[k] # "/") => Segments(t) = Append(<< >>, t)
           S == {t \in Seq(C) : One(t)}
<1>0. /\ y \in Seq(C) /\ Text = Seq(C) /\ Lists = Seq(Text) /\ << >> \in Text /\ << >> \in Lists
  BY DEF Text, Lists
<1> HIDE DEF C
<1>1. One(<< >>)
  <2>1. Append(<< >>, << >>) = << << >> >>
    OBVIOUS
  <2> QED
    BY <2>1, SegmentsSteps
<1>2. ASSUME NEW t \in Seq(C), NEW c \in C, One(t) PROVE One(Append(t, c))
  <2> SUFFICES ASSUME \A k \in 1..Len(Append(t, c)) : Append(t, c)[k] # "/"
               PROVE  Segments(Append(t, c)) = Append(<< >>, Append(t, c))
    OBVIOUS
  <2>1. /\ Len(t) \in Nat /\ Len(Append(t, c)) = Len(t) + 1 /\ Append(t, c)[Len(t) + 1] = c
        /\ \A k \in 1..Len(t) : Append(t, c)[k] = t[k]
    BY AppendProperties
  <2>2. c # "/" /\ \A k \in 1..Len(t) : t[k] # "/"
    <3>1. Len(t) + 1 \in 1..Len(t) + 1 /\ \A k \in 1..Len(t) : k \in 1..Len(t) + 1
      BY <2>1
    <3> QED
      BY <2>1, <3>1
  <2>3. Segments(t) = Append(<< >>, t)
    BY <1>2, <2>2
  <2>4. Segments(Append(t, c)) = Split(Append(<< >>, t), c)
    BY <1>0, <2>3, SegmentsSteps DEF C
  <2>5. Split(Append(<< >>, t), c) =
          IF c = "/" THEN Append(Append(<< >>, t), << >>) ELSE Append(<< >>, Append(t, c))
    BY <1>0, SplitLast DEF C
  <2> QED
    BY <2>2, <2>4, <2>5
<1> HIDE DEF One
<1>3. Seq(C) \subseteq S
  <2>1. << >> \in S
    BY <1>0, <1>1
  <2>2. \A t \in Seq(C), c \in C : t \in S => Append(t, c) \in S
    BY <1>2, AppendProperties
  <2> HIDE DEF S
  <2> QED
    BY <2>1, <2>2, AppendInduction
<1>4. One(y)
  BY <1>0, <1>3
<1>5. Segments(y) = Append(<< >>, y)
  BY <1>4 DEF One
<1> QED
  BY <1>5

-----------------------------------------------------------------------------
(* Kept: the segments that are left of those read so far, and what the last  *)
(* one leaves.                                                               *)
KeepStep(w, x, end) ==
  IF x = <<".">> THEN w \o end
  ELSE IF x = DotDot /\ CanDrop(w) THEN SubSeq(w, 1, Len(w) - 1) \o end
  ELSE Append(w, x)
Push(w, x) == KeepStep(w, x, << >>)
PushF == [x \in Nat \X Lists \X Text |-> Push(x[2], x[3])]
Stack(segs) == CHOOSE z : IsFold(z, PushF, << >>, segs, Lists)

\* A list without its last segment.
LEMMA WithoutLast ==
  ASSUME NEW w \in Lists, NEW x \in Text
  PROVE  /\ Append(w, x) \in Lists /\ Append(w, x) # << >>
         /\ SubSeq(Append(w, x), 1, Len(Append(w, x)) - 1) = w
         /\ Append(w, x)[Len(Append(w, x))] = x
         /\ Append(w, x) = w \o <<x>> /\ <<x>> \in Lists
<1> DEFINE n == Len(w)
           u == Append(w, x)
<1>1. w \in Seq(Text) /\ n \in Nat
  BY DEF Lists
<1>2. /\ u \in Seq(Text) /\ u # << >> /\ Len(u) = n + 1 /\ u[n + 1] = x
      /\ \A k \in 1..n : u[k] = w[k]
  BY <1>1, AppendProperties
<1>3. u = w \o <<x>> /\ <<x>> \in Seq(Text)
  BY <1>1, AppendIsConcat
<1> HIDE DEF u
<1>4. /\ SubSeq(u, 1, n) \in Seq(Text) /\ Len(SubSeq(u, 1, n)) = n
      /\ \A k \in 1..n : SubSeq(u, 1, n)[k] = u[k]
  <2>1. \A k \in 1..n : u[k] \in Text
    BY <1>1, <1>2
  <2>2. /\ SubSeq(u, 1, n) \in Seq(Text)
        /\ Len(SubSeq(u, 1, n)) = IF 1 <= n THEN n - 1 + 1 ELSE 0
        /\ \A k \in 1..n - 1 + 1 : SubSeq(u, 1, n)[k] = u[1 + k - 1]
    BY <1>1, <2>1, SubSeqProperties
  <2> QED
    BY <1>1, <2>2
<1>5. SubSeq(u, 1, n) = w
  <2>1. \A k \in 1..Len(SubSeq(u, 1, n)) : SubSeq(u, 1, n)[k] = w[k]
    BY <1>2, <1>4
  <2>2. Len(SubSeq(u, 1, n)) = Len(w)
    BY <1>4
  <2> QED
    BY <1>1, <1>4, <2>1, <2>2, SeqEqual
<1>6. Len(u) - 1 = n /\ u[Len(u)] = x
  BY <1>1, <1>2
<1> QED
  BY <1>2, <1>3, <1>5, <1>6 DEF u, Lists

LEMMA PushType ==
  ASSUME NEW w \in Lists, NEW x \in Text
  PROVE  /\ Push(w, x) \in Lists
         /\ \A n \in Nat : PushF[<<n, w, x>>] = Push(w, x)
         /\ x = <<".">> => Push(w, x) = w
         /\ x = DotDot /\ CanDrop(w) => Push(w, x) = SubSeq(w, 1, Len(w) - 1)
         /\ ~(x = <<".">> \/ (x = DotDot /\ CanDrop(w))) => Push(w, x) = Append(w, x)
<1>1. w \in Seq(Text) /\ Append(w, x) \in Lists
  BY AppendProperties DEF Lists
<1>2. w \o << >> = w
  BY <1>1, ConcatEmptySeq
<1>3. <<".">> # DotDot
  <2>1. Len(<<".">>) = 1 /\ Len(DotDot) = 2
    BY DEF DotDot
  <2> QED
    BY <2>1
<1>4. CanDrop(w) => /\ SubSeq(w, 1, Len(w) - 1) \in Lists
                    /\ SubSeq(w, 1, Len(w) - 1) \o << >> = SubSeq(w, 1, Len(w) - 1)
  <2> SUFFICES ASSUME w # << >>
               PROVE  /\ SubSeq(w, 1, Len(w) - 1) \in Lists
                      /\ SubSeq(w, 1, Len(w) - 1) \o << >> = SubSeq(w, 1, Len(w) - 1)
    BY DEF CanDrop
  <2>1. PICK u \in Seq(Text), z \in Text : w = Append(u, z)
    BY <1>1, SequenceEmptyOrAppend
  <2>2. SubSeq(w, 1, Len(w) - 1) = u
    BY <2>1, WithoutLast DEF Lists
  <2> QED
    BY <2>1, <2>2, ConcatEmptySeq DEF Lists
<1>5. Push(w, x) = IF x = <<".">> THEN w
                   ELSE IF x = DotDot /\ CanDrop(w) THEN SubSeq(w, 1, Len(w) - 1)
                   ELSE Append(w, x)
  BY <1>2, <1>4 DEF Push, KeepStep
<1>6. Push(w, x) \in Lists
  BY <1>1, <1>4, <1>5
<1>7. \A n \in Nat : PushF[<<n, w, x>>] = Push(w, x)
  BY DEF PushF
<1> QED
  BY <1>3, <1>5, <1>6, <1>7

LEMMA PushFType == PushF \in [Nat \X Lists \X Text -> Lists] /\ << >> \in Lists
<1>1. \A x \in Nat \X Lists \X Text : Push(x[2], x[3]) \in Lists
  BY PushType
<1>2. << >> \in Lists
  BY DEF Lists
<1> QED
  BY <1>1, <1>2 DEF PushF

LEMMA StackSteps ==
  /\ Stack(<< >>) = << >>
  /\ \A w \in Lists, x \in Text : /\ Stack(w) \in Lists
                                  /\ Stack(Append(w, x)) = Push(Stack(w), x)
<1>1. ASSUME NEW w \in Lists PROVE IsFold(Stack(w), PushF, << >>, w, Lists)
  <2>1. \E z : IsFold(z, PushF, << >>, w, Lists)
    <3> DEFINE v == << >>
               C == Text
    <3>1. PushF \in [Nat \X Lists \X C -> Lists] /\ v \in Lists /\ w \in Seq(C)
      BY PushFType DEF Lists
    <3> HIDE DEF v, C
    <3>2. PICK f \in [0..Len(w) -> Lists] : FoldsTo(f, PushF, v, w)
      BY <3>1, FoldExists
    <3>3. IsFold(f[Len(w)], PushF, v, w, Lists)
      BY <3>2 DEF IsFold
    <3> QED
      BY <3>3 DEF v
  <2> QED
    BY <2>1 DEF Stack
<1>2. Stack(<< >>) = << >>
  <2>1. << >> \in Lists
    BY PushFType
  <2> QED
    BY <1>1, <2>1, FoldEmpty
<1>3. ASSUME NEW w \in Lists, NEW x \in Text
      PROVE  Stack(w) \in Lists /\ Stack(Append(w, x)) = Push(Stack(w), x)
  <2> DEFINE v == << >>
             a == Stack(w)
             b == Stack(Append(w, x))
             C == Text
             V == Lists
  <2>1. w \in Seq(C) /\ x \in C /\ Append(w, x) \in Lists /\ Len(w) + 1 \in Nat
    BY WithoutLast DEF Lists
  <2>2. IsFold(a, PushF, v, w, V) /\ IsFold(b, PushF, v, Append(w, x), V)
    BY <1>1, <2>1
  <2> HIDE DEF v, a, b, C, V
  <2>3. a \in V /\ b = PushF[<<Len(w) + 1, a, x>>]
    BY <2>1, <2>2, FoldAppend
  <2> QED
    BY <2>1, <2>3, PushType DEF a, b, V
<1> QED
  BY <1>2, <1>3

LEMMA KeptAppend ==
  ASSUME NEW w \in Lists, NEW x \in Text
  PROVE  Kept(Append(w, x)) = KeepStep(Stack(w), x, << << >> >>)
<1> DEFINE n == Len(w)
           u == Append(w, x)
           end(k) == IF k = Len(u) THEN << << >> >> ELSE << >>
           IsKept(f) == f = [k \in 0..Len(u) |->
                               IF k = 0 THEN << >>
                               ELSE LET y == f[k - 1]
                                        e == IF k = Len(u) THEN << << >> >> ELSE << >>
                                    IN IF u[k] = <<".">> THEN y \o e
                                       ELSE IF u[k] = DotDot /\ CanDrop(y)
                                       THEN SubSeq(y, 1, Len(y) - 1) \o e
                                       ELSE Append(y, u[k])]
           IsSame(f) == f = [k \in 0..Len(u) |->
                               IF k = 0 THEN << >> ELSE KeepStep(f[k - 1], u[k], end(k))]
           keep == CHOOSE f : IsKept(f)
<1>1. w \in Seq(Text) /\ n \in Nat /\ Len(u) = n + 1 /\ u[n + 1] = x
      /\ \A k \in 1..n : u[k] = w[k] /\ w[k] \in Text
  BY AppendProperties DEF Lists
<1>2. Kept(u) = keep[Len(u)]
  BY DEF Kept
<1>3. \A f : IsKept(f) <=> IsSame(f)
  BY DEF KeepStep
<1> HIDE DEF n, u, IsKept
<1>4. PICK f \in [0..n -> Lists] : FoldsTo(f, PushF, << >>, w) /\ f[n] = Stack(w)
  <2> DEFINE v == << >>
             C == Text
  <2>1. PushF \in [Nat \X Lists \X C -> Lists] /\ v \in Lists /\ w \in Seq(C)
    BY PushFType DEF Lists
  <2> HIDE DEF v, C
  <2>2. PICK f \in [0..Len(w) -> Lists] : FoldsTo(f, PushF, v, w)
    BY <2>1, FoldExists
  <2>3. IsFold(f[Len(w)], PushF, v, w, Lists)
    BY <2>2 DEF IsFold
  <2>4. IsFold(Stack(w), PushF, v, w, Lists)
    BY <2>3 DEF Stack, v
  <2>5. PICK g \in [0..Len(w) -> Lists] : FoldsTo(g, PushF, v, w) /\ Stack(w) = g[Len(w)]
    BY <2>4 DEF IsFold
  <2> QED
    BY <2>5 DEF n, v
<1>5. ASSUME NEW k \in 1..n PROVE f[k - 1] \in Lists /\ f[k] = KeepStep(f[k - 1], u[k], end(k))
  <2>1. k \in Nat /\ k - 1 \in 0..n /\ k # Len(u) /\ u[k] = w[k] /\ w[k] \in Text
    BY <1>1
  <2>2. f[k - 1] \in Lists /\ f[k] = PushF[<<k, f[k - 1], w[k]>>]
    BY <1>4, <2>1 DEF FoldsTo, n
  <2>3. f[k] = Push(f[k - 1], w[k])
    BY <2>1, <2>2, PushType
  <2>4. end(k) = << >>
    BY <2>1
  <2> QED
    BY <2>1, <2>2, <2>3, <2>4 DEF Push
<1> DEFINE last == KeepStep(f[n], x, << << >> >>)
           g == [k \in 0..Len(u) |-> IF k = n + 1 THEN last ELSE f[k]]
<1>6. end(n + 1) = << << >> >>
  BY <1>1
<1> HIDE DEF end
<1>7. IsSame(g)
  <2> HIDE DEF last
  <2>1. g[n + 1] = last /\ \A k \in 0..n : g[k] = f[k]
    BY <1>1
  <2>2. \A k \in 1..n : k - 1 \in 0..n /\ k \in 0..n /\ k # 0
    BY <1>1
  <2>3. (n + 1) - 1 = n /\ n \in 0..n /\ n + 1 # 0 /\ 0 \in 0..n
    BY <1>1
  <2>4. \A k \in 0..Len(u) : k = 0 \/ k = n + 1 \/ k \in 1..n
    BY <1>1
  <2>5. f[0] = << >>
    BY <1>4 DEF FoldsTo
  <2>6. g = [k \in 0..Len(u) |-> g[k]]
    OBVIOUS
  <2> HIDE DEF g
  <2>7. g[n + 1] = KeepStep(g[(n + 1) - 1], u[n + 1], end(n + 1))
    BY <1>1, <1>6, <2>1, <2>3 DEF last
  <2>8. \A k \in 1..n : g[k] = KeepStep(g[k - 1], u[k], end(k))
    BY <1>5, <2>1, <2>2
  <2>9. \A k \in 0..Len(u) : g[k] = IF k = 0 THEN << >> ELSE KeepStep(g[k - 1], u[k], end(k))
    BY <2>1, <2>2, <2>3, <2>4, <2>5, <2>7, <2>8
  <2> QED
    BY <2>6, <2>9
<1>8. IsSame(keep)
  BY <1>3, <1>7
<1> HIDE DEF keep
<1>9. /\ keep[0] = << >>
      /\ \A k \in 1..n + 1 : keep[k] = KeepStep(keep[k - 1], u[k], end(k))
  <2>1. \A k \in 1..n + 1 : k \in 0..Len(u) /\ k # 0
    BY <1>1
  <2>2. 0 \in 0..Len(u)
    BY <1>1
  <2> QED
    BY <1>8, <2>1, <2>2
<1>10. keep[n] = f[n]
  <2> SUFFICES ASSUME keep[n] # f[n] PROVE FALSE
    OBVIOUS
  <2> DEFINE T == {k \in Nat : k \in 0..n /\ keep[k] # f[k]}
  <2>1. T \subseteq Nat /\ T # {}
    BY <1>1
  <2>2. PICK k \in T : \A y \in T : k <= y
    BY <2>1, Grammar!LeastElement
  <2>3. k # 0
    BY <1>4, <1>9, <2>2 DEF FoldsTo
  <2>4. k \in 1..n /\ k \in 1..n + 1 /\ k - 1 \in 0..n /\ k - 1 \in Nat /\ ~(k <= k - 1)
    BY <1>1, <2>2, <2>3
  <2>5. keep[k - 1] = f[k - 1]
    BY <2>2, <2>4
  <2>6. keep[k] = f[k]
    BY <1>5, <1>9, <2>4, <2>5
  <2> QED
    BY <2>2, <2>6
<1>11. keep[n + 1] = KeepStep(f[n], x, << << >> >>)
  <2>1. n + 1 \in 1..n + 1 /\ (n + 1) - 1 = n
    BY <1>1
  <2>2. keep[n + 1] = KeepStep(keep[(n + 1) - 1], u[n + 1], end(n + 1))
    BY <1>9, <2>1
  <2> QED
    BY <1>1, <1>6, <1>10, <2>1, <2>2
<1> QED
  BY <1>1, <1>2, <1>4, <1>11 DEF u

\* A segment that is neither "." nor "..", and a list of such segments.
PlainSegment(x) == x # <<".">> /\ x # DotDot
Plain(w) == \A k \in 1..Len(w) : PlainSegment(w[k])
\* No ".." is kept of the list.
Below(w) == \A k \in 1..Len(Kept(w)) : Kept(w)[k] # DotDot

LEMMA ListFacts ==
  /\ Lists = Seq(Text) /\ << >> \in Lists /\ << >> \in Text /\ <<".">> \in Text
  /\ DotDot \in Text /\ Slash \in Text
  /\ \A x \in Text : <<x>> \in Lists /\ Append(<< >>, x) = <<x>>
<1>1. "." \in Characters /\ "/" \in Characters
  BY DEF Characters
<1> QED
  BY <1>1 DEF Lists, Text, DotDot, Slash

\* What follows two lists of which the same is left.
LEMMA SameStack ==
  ASSUME NEW a \in Lists, NEW b \in Lists, Stack(a) = Stack(b), NEW q \in Lists, q # << >>
  PROVE  Kept(a \o q) = Kept(b \o q)
<1> DEFINE Same(t) == Stack(a \o t) = Stack(b \o t)
           C == Text
           S == {t \in Seq(C) : Same(t)}
<1>0. Lists = Seq(C)
  BY ListFacts
<1> HIDE DEF C
<1>1. Same(<< >>)
  BY <1>0, ConcatEmptySeq
<1>2. ASSUME NEW t \in Seq(C), NEW x \in C PROVE
        /\ a \o Append(t, x) = Append(a \o t, x) /\ b \o Append(t, x) = Append(b \o t, x)
        /\ a \o t \in Lists /\ b \o t \in Lists
  BY <1>0, ConcatAppend, ConcatProperties
<1>3. ASSUME NEW t \in Seq(C), NEW x \in C, Same(t) PROVE Same(Append(t, x))
  <2>1. a \o t \in Lists /\ b \o t \in Lists /\ x \in Text
    BY <1>2 DEF C
  <2>2. /\ Stack(Append(a \o t, x)) = Push(Stack(a \o t), x)
        /\ Stack(Append(b \o t, x)) = Push(Stack(b \o t), x)
    BY <2>1, StackSteps
  <2> QED
    BY <1>2, <1>3, <2>2
<1> HIDE DEF Same
<1>4. Seq(C) \subseteq S
  <2>1. << >> \in S
    BY <1>0, <1>1, ListFacts
  <2>2. \A t \in Seq(C), x \in C : t \in S => Append(t, x) \in S
    BY <1>3, AppendProperties
  <2> HIDE DEF S
  <2> QED
    BY <2>1, <2>2, AppendInduction
<1>5. PICK t \in Seq(C), x \in C : q = Append(t, x)
  BY <1>0, SequenceEmptyOrAppend
<1>6. Same(t)
  BY <1>4
<1>7. Stack(a \o t) = Stack(b \o t)
  BY <1>6 DEF Same
<1> QED
  BY <1>2, <1>5, <1>7, KeptAppend DEF C

\* A segment ".." that is kept once is never dropped.
LEMMA PushKeepsDots ==
  ASSUME NEW w \in Lists, NEW x \in Text, NEW end \in Lists,
         NEW i \in 1..Len(w), w[i] = DotDot
  PROVE  i \in 1..Len(KeepStep(w, x, end)) /\ KeepStep(w, x, end)[i] = DotDot
<1>1. w \in Seq(Text) /\ end \in Seq(Text) /\ Len(w) \in Nat /\ Len(end) \in Nat
  BY DEF Lists
<1>2. CASE KeepStep(w, x, end) = w \o end
  BY <1>1, <1>2, ConcatProperties
<1>3. CASE CanDrop(w) /\ KeepStep(w, x, end) = SubSeq(w, 1, Len(w) - 1) \o end
  <2>1. PICK u \in Seq(Text), z \in Text : w = Append(u, z)
    BY <1>1, <1>3, SequenceEmptyOrAppend DEF CanDrop
  <2>2. /\ SubSeq(w, 1, Len(w) - 1) = u /\ Len(w) = Len(u) + 1 /\ Len(u) \in Nat
        /\ \A k \in 1..Len(u) : w[k] = u[k]
    BY <2>1, WithoutLast, AppendProperties DEF Lists
  <2>3. i # Len(w)
    BY <1>3 DEF CanDrop
  <2>4. i \in 1..Len(u) /\ u[i] = DotDot
    BY <2>2, <2>3
  <2>5. Len(u \o end) = Len(u) + Len(end) /\ \A k \in 1..Len(u) : (u \o end)[k] = u[k]
    BY <1>1, <2>1, ConcatProperties
  <2> QED
    BY <1>1, <1>3, <2>2, <2>4, <2>5
<1>4. CASE KeepStep(w, x, end) = Append(w, x)
  BY <1>1, <1>4, AppendProperties
<1> QED
  BY <1>2, <1>3, <1>4 DEF KeepStep

LEMMA DotsStay ==
  ASSUME NEW a \in Lists, NEW i \in 1..Len(Stack(a)), Stack(a)[i] = DotDot,
         NEW q \in Lists, q # << >>
  PROVE  ~Below(a \o q)
<1> DEFINE Stays(t) == i \in 1..Len(Stack(a \o t)) /\ Stack(a \o t)[i] = DotDot
           C == Text
           S == {t \in Seq(C) : Stays(t)}
<1>0. Lists = Seq(C) /\ << >> \in Lists /\ << << >> >> \in Lists
  BY ListFacts
<1> HIDE DEF C
<1>1. Stays(<< >>)
  BY <1>0, ConcatEmptySeq
<1>2. ASSUME NEW t \in Seq(C), NEW x \in C
      PROVE  a \o Append(t, x) = Append(a \o t, x) /\ a \o t \in Lists
  BY <1>0, ConcatAppend, ConcatProperties
<1>3. ASSUME NEW t \in Seq(C), NEW x \in C, Stays(t) PROVE Stays(Append(t, x))
  <2>1. Stack(a \o t) \in Lists /\ Stack(a \o Append(t, x)) = Push(Stack(a \o t), x)
    BY <1>2, StackSteps DEF C
  <2> DEFINE w == Stack(a \o t)
             end == << >>
  <2>2. end \in Lists /\ x \in Text /\ w \in Lists /\ i \in 1..Len(w) /\ w[i] = DotDot
    BY <1>0, <1>3, <2>1 DEF C
  <2> HIDE DEF w, end
  <2>3. i \in 1..Len(KeepStep(w, x, end)) /\ KeepStep(w, x, end)[i] = DotDot
    BY <2>2, PushKeepsDots
  <2> QED
    BY <2>1, <2>3 DEF Push, w, end
<1>4. ASSUME NEW t \in Seq(C), NEW x \in C, Stays(t) PROVE ~Below(a \o Append(t, x))
  <2>1. Stack(a \o t) \in Lists
        /\ Kept(a \o Append(t, x)) = KeepStep(Stack(a \o t), x, << << >> >>)
    BY <1>2, StackSteps, KeptAppend DEF C
  <2> DEFINE end == << << >> >>
  <2>2. end \in Lists
    BY <1>0
  <2> HIDE DEF end
  <2>3. i \in 1..Len(KeepStep(Stack(a \o t), x, end))
        /\ KeepStep(Stack(a \o t), x, end)[i] = DotDot
    BY <1>4, <2>1, <2>2, PushKeepsDots DEF C
  <2> QED
    BY <2>1, <2>3 DEF Below, end
<1> HIDE DEF Stays
<1>5. Seq(C) \subseteq S
  <2>1. << >> \in S
    BY <1>0, <1>1
  <2>2. \A t \in Seq(C), x \in C : t \in S => Append(t, x) \in S
    BY <1>3, AppendProperties
  <2> HIDE DEF S
  <2> QED
    BY <2>1, <2>2, AppendInduction
<1>6. PICK t \in Seq(C), x \in C : q = Append(t, x)
  BY <1>0, SequenceEmptyOrAppend
<1>7. Stays(t)
  BY <1>5
<1> QED
  BY <1>4, <1>6, <1>7

\* Where no ".." is kept, there is a segment to drop before each of them.
LEMMA DotsDrop ==
  ASSUME NEW a \in Lists, NEW q \in Lists, Below((a \o <<DotDot>>) \o q)
  PROVE  CanDrop(Stack(a))
<1> SUFFICES ASSUME ~CanDrop(Stack(a)) PROVE FALSE
  OBVIOUS
<1> DEFINE b == Append(a, DotDot)
           w == Stack(a)
<1>1. DotDot \in Text /\ b = a \o <<DotDot>> /\ b \in Lists /\ w \in Lists
  BY ListFacts, WithoutLast, StackSteps
<1>2. <<".">> # DotDot
  <2>1. Len(<<".">>) = 1 /\ Len(DotDot) = 2
    BY DEF DotDot
  <2> QED
    BY <2>1
<1>3. Stack(b) = Append(w, DotDot)
  <2>1. Stack(b) = Push(w, DotDot)
    BY <1>1, StackSteps
  <2> QED
    BY <1>1, <1>2, <2>1, PushType
<1>4. Kept(b) = Append(w, DotDot)
  <2>1. Kept(b) = KeepStep(w, DotDot, << << >> >>)
    BY <1>1, KeptAppend
  <2> QED
    BY <1>2, <2>1 DEF KeepStep
<1>5. LET n == Len(Append(w, DotDot))
      IN n \in 1..n /\ Append(w, DotDot)[n] = DotDot
  <2>1. w \in Seq(Text)
    BY <1>1 DEF Lists
  <2> QED
    BY <1>1, <2>1, AppendProperties
<1> HIDE DEF b, w
<1>6. CASE q = << >>
  <2>1. b \o q = b
    BY <1>1, <1>6, ConcatEmptySeq DEF Lists
  <2>2. ~Below(b)
    BY <1>4, <1>5 DEF Below
  <2> QED
    BY <1>1, <2>1, <2>2
<1>7. CASE q # << >>
  <2>1. ~Below(b \o q)
    BY <1>1, <1>3, <1>5, <1>7, DotsStay
  <2> QED
    BY <1>1, <2>1
<1> QED
  BY <1>6, <1>7

LEMMA NoDotDot == <<".">> # DotDot
<1>1. Len(<<".">>) = 1 /\ Len(DotDot) = 2
  BY DEF DotDot
<1> QED
  BY <1>1

\* A segment "." may be cut out, or emptied at the end.
LEMMA PointOut ==
  ASSUME NEW p \in Lists, NEW q \in Lists
  PROVE  /\ q # << >> => Kept(p \o (<<<<".">>>> \o q)) = Kept(p \o q)
         /\ Kept(p \o <<<<".">>>>) = Kept(p \o << << >> >>)
<1> DEFINE point == <<".">>
           nil == << >>
           w == Stack(p)
<1>1. /\ point \in Text /\ nil \in Text /\ w \in Lists /\ Lists = Seq(Text)
      /\ point # DotDot /\ nil # point /\ nil # DotDot
  <2>1. Len(nil) = 0 /\ Len(point) = 1 /\ Len(DotDot) = 2
    BY DEF DotDot
  <2>2. nil # point /\ nil # DotDot
    BY <2>1
  <2> QED
    BY <2>2, ListFacts, StackSteps, NoDotDot
<1>2. Append(p, point) = p \o <<point>> /\ Append(p, point) \in Lists /\ <<point>> \in Lists
  BY <1>1, WithoutLast
<1>3. Append(p, nil) = p \o <<nil>>
  BY <1>1, WithoutLast
<1>4. Stack(Append(p, point)) = Push(w, point) /\ Push(w, point) = w
  BY <1>1, StackSteps, PushType
<1>5. ASSUME q # << >> PROVE Kept(p \o (<<point>> \o q)) = Kept(p \o q)
  <2>1. (p \o <<point>>) \o q = p \o (<<point>> \o q)
    BY <1>1, <1>2, ConcatAssociative
  <2>2. Kept(Append(p, point) \o q) = Kept(p \o q)
    BY <1>2, <1>4, <1>5, SameStack
  <2> QED
    BY <1>2, <2>1, <2>2
<1>6. Kept(Append(p, point)) = w \o << << >> >>
  <2>1. Kept(Append(p, point)) = KeepStep(w, point, << << >> >>)
    BY <1>1, KeptAppend
  <2> QED
    BY <2>1 DEF KeepStep
<1>7. Kept(Append(p, nil)) = w \o << << >> >>
  <2>1. Kept(Append(p, nil)) = KeepStep(w, nil, << << >> >>)
    BY <1>1, KeptAppend
  <2>2. KeepStep(w, nil, << << >> >>) = Append(w, nil)
    BY <1>1 DEF KeepStep
  <2>3. Append(w, nil) = w \o <<nil>>
    BY <1>1, WithoutLast
  <2> QED
    BY <2>1, <2>2, <2>3
<1> QED
  BY <1>2, <1>3, <1>5, <1>6, <1>7

\* A segment and the ".." behind it may be cut out.
LEMMA PointsOut ==
  ASSUME NEW p \in Lists, NEW q \in Lists, NEW x \in Text, PlainSegment(x),
         Below(p \o (<<x>> \o (<<DotDot>> \o q)))
  PROVE  /\ q # << >> => Kept(p \o (<<x>> \o (<<DotDot>> \o q))) = Kept(p \o q)
         /\ q = << >> => Kept(p \o (<<x>> \o (<<DotDot>> \o q))) = Kept(p \o << << >> >>)
<1> DEFINE nil == << >>
           w == Stack(p)
           a == Append(p, x)
           b == Append(a, DotDot)
           all == p \o (<<x>> \o (<<DotDot>> \o q))
<1>1. /\ nil \in Text /\ w \in Lists /\ Lists = Seq(Text) /\ DotDot \in Text
      /\ <<x>> \in Lists /\ <<DotDot>> \in Lists
  BY ListFacts, StackSteps
<1>2. a = p \o <<x>> /\ a \in Lists
  BY <1>1, WithoutLast
<1>3. b = a \o <<DotDot>> /\ b \in Lists
  BY <1>1, <1>2, WithoutLast
<1>4. all = (a \o <<DotDot>>) \o q
  <2> DEFINE d == <<DotDot>>
             y == <<x>>
  <2>1. d \in Seq(Text) /\ y \in Seq(Text) /\ p \in Seq(Text) /\ q \in Seq(Text) /\ a \in Seq(Text)
    BY <1>1, <1>2
  <2> HIDE DEF d, y, a
  <2>2. d \o q \in Seq(Text)
    BY <2>1, ConcatProperties
  <2>3. (a \o d) \o q = a \o (d \o q)
    BY <2>1, ConcatAssociative
  <2>4. (p \o y) \o (d \o q) = p \o (y \o (d \o q))
    <3> DEFINE r == d \o q
    <3>1. r \in Seq(Text)
      BY <2>2
    <3> HIDE DEF r
    <3>2. (p \o y) \o r = p \o (y \o r)
      BY <2>1, <3>1, ConcatAssociative
    <3> QED
      BY <3>2 DEF r
  <2>5. a = p \o y
    BY <1>2 DEF y
  <2> QED
    BY <2>3, <2>4, <2>5 DEF d, y
<1>5. Stack(a) = Append(w, x)
  <2>1. Stack(a) = Push(w, x)
    BY StackSteps
  <2> QED
    BY <1>1, <2>1, PushType DEF PlainSegment
<1>6. CanDrop(Append(w, x))
  <2> HIDE DEF a, w
  <2>1. Below((a \o <<DotDot>>) \o q)
    BY <1>4
  <2> QED
    BY <1>2, <1>5, <2>1, DotsDrop
<1>7. SubSeq(Append(w, x), 1, Len(Append(w, x)) - 1) = w /\ Append(w, x) \in Lists
  BY <1>1, WithoutLast
<1> HIDE DEF a, w
<1>8. Stack(b) = w
  <2>1. Stack(b) = Push(Stack(a), DotDot)
    BY <1>1, <1>2, StackSteps
  <2> QED
    BY <1>1, <1>5, <1>6, <1>7, <2>1, PushType
<1>9. Kept(b) = w \o << << >> >>
  <2>1. Kept(b) = KeepStep(Stack(a), DotDot, << << >> >>)
    BY <1>1, <1>2, KeptAppend
  <2> QED
    BY <1>5, <1>6, <1>7, <2>1, NoDotDot DEF KeepStep
<1>10. Kept(p \o << << >> >>) = w \o << << >> >>
  <2>1. Append(p, nil) = p \o <<nil>> /\ Append(w, nil) = w \o <<nil>>
    BY <1>1, WithoutLast
  <2>2. Kept(Append(p, nil)) = KeepStep(w, nil, << << >> >>)
    BY <1>1, KeptAppend DEF w
  <2>3. nil # <<".">> /\ nil # DotDot
    <3>1. Len(nil) = 0 /\ Len(<<".">>) = 1 /\ Len(DotDot) = 2
      BY DEF DotDot
    <3> QED
      BY <3>1
  <2>4. KeepStep(w, nil, << << >> >>) = Append(w, nil)
    BY <2>3 DEF KeepStep
  <2> QED
    BY <2>1, <2>2, <2>4
<1> HIDE DEF b
<1>11. q # << >> => Kept(b \o q) = Kept(p \o q)
  BY <1>3, <1>8, SameStack DEF w
<1>12. q = << >> => b \o q = b
  BY <1>1, <1>3, ConcatEmptySeq
<1>13. all = b \o q
  BY <1>3, <1>4
<1> HIDE DEF all
<1>14. /\ q # << >> => Kept(all) = Kept(p \o q)
       /\ q = << >> => Kept(all) = Kept(p \o << << >> >>)
  BY <1>9, <1>10, <1>11, <1>12, <1>13
<1> QED
  BY <1>14 DEF all

\* Nothing is left out of a list without "." and "..".
LEMMA PlainKept ==
  ASSUME NEW w \in Lists, Plain(w), w # << >>
  PROVE  Kept(w) = w
<1> DEFINE C == Text
           Same(t) == Plain(t) => Stack(t) = t
           S == {t \in Seq(C) : Same(t)}
<1>0. Lists = Seq(C) /\ << >> \in Lists
  BY ListFacts
<1> HIDE DEF C
<1>1. Same(<< >>)
  BY StackSteps
<1>2. ASSUME NEW t \in Seq(C), NEW x \in C, Plain(Append(t, x)) PROVE Plain(t) /\ PlainSegment(x)
  <2>1. /\ Len(t) \in Nat /\ Len(Append(t, x)) = Len(t) + 1
        /\ Append(t, x)[Len(t) + 1] = x /\ \A k \in 1..Len(t) : Append(t, x)[k] = t[k]
    BY AppendProperties
  <2>2. Len(t) + 1 \in 1..Len(t) + 1 /\ \A k \in 1..Len(t) : k \in 1..Len(t) + 1
    BY <2>1
  <2> QED
    BY <1>2, <2>1, <2>2 DEF Plain
<1>3. ASSUME NEW t \in Seq(C), NEW x \in C, Same(t) PROVE Same(Append(t, x))
  <2> SUFFICES ASSUME Plain(Append(t, x)) PROVE Stack(Append(t, x)) = Append(t, x)
    OBVIOUS
  <2>1. Stack(t) = t /\ PlainSegment(x)
    BY <1>2, <1>3
  <2>2. Stack(Append(t, x)) = Push(t, x)
    BY <1>0, <2>1, StackSteps DEF C
  <2>3. Push(t, x) = Append(t, x)
    BY <1>0, <2>1, PushType DEF PlainSegment, C
  <2> QED
    BY <2>2, <2>3
<1> HIDE DEF Same
<1>4. Seq(C) \subseteq S
  <2>1. << >> \in S
    BY <1>0, <1>1
  <2>2. \A t \in Seq(C), x \in C : t \in S => Append(t, x) \in S
    BY <1>3, AppendProperties
  <2> HIDE DEF S
  <2> QED
    BY <2>1, <2>2, AppendInduction
<1>5. PICK t \in Seq(C), x \in C : w = Append(t, x)
  BY <1>0, SequenceEmptyOrAppend
<1>6. Plain(t) /\ PlainSegment(x)
  BY <1>2, <1>5
<1>7. Stack(t) = t
  BY <1>4, <1>6 DEF Same
<1>8. Kept(w) = KeepStep(t, x, << << >> >>)
  BY <1>0, <1>5, <1>7, KeptAppend DEF C
<1> QED
  BY <1>5, <1>6, <1>8 DEF KeepStep, PlainSegment

-----------------------------------------------------------------------------
(* Joined gives back the text that was split.                                *)
Join(n, t, x) == IF n = 1 THEN x ELSE t \o Slash \o x
JoinF == [x \in Nat \X Text \X Text |-> Join(x[1], x[2], x[3])]

LEMMA JoinType ==
  /\ JoinF \in [Nat \X Text \X Text -> Text] /\ << >> \in Text
  /\ \A n \in Nat, t \in Text, x \in Text :
       Join(n, t, x) \in Text /\ JoinF[<<n, t, x>>] = Join(n, t, x)
<1>1. Slash \in Text /\ << >> \in Text
  BY ListFacts
<1>2. ASSUME NEW n \in Nat, NEW t \in Text, NEW x \in Text PROVE Join(n, t, x) \in Text
  <2>1. t \o Slash \in Text
    BY <1>1, ConcatProperties DEF Text
  <2> DEFINE r == t \o Slash
  <2> HIDE DEF r
  <2>2. r \o x \in Text
    BY <2>1, ConcatProperties DEF Text, r
  <2> QED
    BY <2>2 DEF Join, r
<1>3. \A x \in Nat \X Text \X Text : Join(x[1], x[2], x[3]) \in Text
  BY <1>2
<1> QED
  BY <1>1, <1>2, <1>3 DEF JoinF

LEMMA JoinedFold ==
  ASSUME NEW s \in Lists
  PROVE  IsFold(Joined(s), JoinF, << >>, s, Text)
<1> DEFINE n == Len(s)
           V == Text
           v == << >>
           C == Text
           IsJoin(f) == f = [k \in 0..n |->
                               IF k = 0 THEN v
                               ELSE IF k = 1 THEN s[1] ELSE f[k - 1] \o Slash \o s[k]]
           IsSame(f) == f = [k \in 0..n |-> IF k = 0 THEN v ELSE Join(k, f[k - 1], s[k])]
           join == CHOOSE f : IsJoin(f)
<1>1. n \in Nat /\ \A k \in 1..n : s[k] \in Text
  BY DEF Lists
<1>2. v \in V /\ JoinF \in [Nat \X V \X C -> V] /\ s \in Seq(C)
  BY JoinType DEF Lists
<1>3. Joined(s) = join[n]
  BY DEF Joined
<1>4. \A f : IsJoin(f) <=> IsSame(f)
  BY DEF Join
<1> HIDE DEF n, V, v, C, IsJoin
<1>5. PICK f \in [0..n -> V] : FoldsTo(f, JoinF, v, s)
  BY <1>2, FoldExists DEF n
<1>6. ASSUME NEW k \in 1..n PROVE f[k] = Join(k, f[k - 1], s[k])
  <2>1. k \in Nat /\ k - 1 \in 0..n /\ s[k] \in Text
    BY <1>1
  <2>2. f[k - 1] \in V /\ f[k] = JoinF[<<k, f[k - 1], s[k]>>]
    BY <1>5, <2>1 DEF FoldsTo, n
  <2> QED
    BY <2>1, <2>2, JoinType DEF V
<1>7. IsSame(f)
  <2>1. \A k \in 0..n : k = 0 \/ k \in 1..n
    BY <1>1
  <2>2. f[0] = v
    BY <1>5 DEF FoldsTo
  <2>3. \A k \in 0..n : f[k] = IF k = 0 THEN v ELSE Join(k, f[k - 1], s[k])
    BY <1>6, <2>1, <2>2
  <2> QED
    BY <1>5, <2>3
<1>8. IsSame(join)
  BY <1>4, <1>7
<1> HIDE DEF join
<1>9. /\ join[0] = v
      /\ \A k \in 1..n : k \in 0..n /\ join[k] = Join(k, join[k - 1], s[k])
  <2>1. \A k \in 1..n : k \in 0..n /\ k # 0
    BY <1>1
  <2>2. 0 \in 0..n
    BY <1>1
  <2> QED
    BY <1>8, <2>1, <2>2
<1>10. \A k \in 0..n : join[k] = f[k]
  <2> SUFFICES ASSUME NEW z \in 0..n, join[z] # f[z] PROVE FALSE
    OBVIOUS
  <2> DEFINE T == {k \in Nat : k \in 0..n /\ join[k] # f[k]}
  <2>1. T \subseteq Nat /\ T # {}
    BY <1>1
  <2>2. PICK k \in T : \A y \in T : k <= y
    BY <2>1, Grammar!LeastElement
  <2>3. k # 0
    BY <1>5, <1>9, <2>2 DEF FoldsTo
  <2>4. k \in 1..n /\ k - 1 \in 0..n /\ k - 1 \in Nat /\ ~(k <= k - 1)
    BY <1>1, <2>2, <2>3
  <2>5. join[k - 1] = f[k - 1]
    BY <2>2, <2>4
  <2>6. join[k] = f[k]
    BY <1>6, <1>9, <2>4, <2>5
  <2> QED
    BY <2>2, <2>6
<1>11. Joined(s) = f[n]
  BY <1>1, <1>3, <1>10
<1> QED
  BY <1>5, <1>11 DEF IsFold, n, V, v

LEMMA JoinedSteps ==
  ASSUME NEW w \in Lists, NEW x \in Text
  PROVE  /\ Joined(w) \in Text
         /\ w = << >> => Joined(Append(w, x)) = x
         /\ w # << >> => Joined(Append(w, x)) = Joined(w) \o Slash \o x
<1> DEFINE C == Text
           V == Text
           v == << >>
           a == Joined(w)
           b == Joined(Append(w, x))
<1>1. w \in Seq(C) /\ x \in C /\ Append(w, x) \in Lists /\ Len(w) + 1 \in Nat
      /\ (w = << >> => Len(w) = 0) /\ (w # << >> => Len(w) # 0)
  <2>1. w \in Seq(Text) /\ Append(w, x) \in Lists
    BY WithoutLast DEF Lists
  <2>2. Len(w) \in Nat /\ (w = << >> <=> Len(w) = 0)
    BY <2>1, EmptySeq
  <2> QED
    BY <2>1, <2>2
<1>2. IsFold(a, JoinF, v, w, V) /\ IsFold(b, JoinF, v, Append(w, x), V)
  BY <1>1, JoinedFold
<1> HIDE DEF C, V, v, a, b
<1>3. a \in V /\ b = JoinF[<<Len(w) + 1, a, x>>]
  BY <1>1, <1>2, FoldAppend
<1>4. b = Join(Len(w) + 1, a, x)
  BY <1>1, <1>3, JoinType DEF V
<1>5. Len(w) \in Nat
  BY <1>1
<1> QED
  BY <1>1, <1>3, <1>4, <1>5 DEF Join, V, a, b

LEMMA JoinedSegments ==
  ASSUME NEW s \in Text
  PROVE  Joined(Segments(s)) = s
<1> DEFINE C == Characters
           Back(t) == Joined(Segments(t)) = t
           S == {t \in Seq(C) : Back(t)}
<1>0. /\ s \in Seq(C) /\ Text = Seq(C) /\ Lists = Seq(Text) /\ "/" \in C
      /\ << >> \in Text /\ << >> \in Lists /\ Slash = <<"/">> /\ Slash \in Text
  BY ListFacts DEF Text, Characters, Slash
<1> HIDE DEF C
<1>1. Back(<< >>)
  <2> DEFINE nil == << >>
             v == << >>
  <2>1. Segments(nil) = Append(v, nil) /\ v \in Lists /\ nil \in Text /\ v = << >>
    BY <1>0, ListFacts, SegmentsSteps
  <2> HIDE DEF nil, v
  <2>2. Joined(Append(v, nil)) = nil
    BY <2>1, JoinedSteps
  <2> QED
    BY <2>1, <2>2 DEF nil
<1>2. ASSUME NEW t \in Seq(C), NEW c \in C, Back(t) PROVE Back(Append(t, c))
  <2>1. /\ Segments(t) \in Lists /\ Segments(t) # << >>
        /\ Segments(Append(t, c)) = Split(Segments(t), c)
    BY <1>0, SegmentsSteps DEF C
  <2>2. PICK w \in Lists, z \in Text : Segments(t) = Append(w, z)
    BY <1>0, <2>1, SequenceEmptyOrAppend
  <2> DEFINE y == Append(w, z)
             e == Append(z, c)
             nil == << >>
  <2>3. y \in Lists /\ y # << >> /\ e \in Text /\ nil \in Text
    BY <1>0, <2>2, WithoutLast, AppendProperties
  <2>4. Split(y, c) = IF c = "/" THEN Append(y, nil) ELSE Append(w, e)
    BY <2>2, SplitLast DEF C
  <2>5. Joined(y) = t
    BY <1>2, <2>2
  <2>6. /\ w = << >> => t = z
        /\ w # << >> => t = (Joined(w) \o Slash) \o z
    BY <2>5, JoinedSteps
  <2>7. Segments(Append(t, c)) = Split(y, c)
    BY <2>1, <2>2
  <2>8. CASE c = "/"
    <3> HIDE DEF y, nil
    <3>1. Joined(Append(y, nil)) = (t \o Slash) \o nil
      BY <2>3, <2>5, JoinedSteps
    <3>2. t \o Slash = Append(t, c) /\ t \o Slash \in Seq(C)
      BY <1>0, <2>8, AppendIsConcat, ConcatProperties
    <3>3. (t \o Slash) \o nil = t \o Slash
      BY <3>2, ConcatEmptySeq DEF nil
    <3> QED
      BY <2>4, <2>7, <2>8, <3>1, <3>2, <3>3
  <2>9. CASE c # "/"
    <3> HIDE DEF y, nil
    <3>1. /\ w = << >> => Joined(Append(w, e)) = e
          /\ w # << >> => Joined(Append(w, e)) = (Joined(w) \o Slash) \o e
      <4> HIDE DEF e
      <4> QED
        BY <2>3, JoinedSteps
    <3>2. CASE w = << >>
      BY <2>4, <2>6, <2>7, <2>9, <3>1, <3>2 DEF e
    <3>3. CASE w # << >>
      <4> DEFINE d == Joined(w) \o Slash
      <4>1. Joined(w) \in Text
        BY JoinedSteps
      <4>2. d \in Seq(C)
        BY <1>0, <4>1, ConcatProperties
      <4> HIDE DEF d
      <4>3. d \o Append(z, c) = Append(d \o z, c)
        BY <1>0, <4>2, ConcatAppend
      <4> QED
        BY <2>4, <2>6, <2>7, <2>9, <3>1, <3>3, <4>3 DEF e, d
    <3> QED
      BY <3>2, <3>3
  <2> QED
    BY <2>8, <2>9
<1> HIDE DEF Back
<1>3. Seq(C) \subseteq S
  <2>1. << >> \in S
    BY <1>0, <1>1
  <2>2. \A t \in Seq(C), c \in C : t \in S => Append(t, c) \in S
    BY <1>2, AppendProperties
  <2> HIDE DEF S
  <2> QED
    BY <2>1, <2>2, AppendInduction
<1>4. Back(s)
  BY <1>0, <1>3
<1> QED
  BY <1>4 DEF Back

-----------------------------------------------------------------------------
(* The segments of a text around a position of it.                           *)
\* Two parts that hold the same characters.
LEMMA PartsEqual ==
  ASSUME NEW s \in Text, NEW p \in Nat, NEW q \in 0..Len(s), p <= q,
         NEW t \in Text, NEW k \in Nat, NEW n \in 0..Len(t), k <= n,
         n - k = q - p, \A m \in 1..q - p : s[p + m] = t[k + m]
  PROVE  SubSeq(s, p + 1, q) = SubSeq(t, k + 1, n)
<1> DEFINE a == SubSeq(s, p + 1, q)
           b == SubSeq(t, k + 1, n)
<1>1. a \in Text /\ Len(a) = q - p /\ \A m \in 1..q - p : a[m] = s[p + m]
  BY PartOfText
<1>2. b \in Text /\ Len(b) = n - k /\ \A m \in 1..n - k : b[m] = t[k + m]
  BY PartOfText
<1> HIDE DEF a, b
<1>3. Len(a) = Len(b) /\ \A m \in 1..Len(a) : a[m] = b[m]
  BY <1>1, <1>2
<1>4. a = b
  BY <1>1, <1>2, <1>3, SeqEqual DEF Text
<1> QED
  BY <1>4 DEF a, b

\* A part with the character behind it, and what follows it.
LEMMA PartAppend ==
  ASSUME NEW s \in Text, NEW p \in Nat, NEW q \in 0..Len(s), p <= q, q < Len(s)
  PROVE  /\ SubSeq(s, p + 1, Len(s)) = Append(SubSeq(s, p + 1, q), s[q + 1])
                                       \o SubSeq(s, q + 2, Len(s))
         /\ s[q + 1] \in Characters /\ SubSeq(s, q + 2, Len(s)) \in Text
<1> DEFINE a == SubSeq(s, p + 1, q)
           r == q + 1
           b == SubSeq(s, r + 1, Len(s))
           c == SubSeq(s, p + 1, Len(s))
           e == Append(a, s[q + 1])
<1>0. /\ Len(s) \in Nat /\ q \in Nat /\ r = q + 1 /\ r \in Nat /\ Len(s) \in 0..Len(s)
      /\ r <= Len(s) /\ p <= Len(s) /\ r + 1 = q + 2
      /\ s[q + 1] \in Characters
  BY DEF Text
<1> HIDE DEF r
<1>1. a \in Text /\ Len(a) = q - p /\ \A m \in 1..q - p : a[m] = s[p + m]
  BY PartOfText
<1>2. b \in Text /\ Len(b) = Len(s) - r /\ \A m \in 1..Len(s) - r : b[m] = s[r + m]
  BY <1>0, PartOfText
<1>3. c \in Text /\ Len(c) = Len(s) - p /\ \A m \in 1..Len(s) - p : c[m] = s[p + m]
  BY <1>0, PartOfText
<1> HIDE DEF a, b, c
<1>4. /\ e \in Text /\ Len(e) = (q - p) + 1 /\ e[(q - p) + 1] = s[q + 1]
      /\ \A m \in 1..q - p : e[m] = a[m]
  <2> DEFINE C == Characters
             d == s[q + 1]
  <2>1. a \in Seq(C) /\ d \in C /\ Text = Seq(C)
    BY <1>0, <1>1 DEF Text
  <2> HIDE DEF C, d
  <2>2. /\ Append(a, d) \in Seq(C) /\ Len(Append(a, d)) = Len(a) + 1
        /\ Append(a, d)[Len(a) + 1] = d
        /\ \A m \in 1..Len(a) : Append(a, d)[m] = a[m]
    BY <2>1, AppendProperties
  <2>3. e = Append(a, d)
    BY DEF d
  <2> HIDE DEF e
  <2> QED
    BY <1>1, <2>1, <2>2, <2>3 DEF d
<1> HIDE DEF e
<1>5. /\ e \o b \in Text /\ Len(e \o b) = Len(e) + Len(b)
      /\ \A m \in 1..Len(e) + Len(b) : (e \o b)[m] = IF m <= Len(e) THEN e[m] ELSE b[m - Len(e)]
  BY <1>2, <1>4, ConcatProperties DEF Text
<1>6. Len(e \o b) = Len(c)
  BY <1>0, <1>2, <1>3, <1>4, <1>5
<1>7. ASSUME NEW m \in 1..Len(c) PROVE c[m] = (e \o b)[m]
  <2>0. m \in Nat /\ m >= 1 /\ m <= Len(s) - p /\ c[m] = s[p + m]
        /\ (e \o b)[m] = IF m <= Len(e) THEN e[m] ELSE b[m - Len(e)]
    BY <1>0, <1>3, <1>5, <1>6
  <2>1. CASE m <= q - p
    <3>1. m \in 1..q - p /\ m <= Len(e)
      BY <1>0, <1>4, <2>0, <2>1
    <3> QED
      BY <1>1, <1>4, <2>0, <3>1
  <2>2. CASE m = (q - p) + 1
    <3>1. m <= Len(e) /\ p + m = q + 1
      BY <1>0, <1>4, <2>0, <2>2
    <3> QED
      BY <1>4, <2>0, <2>2, <3>1
  <2>3. CASE m > (q - p) + 1
    <3>1. ~(m <= Len(e)) /\ m - Len(e) \in 1..Len(s) - r /\ r + (m - Len(e)) = p + m
      BY <1>0, <1>4, <2>0, <2>3
    <3>2. b[m - Len(e)] = s[r + (m - Len(e))]
      BY <1>2, <3>1
    <3> QED
      BY <2>0, <3>1, <3>2
  <2> QED
    BY <1>0, <2>0, <2>1, <2>2, <2>3
<1>8. c = e \o b
  BY <1>3, <1>5, <1>6, <1>7, SeqEqual DEF Text
<1> QED
  BY <1>0, <1>2, <1>8 DEF a, b, c, e

\* The segments before position j, which a "/" precedes.
Before(s, j) == IF j = 0 THEN << >> ELSE Segments(SubSeq(s, 1, j - 1))

LEMMA BeforeSame ==
  ASSUME NEW s \in Text, NEW t \in Text, NEW j \in Nat, j <= Len(s), j <= Len(t),
         \A m \in 1..j : s[m] = t[m]
  PROVE  Before(s, j) = Before(t, j) /\ Before(s, j) \in Lists
<1> SUFFICES ASSUME j # 0 PROVE Before(s, j) = Before(t, j) /\ Before(s, j) \in Lists
  BY ListFacts DEF Before
<1> DEFINE n == j - 1
<1>1. n = j - 1 /\ n \in 0..Len(s) /\ n \in 0..Len(t) /\ 0 \in Nat /\ 0 <= n /\ n - 0 = n - 0
      /\ \A m \in 1..n - 0 : s[0 + m] = t[0 + m]
  BY DEF Text
<1> HIDE DEF n
<1>2. SubSeq(s, 0 + 1, n) = SubSeq(t, 0 + 1, n)
  BY <1>1, PartsEqual
<1>3. SubSeq(s, 0 + 1, n) \in Text
  BY <1>1, PartOfText
<1>4. Segments(SubSeq(s, 0 + 1, n)) \in Lists
  <2> DEFINE u == SubSeq(s, 0 + 1, n)
             c == "/"
  <2>1. u \in Text /\ c \in Characters
    BY <1>3 DEF Characters
  <2> HIDE DEF u, c
  <2>2. Segments(u) \in Lists
    BY <2>1, SegmentsSteps
  <2> QED
    BY <2>2 DEF u
<1>5. Before(s, j) = Segments(SubSeq(s, 0 + 1, n)) /\ Before(t, j) = Segments(SubSeq(t, 0 + 1, n))
  BY DEF Before, n
<1> QED
  BY <1>2, <1>4, <1>5

LEMMA SegmentsType ==
  ASSUME NEW s \in Text
  PROVE  Segments(s) \in Lists /\ Segments(s) # << >>
<1> DEFINE c == "/"
<1>1. c \in Characters
  BY DEF Characters
<1> HIDE DEF c
<1> QED
  BY <1>1, SegmentsSteps

\* The segments before j and the ones behind it.
LEMMA SegmentsBehind ==
  ASSUME NEW s \in Text, NEW j \in 0..Len(s), j = 0 \/ s[j] = "/"
  PROVE  /\ Segments(s) = Before(s, j) \o Segments(SubSeq(s, j + 1, Len(s)))
         /\ Before(s, j) \in Lists /\ SubSeq(s, j + 1, Len(s)) \in Text
<1>0. Len(s) \in Nat /\ Len(s) \in 0..Len(s) /\ j \in Nat /\ j <= Len(s)
  BY DEF Text
<1>1. Before(s, j) \in Lists
  BY <1>0, BeforeSame
<1>2. SubSeq(s, j + 1, Len(s)) \in Text
  BY <1>0, PartOfText
<1>3. CASE j = 0
  <2>1. SubSeq(s, 1, Len(s)) = s
    <3> DEFINE u == SubSeq(s, 0 + 1, Len(s))
    <3>1. 0 \in Nat /\ 0 <= Len(s)
      BY <1>0
    <3>2. u \in Text /\ Len(u) = Len(s) - 0 /\ \A m \in 1..Len(s) - 0 : u[m] = s[0 + m]
      BY <1>0, <3>1, PartOfText
    <3> HIDE DEF u
    <3>3. Len(u) = Len(s) /\ \A m \in 1..Len(u) : u[m] = s[m]
      BY <1>0, <3>2
    <3>4. u = s
      BY <3>2, <3>3, SeqEqual DEF Text
    <3> QED
      BY <3>4 DEF u
  <2>2. Before(s, j) = << >>
    BY <1>3 DEF Before
  <2>3. << >> \o Segments(s) = Segments(s)
    <3> DEFINE w == Segments(s)
    <3>1. w \in Seq(Text)
      BY SegmentsType DEF Lists
    <3> HIDE DEF w
    <3> QED
      BY <3>1, ConcatEmptySeq DEF w
  <2>4. SubSeq(s, j + 1, Len(s)) = s
    BY <1>3, <2>1
  <2> QED
    BY <1>1, <2>2, <2>3, <2>4
<1>4. CASE j # 0
  <2> DEFINE n == j - 1
             x == SubSeq(s, 0 + 1, n)
             y == SubSeq(s, n + 2, Len(s))
             u == SubSeq(s, 0 + 1, Len(s))
  <2>1. n \in 0..Len(s) /\ n < Len(s) /\ 0 \in Nat /\ 0 <= n /\ n + 1 = j /\ n + 2 = j + 1 /\ n = j - 1
    BY <1>0, <1>4
  <2> HIDE DEF n
  <2>2. u = Append(x, s[n + 1]) \o y /\ y \in Text
    BY <2>1, PartAppend
  <2>3. x \in Text
    BY <2>1, PartOfText
  <2>4. u = s
    <3>1. 0 <= Len(s) /\ 0 \in Nat
      BY <1>0
    <3>2. u \in Text /\ Len(u) = Len(s) - 0 /\ \A m \in 1..Len(s) - 0 : u[m] = s[0 + m]
      BY <1>0, <3>1, PartOfText
    <3> HIDE DEF u
    <3>3. Len(u) = Len(s) /\ \A m \in 1..Len(u) : u[m] = s[m]
      BY <1>0, <3>2
    <3> QED
      BY <3>2, <3>3, SeqEqual DEF Text
  <2>5. Before(s, j) = Segments(x)
    BY <1>4, <2>1 DEF Before
  <2>6. y = SubSeq(s, j + 1, Len(s))
    BY <2>1
  <2> HIDE DEF x, y, u
  <2>7. s = Append(x, "/") \o y
    BY <1>4, <2>1, <2>2, <2>4
  <2>8. Segments(Append(x, "/") \o y) = Segments(x) \o Segments(y)
    BY <2>2, <2>3, SegmentsOfTwo
  <2> QED
    BY <1>1, <1>2, <2>5, <2>6, <2>7, <2>8
<1> QED
  BY <1>3, <1>4

\* A segment that begins at j and has no "/" up to i: with what is before and
\* behind it.
LEMMA SegmentsAt ==
  ASSUME NEW s \in Text, NEW i \in 0..Len(s), NEW j \in 0..i, j = 0 \/ s[j] = "/",
         \A k \in j + 1..i : s[k] # "/"
  PROVE  LET x == SubSeq(s, j + 1, i)
             rest == Segments(SubSeq(s, i + 2, Len(s)))
         IN /\ x \in Text /\ Before(s, j) \in Lists
            /\ i = Len(s) => Segments(s) = Before(s, j) \o <<x>>
            /\ i < Len(s) /\ s[i + 1] = "/" =>
                 /\ Segments(s) = Before(s, j) \o (<<x>> \o rest)
                 /\ Before(s, i + 1) = Append(Before(s, j), x)
                 /\ rest \in Lists /\ rest # << >>
<1> DEFINE x == SubSeq(s, j + 1, i)
           y == SubSeq(s, i + 2, Len(s))
           B == Before(s, j)
           tail == SubSeq(s, j + 1, Len(s))
<1>0. /\ Len(s) \in Nat /\ Len(s) \in 0..Len(s) /\ j \in Nat /\ j \in 0..Len(s) /\ j <= i
      /\ i \in Nat /\ i <= Len(s)
  BY DEF Text
<1>1. x \in Text /\ Len(x) = i - j /\ \A m \in 1..i - j : x[m] = s[j + m]
  BY <1>0, PartOfText
<1>2. Segments(s) = B \o Segments(tail) /\ B \in Lists /\ tail \in Text
  BY <1>0, SegmentsBehind
<1>3. Segments(x) = <<x>>
  <2>1. \A m \in 1..Len(x) : x[m] # "/"
    <3>1. \A m \in 1..i - j : j + m \in j + 1..i
      BY <1>0
    <3> QED
      BY <1>1, <3>1
  <2> HIDE DEF x
  <2> QED
    BY <1>1, <2>1, OneSegment
<1>4. i = Len(s) => Segments(s) = B \o <<x>>
  BY <1>2, <1>3
<1>5. ASSUME i < Len(s), s[i + 1] = "/"
      PROVE  /\ Segments(s) = B \o (<<x>> \o Segments(y))
             /\ Segments(y) \in Lists /\ Segments(y) # << >>
  <2>1. tail = Append(x, s[i + 1]) \o y /\ y \in Text
    BY <1>0, <1>5, PartAppend
  <2> HIDE DEF x, y, tail
  <2>2. Segments(Append(x, "/") \o y) = Segments(x) \o Segments(y)
    BY <1>1, <2>1, SegmentsOfTwo
  <2>3. Segments(y) \in Lists /\ Segments(y) # << >>
    BY <2>1, SegmentsType
  <2> QED
    BY <1>2, <1>3, <1>5, <2>1, <2>2, <2>3
<1>6. ASSUME i < Len(s), s[i + 1] = "/" PROVE Before(s, i + 1) = Append(B, x)
  <2> DEFINE t == SubSeq(s, 0 + 1, i)
  <2>1. t \in Text /\ Len(t) = i /\ \A m \in 1..i : t[m] = s[m]
    <3>1. 0 \in Nat /\ 0 <= i
      BY <1>0
    <3>2. t \in Text /\ Len(t) = i - 0 /\ \A m \in 1..i - 0 : t[m] = s[0 + m]
      BY <3>1, PartOfText
    <3> HIDE DEF t
    <3> QED
      BY <1>0, <3>2
  <2>2. Before(s, i + 1) = Segments(t)
    <3>1. i + 1 # 0 /\ (i + 1) - 1 = i /\ 0 + 1 = 1
      BY <1>0
    <3> QED
      BY <3>1 DEF Before
  <2> HIDE DEF t
  <2>3. j \in 0..Len(t) /\ (j = 0 \/ t[j] = "/")
    BY <1>0, <2>1
  <2>4. Segments(t) = Before(t, j) \o Segments(SubSeq(t, j + 1, Len(t)))
    BY <2>1, <2>3, SegmentsBehind
  <2>5. Before(s, j) = Before(t, j)
    <3>1. j <= Len(s) /\ j <= Len(t) /\ \A m \in 1..j : s[m] = t[m]
      BY <1>0, <2>1
    <3> QED
      BY <1>0, <2>1, <3>1, BeforeSame
  <2>6. SubSeq(t, j + 1, Len(t)) = x
    <3>1. i \in 0..Len(t) /\ i - j = i - j /\ \A m \in 1..i - j : t[j + m] = s[j + m]
      BY <1>0, <2>1
    <3>2. SubSeq(t, j + 1, i) = SubSeq(s, j + 1, i)
      BY <1>0, <2>1, <3>1, PartsEqual
    <3> QED
      BY <2>1, <3>2
  <2> HIDE DEF x, B
  <2>7. Segments(t) = B \o <<x>>
    BY <1>3, <2>4, <2>5, <2>6 DEF B
  <2>8. Append(B, x) = B \o <<x>>
    BY <1>1, <1>2, WithoutLast
  <2> QED
    BY <2>2, <2>7, <2>8
<1> QED
  BY <1>1, <1>2, <1>4, <1>5, <1>6

\* What is left of the segments when the text from j to q is cut out.
LEMMA SegmentsOfCut ==
  ASSUME NEW s \in Text, NEW q \in 0..Len(s), NEW j \in 0..q, j = 0 \/ s[j] = "/"
  PROVE  Segments(Cut(s, j, q)) = Before(s, j) \o Segments(SubSeq(s, q + 1, Len(s)))
<1> DEFINE t == Cut(s, j, q)
<1>0. /\ Len(s) \in Nat /\ Len(s) \in 0..Len(s) /\ j \in Nat /\ j <= q /\ q \in Nat /\ q <= Len(s)
  BY DEF Text
<1>1. /\ t \in Text /\ Len(t) = Len(s) - (q - j)
      /\ \A m \in 1..j : t[m] = s[m]
      /\ \A m \in j + 1..Len(s) - (q - j) : t[m] = s[m + (q - j)]
  BY <1>0, CutText
<1> HIDE DEF t
<1>2. j \in 0..Len(t) /\ (j = 0 \/ t[j] = "/") /\ Len(t) \in Nat /\ Len(t) \in 0..Len(t) /\ j <= Len(t)
  BY <1>0, <1>1
<1>3. Segments(t) = Before(t, j) \o Segments(SubSeq(t, j + 1, Len(t)))
  BY <1>1, <1>2, SegmentsBehind
<1>4. Before(s, j) = Before(t, j)
  <2>1. j <= Len(s) /\ j <= Len(t) /\ \A m \in 1..j : s[m] = t[m]
    BY <1>0, <1>1, <1>2
  <2> QED
    BY <1>0, <1>1, <2>1, BeforeSame
<1>5. SubSeq(t, j + 1, Len(t)) = SubSeq(s, q + 1, Len(s))
  <2>1. Len(s) - q = Len(t) - j
    BY <1>0, <1>1
  <2>2. ASSUME NEW m \in 1..Len(t) - j PROVE t[j + m] = s[q + m]
    <3>1. j + m \in j + 1..Len(s) - (q - j) /\ (j + m) + (q - j) = q + m
      BY <1>0, <1>1
    <3> QED
      BY <1>1, <3>1
  <2> QED
    BY <1>0, <1>1, <1>2, <2>1, <2>2, PartsEqual
<1> QED
  BY <1>3, <1>4, <1>5 DEF t

-----------------------------------------------------------------------------
(* What the loops do to the segments of the buffer.                          *)
CleanSegment(x) == Holds(x, 0, DotDot) => x = DotDot
IsClean(w) == \A k \in 1..Len(w) : CleanSegment(w[k])
LastOf(w) == w[Len(w)]
Among(x, w) == \E k \in 1..Len(w) : w[k] = x

\* The elements of two lists, one behind the other.
LEMMA ElementsOfTwo ==
  ASSUME NEW a \in Lists, NEW b \in Lists
  PROVE  /\ a \o b \in Lists
         /\ IsClean(a \o b) <=> IsClean(a) /\ IsClean(b)
         /\ Plain(a) /\ Plain(b) => Plain(a \o b)
         /\ b # << >> => LastOf(a \o b) = LastOf(b)
         /\ \A x : Among(x, a) \/ Among(x, b) => Among(x, a \o b)
<1> DEFINE c == a \o b
<1>1. /\ a \in Seq(Text) /\ b \in Seq(Text) /\ Len(a) \in Nat /\ Len(b) \in Nat
      /\ (b # << >> => Len(b) # 0)
  BY EmptySeq DEF Lists
<1>2. /\ c \in Seq(Text) /\ Len(c) = Len(a) + Len(b)
      /\ \A k \in 1..Len(a) + Len(b) : c[k] = IF k <= Len(a) THEN a[k] ELSE b[k - Len(a)]
  BY <1>1, ConcatProperties
<1> HIDE DEF c
<1>3. ASSUME NEW k \in 1..Len(a) PROVE k \in 1..Len(c) /\ c[k] = a[k]
  BY <1>1, <1>2
<1>4. ASSUME NEW k \in 1..Len(b) PROVE Len(a) + k \in 1..Len(c) /\ c[Len(a) + k] = b[k]
  <2>1. Len(a) + k \in 1..Len(a) + Len(b) /\ ~(Len(a) + k <= Len(a)) /\ (Len(a) + k) - Len(a) = k
    BY <1>1
  <2> QED
    BY <1>2, <2>1
<1>5. ASSUME NEW k \in 1..Len(c)
      PROVE  (k \in 1..Len(a) /\ c[k] = a[k]) \/ (k - Len(a) \in 1..Len(b) /\ c[k] = b[k - Len(a)])
  BY <1>1, <1>2
<1>6. IsClean(c) <=> IsClean(a) /\ IsClean(b)
  <2>1. ASSUME IsClean(c) PROVE IsClean(a) /\ IsClean(b)
    BY <1>3, <1>4, <2>1 DEF IsClean
  <2>2. ASSUME IsClean(a), IsClean(b) PROVE IsClean(c)
    BY <1>5, <2>2 DEF IsClean
  <2> QED
    BY <2>1, <2>2
<1>7. Plain(a) /\ Plain(b) => Plain(c)
  BY <1>5 DEF Plain
<1>8. b # << >> => LastOf(c) = LastOf(b)
  <2> SUFFICES ASSUME b # << >> PROVE LastOf(c) = LastOf(b)
    OBVIOUS
  <2>1. Len(b) \in 1..Len(b)
    BY <1>1
  <2> QED
    BY <1>2, <1>4, <2>1 DEF LastOf
<1>9. c \in Lists
  BY <1>2 DEF Lists
<1>10. \A x : Among(x, a) \/ Among(x, b) => Among(x, c)
  BY <1>3, <1>4 DEF Among
<1> QED
  BY <1>6, <1>7, <1>8, <1>9, <1>10 DEF c

LEMMA OneElement ==
  ASSUME NEW x \in Text
  PROVE  /\ <<x>> \in Lists /\ <<x>> # << >> /\ LastOf(<<x>>) = x
         /\ IsClean(<<x>>) <=> CleanSegment(x)
         /\ Plain(<<x>>) <=> PlainSegment(x)
         /\ Among(x, <<x>>)
<1> DEFINE w == <<x>>
<1>1. w \in Seq(Text) /\ Len(w) = 1 /\ w[1] = x /\ w # << >>
  BY EmptySeq
<1> HIDE DEF w
<1>2. \A k \in 1..Len(w) : k = 1
  BY <1>1
<1>3. 1 \in 1..Len(w)
  BY <1>1
<1>4. w \in Lists /\ LastOf(w) = x
  BY <1>1 DEF Lists, LastOf
<1>5. IsClean(w) <=> CleanSegment(x)
  BY <1>1, <1>2, <1>3 DEF IsClean
<1>6. Plain(w) <=> PlainSegment(x)
  BY <1>1, <1>2, <1>3 DEF Plain
<1>7. Among(x, w)
  BY <1>1, <1>3 DEF Among
<1> QED
  BY <1>1, <1>4, <1>5, <1>6, <1>7 DEF w

\* An element between two lists, or at the end of one, is one of the whole.
LEMMA ElementBetween ==
  ASSUME NEW p \in Lists, NEW x \in Text, NEW q \in Lists
  PROVE  LET w == p \o (<<x>> \o q)
         IN w \in Lists /\ Among(x, w)
<1> DEFINE e == <<x>>
           r == e \o q
<1>1. e \in Lists /\ Among(x, e)
  BY OneElement
<1> HIDE DEF e
<1>2. r \in Lists /\ Among(x, r)
  BY <1>1, ElementsOfTwo
<1> HIDE DEF r
<1>3. p \o r \in Lists /\ Among(x, p \o r)
  BY <1>2, ElementsOfTwo
<1> QED
  BY <1>3 DEF r, e

LEMMA ElementLast ==
  ASSUME NEW p \in Lists, NEW x \in Text
  PROVE  LET w == p \o <<x>>
         IN w \in Lists /\ Among(x, w)
<1> DEFINE e == <<x>>
<1>1. e \in Lists /\ Among(x, e)
  BY OneElement
<1> HIDE DEF e
<1>2. p \o e \in Lists /\ Among(x, p \o e)
  BY <1>1, ElementsOfTwo
<1> QED
  BY <1>2 DEF e

\* The empty segment.
LEMMA EmptySegment ==
  << >> \in Text /\ CleanSegment(<< >>) /\ PlainSegment(<< >>)
<1> DEFINE nil == << >>
<1>1. nil \in Text /\ Len(nil) = 0 /\ Len(DotDot) = 2 /\ Len(<<".">>) = 1
  BY ListFacts DEF DotDot
<1>2. nil # DotDot /\ nil # <<".">>
  BY <1>1
<1>3. ~Holds(nil, 0, DotDot)
  BY <1>1 DEF Holds
<1> QED
  BY <1>1, <1>2, <1>3 DEF CleanSegment, PlainSegment

-----------------------------------------------------------------------------
\* A segment "." is cut out by the first loop.
LEMMA FirstCut ==
  ASSUME NEW s \in Text, NEW j \in Nat, j + 1 < Len(s), s[j + 1] = ".", s[j + 2] = "/",
         j = 0 \/ s[j] = "/"
  PROVE  LET v == Segments(s)
             w == Segments(Cut(s, j, j + 2))
         IN /\ Kept(w) = Kept(v) /\ LastOf(w) = LastOf(v)
            /\ IsClean(v) => IsClean(w)
<1> DEFINE i == j + 1
           x == SubSeq(s, j + 1, i)
           q == Segments(SubSeq(s, i + 2, Len(s)))
           B == Before(s, j)
           v == Segments(s)
           w == Segments(Cut(s, j, j + 2))
           point == <<".">>
<1>0. /\ Len(s) \in Nat /\ i \in 0..Len(s) /\ j \in 0..i /\ i = j + 1 /\ i < Len(s)
      /\ j + 2 \in 0..Len(s) /\ j \in 0..j + 2 /\ (j + 2) + 1 = i + 2 /\ j <= i
  BY DEF Text
<1>1. s[i + 1] = "/" /\ \A k \in j + 1..i : s[k] # "/"
  BY <1>0
<1> HIDE DEF i
<1>2. /\ x \in Text /\ B \in Lists /\ q \in Lists /\ q # << >>
      /\ v = B \o (<<x>> \o q)
  BY <1>0, <1>1, SegmentsAt
<1>3. x = point
  BY <1>0, PartIs
<1>4. w = B \o q
  BY <1>0, SegmentsOfCut
<1> HIDE DEF x, q, B, v, w
<1>5. Kept(w) = Kept(v)
  BY <1>2, <1>3, <1>4, PointOut DEF point
<1> DEFINE d == <<point>>
           r == d \o q
<1>6. d \in Lists /\ v = B \o r
  BY <1>2, <1>3, OneElement
<1> HIDE DEF d, point
<1>7. r \in Lists /\ LastOf(r) = LastOf(q) /\ (IsClean(r) => IsClean(q))
  BY <1>2, <1>6, ElementsOfTwo
<1>8. r # << >>
  <2>1. Len(q) \in Nat \ {0} /\ Len(<< >>) = 0
    BY <1>2, EmptySeq DEF Lists
  <2>2. Among(q[1], q)
    BY <2>1 DEF Among
  <2>3. Among(q[1], r)
    BY <1>2, <1>6, <2>2, ElementsOfTwo
  <2> HIDE DEF r
  <2> QED
    BY <2>1, <2>3 DEF Among
<1> HIDE DEF r
<1>9. /\ LastOf(B \o r) = LastOf(r) /\ (IsClean(B \o r) => IsClean(B) /\ IsClean(r))
      /\ LastOf(B \o q) = LastOf(q) /\ (IsClean(B) /\ IsClean(q) => IsClean(B \o q))
  BY <1>2, <1>7, <1>8, ElementsOfTwo
<1> QED
  BY <1>4, <1>5, <1>6, <1>7, <1>9 DEF v, w

-----------------------------------------------------------------------------
(* The scan of the second loop over a clean path.                            *)
\* What a last segment "." leaves behind the path.
LeftOver(w) == IF LastOf(w) = <<".">> THEN <<"nul">> ELSE << >>
IsLeftOver(C, T) == T = << >> \/ (T = <<"nul">> /\ (C = << >> \/ C[Len(C)] = "/"))
NoneUp(w) == \A k \in 1..Len(w) : w[k] # DotDot

\* The second loop at position i of a path C (and of T behind it), in a segment
\* that begins at j: the segments before j are neither "." nor "..", and w is
\* kept of the segments of C.
NormalScan(C, T, i, j, w) ==
  /\ C \in Text /\ IsLeftOver(C, T)
  /\ Kept(Segments(C)) = w /\ IsClean(Segments(C))
  /\ i \in Nat /\ j \in Nat /\ j <= i /\ j <= Len(C) /\ i <= Len(C) + Len(T)
  /\ j = 0 \/ C[j] = "/"
  /\ \A k \in j + 1..i : k <= Len(C) => C[k] # "/"
  /\ Plain(Before(C, j)) /\ ~PointsAt(C, j)

LEMMA LeftOverFacts ==
  ASSUME NEW C \in Text, NEW T, IsLeftOver(C, T)
  PROVE  /\ T \in Text /\ C \o T \in Text /\ Len(C) \in Nat /\ Len(T) \in {0, 1}
         /\ Len(C \o T) = Len(C) + Len(T)
         /\ \A k \in 1..Len(C) : (C \o T)[k] = C[k]
         /\ Len(T) = 0 => T = << >> /\ C \o T = C
         /\ Len(T) = 1 => /\ T[1] = "nul" /\ (C \o T)[Len(C) + 1] = "nul"
                          /\ Len(C) = 0 \/ C[Len(C)] = "/"
<1>1. "nul" \in Characters
  BY DEF Characters
<1>2. /\ T \in Text /\ Len(T) \in {0, 1} /\ (Len(T) = 0 => T = << >>)
      /\ (Len(T) = 1 => T[1] = "nul" /\ (C = << >> \/ C[Len(C)] = "/"))
  <2>1. <<"nul">> \in Seq(Characters) /\ Len(<<"nul">>) = 1 /\ <<"nul">>[1] = "nul"
        /\ Len(<< >>) = 0 /\ << >> \in Seq(Characters)
    BY <1>1
  <2>2. CASE T = << >>
    BY <2>1, <2>2 DEF Text
  <2>3. CASE T = <<"nul">> /\ (C = << >> \/ C[Len(C)] = "/")
    BY <2>1, <2>3 DEF Text
  <2> QED
    BY <2>2, <2>3 DEF IsLeftOver
<1>3. Len(C) \in Nat /\ (C = << >> => Len(C) = 0)
  BY DEF Text
<1>4. /\ C \o T \in Text /\ Len(C \o T) = Len(C) + Len(T)
      /\ \A k \in 1..Len(C) + Len(T) : (C \o T)[k] = IF k <= Len(C) THEN C[k] ELSE T[k - Len(C)]
  BY <1>2, ConcatProperties DEF Text
<1>5. T = << >> => C \o T = C
  BY ConcatEmptySeq DEF Text
<1>6. \A k \in 1..Len(C) : (C \o T)[k] = C[k]
  BY <1>2, <1>3, <1>4
<1>7. Len(T) = 1 => (C \o T)[Len(C) + 1] = "nul"
  <2> SUFFICES ASSUME Len(T) = 1 PROVE (C \o T)[Len(C) + 1] = "nul"
    OBVIOUS
  <2>1. Len(C) + 1 \in 1..Len(C) + Len(T) /\ ~(Len(C) + 1 <= Len(C)) /\ (Len(C) + 1) - Len(C) = 1
    BY <1>3
  <2> QED
    BY <1>2, <1>4, <2>1
<1> QED
  BY <1>2, <1>3, <1>4, <1>5, <1>6, <1>7

\* A cut before the tail leaves the tail.
LEMMA CutLeftOver ==
  ASSUME NEW C \in Text, NEW T, IsLeftOver(C, T), NEW q \in 0..Len(C), NEW j \in 0..q,
         j = 0 \/ C[j] = "/"
  PROVE  /\ Cut(C \o T, j, q) = Cut(C, j, q) \o T
         /\ IsLeftOver(Cut(C, j, q), T) /\ Cut(C, j, q) \in Text
<1> DEFINE b == C \o T
           D == Cut(C, j, q)
           s == Cut(b, j, q)
           d == q - j
<1>1. /\ b \in Text /\ T \in Text /\ Len(C) \in Nat /\ Len(T) \in {0, 1} /\ Len(b) = Len(C) + Len(T)
      /\ \A k \in 1..Len(C) : b[k] = C[k]
      /\ (Len(T) = 0 => T = << >> /\ b = C)
      /\ (Len(T) = 1 => /\ T[1] = "nul" /\ b[Len(C) + 1] = "nul"
                        /\ Len(C) = 0 \/ C[Len(C)] = "/")
  BY LeftOverFacts
<1>2. j \in Nat /\ q \in Nat /\ j <= q /\ q <= Len(C) /\ d \in Nat /\ q = j + d
  BY <1>1
<1>3. /\ D \in Text /\ Len(D) = Len(C) - d /\ \A m \in 1..j : D[m] = C[m]
      /\ \A m \in j + 1..Len(C) - d : D[m] = C[m + d]
  BY <1>2, CutText
<1> HIDE DEF b
<1>4. /\ s \in Text /\ Len(s) = Len(b) - d /\ \A m \in 1..j : s[m] = b[m]
      /\ \A m \in j + 1..Len(b) - d : s[m] = b[m + d]
  <2>1. q \in 0..Len(b)
    BY <1>1, <1>2
  <2> QED
    BY <1>1, <1>2, <2>1, CutText
<1> HIDE DEF D, s, d
<1>5. IsLeftOver(D, T)
  <2>1. CASE Len(T) = 0
    BY <1>1, <2>1 DEF IsLeftOver
  <2>2. CASE Len(T) = 1
    <3>1. T = <<"nul">>
      <4>1. T # << >>
        BY <2>2
      <4> QED
        BY <4>1 DEF IsLeftOver
    <3>2. CASE Len(D) = 0
      <4>1. D = << >>
        BY <1>3, <3>2, EmptySeq DEF Text
      <4> QED
        BY <3>1, <4>1 DEF IsLeftOver
    <3>3. CASE Len(D) # 0 /\ Len(D) = j
      <4>1. D[Len(D)] = C[j] /\ j # 0
        BY <1>2, <1>3, <3>3
      <4> QED
        BY <3>1, <4>1 DEF IsLeftOver
    <3>4. CASE Len(D) # 0 /\ Len(D) # j
      <4>1. Len(D) \in j + 1..Len(C) - d /\ Len(D) + d = Len(C) /\ Len(C) # 0
        BY <1>1, <1>2, <1>3, <3>4
      <4>2. D[Len(D)] = C[Len(C)]
        BY <1>3, <4>1
      <4> QED
        BY <1>1, <2>2, <3>1, <4>1, <4>2 DEF IsLeftOver
    <3> QED
      BY <3>2, <3>3, <3>4
  <2> QED
    BY <1>1, <2>1, <2>2
<1>6. /\ D \o T \in Text /\ Len(D \o T) = Len(D) + Len(T)
      /\ \A k \in 1..Len(D) : (D \o T)[k] = D[k]
      /\ (Len(T) = 1 => (D \o T)[Len(D) + 1] = "nul")
  BY <1>3, <1>5, LeftOverFacts
<1> DEFINE e == D \o T
<1> HIDE DEF e
<1>7. e \in Text /\ Len(e) = Len(s)
  <2>1. e \in Text /\ Len(e) = Len(D) + Len(T)
    BY <1>6 DEF e
  <2> QED
    BY <1>1, <1>2, <1>3, <1>4, <2>1
<1>8. ASSUME NEW k \in 1..Len(s) PROVE e[k] = s[k]
  <2>1. CASE k <= j
    <3>1. k \in 1..j /\ k \in 1..Len(D) /\ k \in 1..Len(C)
      BY <1>1, <1>2, <1>3, <2>1
    <3> QED
      BY <1>1, <1>3, <1>4, <1>6, <3>1 DEF e
  <2>2. CASE k > j /\ k <= Len(D)
    <3>1. k \in 1..Len(D) /\ k \in j + 1..Len(C) - d /\ k \in j + 1..Len(b) - d /\ k + d \in 1..Len(C)
      BY <1>1, <1>2, <1>3, <2>2
    <3> QED
      BY <1>1, <1>3, <1>4, <1>6, <3>1 DEF e
  <2>3. CASE k > Len(D)
    <3>0. k \in Nat /\ k <= Len(s) /\ Len(s) = Len(C) + Len(T) - d /\ k > Len(C) - d
          /\ Len(D) = Len(C) - d /\ Len(b) - d = Len(s)
      BY <1>1, <1>2, <1>3, <1>4, <2>3
    <3>4. (Len(T) = 0 \/ Len(T) = 1) /\ Len(C) \in Nat /\ d \in Nat
      BY <1>1, <1>2
    <3>5. Len(T) = 1
      BY <3>0, <3>4
    <3>1. k = Len(D) + 1 /\ Len(T) = 1 /\ k + d = Len(C) + 1
      BY <3>0, <3>4, <3>5
    <3>3. k \in j + 1..Len(b) - d
      BY <1>1, <1>2, <3>0
    <3>2. s[k] = b[k + d] /\ e[k] = "nul"
      BY <1>4, <1>6, <3>1, <3>3 DEF e
    <3> QED
      BY <1>1, <3>1, <3>2
  <2> QED
    BY <1>2, <1>3, <2>1, <2>2, <2>3
<1>9. e = s
  BY <1>4, <1>7, <1>8, SeqEqual DEF Text
<1> QED
  BY <1>3, <1>5, <1>9 DEF b, D, s, e

\* The first segment of a path of which no ".." is kept is not "..".
LEMMA FirstNotUp ==
  ASSUME NEW s \in Text, Below(Segments(s))
  PROVE  ~PointsAt(s, 0)
<1> SUFFICES ASSUME PointsAt(s, 0) PROVE FALSE
  OBVIOUS
<1>0. Len(s) \in Nat /\ 2 <= Len(s) /\ s[1] = "." /\ s[2] = "." /\ (2 = Len(s) \/ s[3] = "/")
  BY DEF PointsAt, Text
<1> DEFINE i == 2
           j == 0
           x == SubSeq(s, j + 1, i)
           q == Segments(SubSeq(s, i + 2, Len(s)))
           B == Before(s, j)
<1>1. /\ i \in 0..Len(s) /\ j \in 0..i /\ j = 0 /\ i = j + 2 /\ j \in Nat /\ j <= i
      /\ \A k \in j + 1..i : s[k] # "/"
  BY <1>0
<1>2. s[j + 1] = "." /\ s[j + 2] = "." /\ (i = Len(s) \/ (i < Len(s) /\ s[i + 1] = "/"))
  <2>1. j + 1 = 1 /\ j + 2 = 2 /\ i + 1 = 3 /\ (i = Len(s) \/ i < Len(s)) /\ i = 2
    BY <1>0
  <2> HIDE DEF i, j
  <2>2. s[j + 1] = "." /\ s[j + 2] = "."
    BY <1>0, <2>1
  <2>3. i = Len(s) \/ s[i + 1] = "/"
    BY <1>0, <2>1
  <2> QED
    BY <2>1, <2>2, <2>3
<1>3. B = << >>
  BY DEF Before
<1> HIDE DEF i, j
<1>4. /\ x \in Text /\ B \in Lists
      /\ (i = Len(s) => Segments(s) = B \o <<x>>)
      /\ (i < Len(s) /\ s[i + 1] = "/" => Segments(s) = B \o (<<x>> \o q) /\ q \in Lists)
  BY <1>1, SegmentsAt
<1>5. x = DotDot
  BY <1>1, <1>2, PartIs
<1> HIDE DEF x, q, B
<1> DEFINE nil == << >>
           y == <<DotDot>>
<1>6. nil \in Seq(Text) /\ y \in Seq(Text) /\ nil \in Lists
  BY OneElement, ListFacts DEF Lists
<1>7. ~CanDrop(Stack(nil))
  BY StackSteps DEF CanDrop
<1>8. ASSUME NEW r \in Lists, Segments(s) = B \o (y \o r) PROVE FALSE
  <2> HIDE DEF nil, y
  <2>1. r \in Seq(Text) /\ B = nil
    BY <1>3 DEF Lists, nil
  <2>2. (nil \o y) \o r = nil \o (y \o r)
    BY <1>6, <2>1, ConcatAssociative
  <2>3. Below((nil \o <<DotDot>>) \o r)
    BY <1>8, <2>1, <2>2 DEF y
  <2> QED
    BY <1>6, <1>7, <2>3, DotsDrop
<1>9. CASE i = Len(s)
  <2>1. Segments(s) = B \o y
    BY <1>4, <1>5, <1>9
  <2> HIDE DEF y
  <2>2. y \o nil = y
    BY <1>6, ConcatEmptySeq
  <2>3. Segments(s) = B \o (y \o nil)
    BY <2>1, <2>2
  <2> HIDE DEF nil
  <2> QED
    BY <1>6, <1>8, <2>3
<1>10. CASE i < Len(s) /\ s[i + 1] = "/"
  <2>1. Segments(s) = B \o (y \o q) /\ q \in Lists
    BY <1>4, <1>5, <1>10
  <2> QED
    BY <1>8, <2>1
<1> QED
  BY <1>2, <1>9, <1>10

\* The second loop begins at the start of such a path.
LEMMA NormalBegins ==
  ASSUME NEW C \in Text, NEW T, IsLeftOver(C, T), NEW w, NoneUp(w),
         Kept(Segments(C)) = w, IsClean(Segments(C))
  PROVE  NormalScan(C, T, 0, 0, w)
<1>1. Below(Segments(C))
  BY DEF Below, NoneUp
<1>2. ~PointsAt(C, 0)
  BY <1>1, FirstNotUp
<1>3. Plain(Before(C, 0))
  BY EmptySeq DEF Before, Plain
<1>4. Len(C) \in Nat /\ Len(T) \in {0, 1}
  BY LeftOverFacts
<1> QED
  BY <1>2, <1>3, <1>4 DEF NormalScan

\* The first loop ends: the second one begins at the start of a path of which
\* the same is kept.
LEMMA FirstLoopEnds ==
  ASSUME NEW s, NEW j, FirstScan(s, Len(s), j), IsClean(Segments(s)),
         NoneUp(Kept(Segments(s)))
  PROVE  \E C : /\ EndPoint(LoopAt(s, Len(s), j)) = C \o LeftOver(Segments(s))
                /\ NormalScan(C, LeftOver(Segments(s)), 0, 0, Kept(Segments(s)))
<1> DEFINE t == EndPoint(LoopAt(s, Len(s), j))
           v == Segments(s)
           w == Kept(v)
           i == Len(s)
           x == SubSeq(s, j + 1, i)
           B == Before(s, j)
           point == <<".">>
<1>0. /\ s \in Text /\ i \in Nat /\ i \in 0..Len(s) /\ j \in 0..i /\ j \in Nat /\ j <= i
      /\ (j = 0 \/ s[j] = "/") /\ \A k \in j + 1..i : s[k] # "/"
  BY DEF FirstScan, ScanAt, Text
<1>1. x \in Text /\ B \in Lists /\ v = B \o <<x>>
  BY <1>0, SegmentsAt
<1>2. t = IF x = point THEN [s EXCEPT ![j + 1] = "nul"] ELSE s
  BY DEF EndPoint, LoopAt
<1>3. x = point <=> (i = j + 1 /\ s[j + 1] = ".")
  BY <1>0, PartIs
<1> HIDE DEF t, v, x, B
<1>4. LastOf(v) = x /\ (IsClean(v) => IsClean(B))
  <2> DEFINE y == <<x>>
  <2>1. y \in Lists /\ y # << >> /\ LastOf(y) = x
    BY <1>1, OneElement
  <2> HIDE DEF y
  <2>2. LastOf(B \o y) = LastOf(y) /\ (IsClean(B \o y) => IsClean(B))
    BY <1>1, <2>1, ElementsOfTwo
  <2> QED
    BY <1>1, <2>1, <2>2 DEF y
<1>5. CASE x # point
  <2>1. LeftOver(v) = << >> /\ IsLeftOver(s, LeftOver(v)) /\ t = s
    BY <1>2, <1>4, <1>5 DEF LeftOver, IsLeftOver
  <2>2. s \o << >> = s
    BY <1>0, ConcatEmptySeq DEF Text
  <2>3. NormalScan(s, LeftOver(v), 0, 0, w)
    <3> HIDE DEF w
    <3> QED
      BY <1>0, <2>1, NormalBegins DEF v, w
  <2> QED
    BY <2>1, <2>2, <2>3 DEF t, v, w
<1>6. CASE x = point
  <2> DEFINE C == SubSeq(s, 0 + 1, j)
             T == <<"nul">>
  <2>1. C \in Text /\ Len(C) = j /\ \A m \in 1..j : C[m] = s[m]
    <3>1. 0 \in Nat /\ 0 <= j /\ j \in 0..Len(s)
      BY <1>0
    <3>2. C \in Text /\ Len(C) = j - 0 /\ \A m \in 1..j - 0 : C[m] = s[0 + m]
      BY <1>0, <3>1, PartOfText
    <3> HIDE DEF C
    <3> QED
      BY <1>0, <3>2
  <2> HIDE DEF C
  <2>2. LeftOver(v) = T /\ IsLeftOver(C, T) /\ Len(T) = 1
    <3>1. C = << >> \/ C[Len(C)] = "/"
      <4>1. j = 0 => C = << >>
        BY <2>1, EmptySeq DEF Text
      <4>2. j # 0 => C[Len(C)] = "/"
        BY <1>0, <2>1
      <4> QED
        BY <4>1, <4>2
    <3> QED
      BY <1>4, <1>6, <3>1 DEF LeftOver, IsLeftOver
  <2>3. /\ C \o T \in Text /\ Len(C \o T) = j + 1
        /\ \A k \in 1..j : (C \o T)[k] = s[k]
        /\ (C \o T)[j + 1] = "nul"
    <3> HIDE DEF T
    <3> QED
      BY <2>1, <2>2, LeftOverFacts
  <2>4. t \in Text /\ Len(t) = j + 1 /\ \A k \in 1..j + 1 : t[k] = IF k = j + 1 THEN "nul" ELSE s[k]
    <3> DEFINE c == "nul"
               S == Characters
    <3>1. c \in S /\ s \in Seq(S) /\ j + 1 \in 1..Len(s) /\ t = [s EXCEPT ![j + 1] = c]
          /\ Len(s) = j + 1
      BY <1>0, <1>2, <1>3, <1>6 DEF Characters, Text
    <3> HIDE DEF c, S
    <3>2. /\ t \in Seq(S) /\ Len(t) = Len(s)
          /\ \A k \in 1..Len(s) : t[k] = IF k = j + 1 THEN c ELSE s[k]
      BY <3>1, ExceptSeq
    <3> QED
      BY <3>1, <3>2 DEF S, c, Text
  <2>5. t = C \o T
    <3> DEFINE e == C \o T
    <3>1. e \in Text /\ Len(e) = j + 1 /\ (\A k \in 1..j : e[k] = s[k]) /\ e[j + 1] = "nul"
      BY <2>3
    <3> HIDE DEF e
    <3>2. ASSUME NEW k \in 1..Len(t) PROVE t[k] = e[k]
      <4>1. k = j + 1 \/ (k \in 1..j /\ k # j + 1)
        BY <1>0, <2>4
      <4> QED
        BY <2>4, <3>1, <4>1
    <3>3. t = e
      BY <2>4, <3>1, <3>2, SeqEqual DEF Text
    <3> QED
      BY <3>3 DEF e
  <2>6. Segments(C) = B \o << << >> >>
    <3>1. j \in 0..Len(C) /\ (j = 0 \/ C[j] = "/") /\ j <= Len(C) /\ j <= Len(s)
          /\ \A m \in 1..j : C[m] = s[m]
      BY <1>0, <2>1
    <3>2. Segments(C) = Before(C, j) \o Segments(SubSeq(C, j + 1, Len(C)))
      BY <2>1, <3>1, SegmentsBehind
    <3>3. Before(C, j) = B
      BY <1>0, <2>1, <3>1, BeforeSame DEF B
    <3>4. SubSeq(C, j + 1, Len(C)) = << >>
      <4> DEFINE z == SubSeq(C, j + 1, Len(C))
      <4>1. Len(C) \in 0..Len(C) /\ j <= Len(C)
        BY <1>0, <2>1
      <4>2. z \in Text /\ Len(z) = Len(C) - j
        BY <1>0, <2>1, <4>1, PartOfText
      <4> HIDE DEF z
      <4>3. Len(z) = 0
        BY <1>0, <2>1, <4>2
      <4>4. z = << >>
        BY <4>2, <4>3, EmptySeq DEF Text
      <4> QED
        BY <4>4 DEF z
    <3> QED
      BY <3>2, <3>3, <3>4, SegmentsSteps
  <2>7. Kept(Segments(C)) = w
    <3>1. Kept(B \o <<point>>) = Kept(B \o << << >> >>)
      <4> DEFINE q == << >>
      <4>1. q \in Lists
        BY ListFacts
      <4> HIDE DEF q
      <4> QED
        BY <1>1, <4>1, PointOut
    <3> QED
      BY <1>1, <1>6, <2>6, <3>1
  <2>8. IsClean(Segments(C))
    <3> DEFINE nil == << >>
               y == <<nil>>
    <3>1. nil \in Text /\ CleanSegment(nil)
      BY EmptySegment
    <3> HIDE DEF nil
    <3>2. y \in Lists /\ IsClean(y)
      BY <3>1, OneElement
    <3> HIDE DEF y
    <3>3. IsClean(B \o y)
      BY <1>1, <1>4, <3>2, ElementsOfTwo DEF v
    <3> QED
      BY <2>6, <3>3 DEF y, nil
  <2>9. NormalScan(C, T, 0, 0, w)
    <3> HIDE DEF T, w
    <3> QED
      BY <2>1, <2>2, <2>7, <2>8, NormalBegins DEF w, v
  <2> QED
    BY <2>2, <2>5, <2>9 DEF t, v, w
<1> QED
  BY <1>5, <1>6

\* The characters of the buffer that are in the path.
LEMMA InPath ==
  ASSUME NEW C \in Text, NEW T, IsLeftOver(C, T), NEW k \in Nat, k >= 1, k <= Len(C \o T),
         (C \o T)[k] \in {".", "/"}
  PROVE  k <= Len(C) /\ C[k] = (C \o T)[k]
<1>1. /\ Len(C) \in Nat /\ Len(T) \in {0, 1} /\ Len(C \o T) = Len(C) + Len(T)
      /\ \A n \in 1..Len(C) : (C \o T)[n] = C[n]
      /\ (Len(T) = 1 => (C \o T)[Len(C) + 1] = "nul")
  BY LeftOverFacts
<1>2. k <= Len(C) \/ (Len(T) = 1 /\ k = Len(C) + 1)
  BY <1>1
<1>3. k # Len(C) + 1 \/ Len(T) # 1
  BY <1>1
<1>4. k \in 1..Len(C)
  BY <1>1, <1>2, <1>3
<1> QED
  BY <1>1, <1>4

\* A pass over a character other than "/".
LEMMA NormalOnward ==
  ASSUME NEW C, NEW T, NEW i, NEW j, NEW w, NormalScan(C, T, i, j, w), i < Len(C \o T),
         (C \o T)[i + 1] # "/"
  PROVE  NormalScan(C, T, i + 1, j, w)
<1>1. C \in Text /\ IsLeftOver(C, T)
  BY DEF NormalScan
<1>2. /\ Len(C) \in Nat /\ Len(T) \in {0, 1} /\ Len(C \o T) = Len(C) + Len(T)
      /\ \A n \in 1..Len(C) : (C \o T)[n] = C[n]
  BY <1>1, LeftOverFacts
<1>3. i \in Nat /\ j \in Nat /\ j <= i /\ i + 1 \in Nat /\ j <= i + 1 /\ i + 1 <= Len(C) + Len(T)
  <2>1. i \in Nat /\ j \in Nat /\ j <= i
    BY DEF NormalScan
  <2>2. i < Len(C) + Len(T)
    BY <1>2
  <2> QED
    BY <1>2, <2>1, <2>2
<1>4. ASSUME NEW k \in j + 1..i + 1, k <= Len(C) PROVE C[k] # "/"
  <2>1. k \in j + 1..i \/ (k = i + 1 /\ k \in 1..Len(C))
    BY <1>2, <1>3, <1>4
  <2>2. k \in j + 1..i => C[k] # "/"
    BY <1>4 DEF NormalScan
  <2>3. k = i + 1 /\ k \in 1..Len(C) => C[k] # "/"
    BY <1>2
  <2> QED
    BY <2>1, <2>2, <2>3
<1> QED
  BY <1>3, <1>4 DEF NormalScan

\* The second loop is at a "/", and ".." begins behind it.
AtSlash(C, T, i, j, w) ==
  /\ NormalScan(C, T, i, j, w) /\ SecondScan(C \o T, i, j)
  /\ i < Len(C \o T) /\ (C \o T)[i + 1] = "/"
Behind(b, i) == i + 3 <= Len(b) /\ b[i + 2] = "." /\ b[i + 3] = "."

\* The segment from j to i - 1 is "..".
IsUp(b, i, j) == i = j + 2 /\ b[j + 1] = "." /\ b[j + 2] = "."

\* At a "/": the segment before it is neither "." nor "..".
LEMMA NormalSlash ==
  ASSUME NEW C, NEW T, NEW i, NEW j, NEW w, AtSlash(C, T, i, j, w)
  PROVE  LET x == SubSeq(C, j + 1, i)
             rest == Segments(SubSeq(C, i + 2, Len(C)))
         IN /\ i < Len(C) /\ C[i + 1] = "/" /\ i \in 0..Len(C) /\ j \in 0..i
            /\ x \in Text /\ PlainSegment(x) /\ Before(C, j) \in Lists
            /\ rest \in Lists /\ rest # << >>
            /\ Segments(C) = Before(C, j) \o (<<x>> \o rest)
            /\ Before(C, i + 1) = Append(Before(C, j), x)
            /\ ~IsUp(C \o T, i, j)
<1> DEFINE b == C \o T
           x == SubSeq(C, j + 1, i)
           rest == Segments(SubSeq(C, i + 2, Len(C)))
<1>0. i < Len(b) /\ SecondScan(b, i, j) /\ b[i + 1] = "/"
  BY DEF AtSlash
<1>1. /\ C \in Text /\ IsLeftOver(C, T) /\ i \in Nat /\ j \in Nat /\ j <= i /\ (j = 0 \/ C[j] = "/")
      /\ \A k \in j + 1..i : k <= Len(C) => C[k] # "/"
      /\ ~PointsAt(C, j)
  BY DEF AtSlash, NormalScan
<1>2. /\ Len(C) \in Nat /\ Len(b) = Len(C) + Len(T) /\ Len(T) \in {0, 1}
      /\ \A n \in 1..Len(C) : b[n] = C[n]
  BY <1>1, LeftOverFacts
<1>3. i + 1 <= Len(C) /\ C[i + 1] = b[i + 1]
  <2>1. i + 1 \in Nat /\ i + 1 >= 1 /\ i + 1 <= Len(b) /\ b[i + 1] \in {".", "/"}
    BY <1>0, <1>1, <1>2
  <2> QED
    BY <1>1, <2>1, InPath
<1> HIDE DEF b
<1>4. /\ i < Len(C) /\ i \in 0..Len(C) /\ j \in 0..i /\ \A k \in j + 1..i : C[k] # "/"
  BY <1>1, <1>2, <1>3
<1>5. C[i + 1] = "/"
  BY <1>0, <1>3
<1>6. /\ x \in Text /\ Before(C, j) \in Lists /\ rest \in Lists /\ rest # << >>
      /\ Segments(C) = Before(C, j) \o (<<x>> \o rest)
      /\ Before(C, i + 1) = Append(Before(C, j), x)
  BY <1>1, <1>4, <1>5, SegmentsAt
<1>7. /\ x = <<".">> <=> (i = j + 1 /\ C[j + 1] = ".")
      /\ x = DotDot <=> (i = j + 2 /\ C[j + 1] = "." /\ C[j + 2] = ".")
  BY <1>1, <1>4, PartIs
<1> HIDE DEF x, rest
<1>8. ~(i = j + 1 /\ C[j + 1] = ".")
  <2> SUFFICES ASSUME i = j + 1, C[j + 1] = "." PROVE FALSE
    OBVIOUS
  <2>1. j + 1 \in 1..Len(C) /\ j + 2 \in 1..Len(C) /\ (j # 0 => j \in 1..Len(C)) /\ j + 2 = i + 1
        /\ j \in 0..Len(b) - 1
    BY <1>1, <1>2, <1>4
  <2>2. b[j + 1] = "." /\ b[j + 2] = "/" /\ (j = 0 \/ b[j] = "/")
    BY <1>1, <1>2, <1>5, <2>1
  <2>3. PointAt(b, j)
    BY <2>1, <2>2 DEF PointAt
  <2> QED
    BY <1>0, <1>1, <2>3 DEF SecondScan
<1>9. ~(i = j + 2 /\ C[j + 1] = "." /\ C[j + 2] = ".")
  <2> SUFFICES ASSUME i = j + 2, C[j + 1] = ".", C[j + 2] = "." PROVE FALSE
    OBVIOUS
  <2>1. j \in 0..Len(C) - 2 /\ j + 3 = i + 1
    BY <1>1, <1>2, <1>4
  <2> QED
    BY <1>1, <1>5, <2>1 DEF PointsAt
<1>10. ~(i = j + 2 /\ b[j + 1] = "." /\ b[j + 2] = ".")
  <2> SUFFICES ASSUME i = j + 2 PROVE b[j + 1] = C[j + 1] /\ b[j + 2] = C[j + 2]
    BY <1>9
  <2>1. j + 1 \in 1..Len(C) /\ j + 2 \in 1..Len(C)
    BY <1>1, <1>2, <1>4
  <2> QED
    BY <1>2, <2>1
<1>11. PlainSegment(x)
  BY <1>7, <1>8, <1>9 DEF PlainSegment
<1> QED
  BY <1>4, <1>5, <1>6, <1>10, <1>11 DEF x, rest, b, IsUp

\* A segment behind which ".." does not begin is passed.
LEMMA NormalPassed ==
  ASSUME NEW C, NEW T, NEW i, NEW j, NEW w, AtSlash(C, T, i, j, w), ~Behind(C \o T, i)
  PROVE  NormalScan(C, T, i + 1, i + 1, w)
<1> DEFINE b == C \o T
           x == SubSeq(C, j + 1, i)
           B == Before(C, j)
<1>1. /\ C \in Text /\ IsLeftOver(C, T) /\ i \in Nat /\ j \in Nat
      /\ Plain(B)
  BY DEF AtSlash, NormalScan
<1>2. /\ Len(C) \in Nat /\ Len(b) = Len(C) + Len(T) /\ Len(T) \in {0, 1}
      /\ \A n \in 1..Len(C) : b[n] = C[n]
  BY <1>1, LeftOverFacts
<1>3. /\ i < Len(C) /\ C[i + 1] = "/" /\ x \in Text /\ PlainSegment(x) /\ B \in Lists
      /\ Before(C, i + 1) = Append(B, x)
  BY NormalSlash
<1>4. Plain(Append(B, x))
  <2> HIDE DEF x, B
  <2> DEFINE y == <<x>>
  <2>1. Append(B, x) = B \o y /\ y \in Lists /\ Plain(y)
    BY <1>3, WithoutLast, OneElement
  <2> HIDE DEF y
  <2> QED
    BY <1>1, <1>3, <2>1, ElementsOfTwo
<1>5. ~PointsAt(C, i + 1)
  <2> SUFFICES ASSUME PointsAt(C, i + 1) PROVE FALSE
    OBVIOUS
  <2>1. /\ i + 1 \in 0..Len(C) - 2 /\ C[(i + 1) + 1] = "." /\ C[(i + 1) + 2] = "."
    BY DEF PointsAt
  <2>2. /\ (i + 1) + 1 = i + 2 /\ (i + 1) + 2 = i + 3 /\ i + 2 \in 1..Len(C) /\ i + 3 \in 1..Len(C)
        /\ i + 3 <= Len(b)
    BY <1>1, <1>2, <2>1
  <2>3. b[i + 2] = "." /\ b[i + 3] = "."
    BY <1>2, <2>1, <2>2
  <2> QED
    BY <2>2, <2>3 DEF Behind
<1> DEFINE k == i + 1
<1>6. /\ k \in Nat /\ k <= k /\ k <= Len(C) /\ k <= Len(C) + Len(T) /\ C[k] = "/"
      /\ \A n \in k + 1..k : FALSE
  BY <1>1, <1>2, <1>3
<1>7. Plain(Before(C, k)) /\ ~PointsAt(C, k)
  BY <1>3, <1>4, <1>5
<1> HIDE DEF x, B, k, b
<1>8. NormalScan(C, T, k, k, w)
  BY <1>6, <1>7 DEF AtSlash, NormalScan
<1> QED
  BY <1>8 DEF k

\* The segments v are p, x, a ".." and q.
UpBetween(v, p, x, q) == v = p \o (<<x>> \o (<<DotDot>> \o q))

\* Without x and the ".." behind it.
LEMMA UpOut ==
  ASSUME NEW p \in Lists, NEW q \in Lists, NEW x \in Text, PlainSegment(x),
         NEW v, UpBetween(v, p, x, q), NoneUp(Kept(v)), IsClean(v)
  PROVE  /\ q # << >> => Kept(p \o q) = Kept(v) /\ IsClean(p \o q)
         /\ q = << >> => Kept(p \o << << >> >>) = Kept(v) /\ IsClean(p \o << << >> >>)
<1> DEFINE d == <<DotDot>>
           y == <<x>>
           nil == << >>
           z == <<nil>>
           r == d \o q
           s == y \o r
<1>0. v = p \o (<<x>> \o (<<DotDot>> \o q))
  BY DEF UpBetween
<1>1. Below(p \o (<<x>> \o (<<DotDot>> \o q)))
  BY <1>0 DEF Below, NoneUp
<1>2. /\ q # << >> => Kept(v) = Kept(p \o q)
      /\ q = << >> => Kept(v) = Kept(p \o << << >> >>)
  BY <1>0, <1>1, PointsOut
<1>3. v = p \o s
  BY <1>0
<1>4. d \in Lists /\ y \in Lists
  BY ListFacts, OneElement
<1>5. z \in Lists /\ IsClean(z)
  <2>1. nil \in Text /\ CleanSegment(nil)
    BY EmptySegment
  <2> HIDE DEF nil
  <2> QED
    BY <2>1, OneElement
<1> HIDE DEF d, y, z, nil
<1>6. r \in Lists /\ (IsClean(r) => IsClean(q))
  BY <1>4, ElementsOfTwo
<1> HIDE DEF r
<1>7. s \in Lists /\ (IsClean(s) => IsClean(r))
  BY <1>4, <1>6, ElementsOfTwo
<1> HIDE DEF s
<1>8. IsClean(p) /\ IsClean(s)
  BY <1>3, <1>7, ElementsOfTwo
<1>9. IsClean(p \o q) /\ IsClean(p \o z)
  BY <1>5, <1>6, <1>7, <1>8, ElementsOfTwo
<1> QED
  BY <1>2, <1>9 DEF z, nil

\* The end of the ".." that begins behind i.
EndOfUp(b, i, q) ==
  \/ q = i + 4 /\ q <= Len(b) /\ b[q] = "/"
  \/ q = i + 3 /\ q = Len(b)

\* A segment and the ".." behind it: their place in the path.
LEMMA NormalUp ==
  ASSUME NEW C, NEW T, NEW i, NEW j, NEW w, AtSlash(C, T, i, j, w), Behind(C \o T, i)
  PROVE  /\ i + 3 <= Len(C) /\ C[i + 2] = "." /\ C[i + 3] = "."
         /\ \A q : EndOfUp(C \o T, i, q) =>
                    \/ q = i + 4 /\ q <= Len(C) /\ C[q] = "/"
                    \/ q = i + 3 /\ q = Len(C) /\ T = << >>
         /\ i + 3 = Len(C) => T = << >>
<1> DEFINE b == C \o T
<1>1. C \in Text /\ IsLeftOver(C, T) /\ i \in Nat
  BY DEF AtSlash, NormalScan
<1>2. /\ Len(C) \in Nat /\ Len(b) = Len(C) + Len(T) /\ Len(T) \in {0, 1}
      /\ (Len(T) = 0 => T = << >>)
      /\ (Len(T) = 1 => Len(C) = 0 \/ C[Len(C)] = "/")
  BY <1>1, LeftOverFacts
<1> DEFINE k == i + 2
           l == i + 3
           m == i + 4
<1>3. k \in Nat /\ k >= 1 /\ k <= Len(b) /\ l \in Nat /\ l >= 1 /\ l <= Len(b) /\ m \in Nat /\ m >= 1
  BY <1>1, <1>2 DEF Behind
<1>4. b[k] = "." /\ b[l] = "."
  BY DEF Behind
<1> HIDE DEF k, l, m
<1>5. k <= Len(C) /\ C[k] = b[k]
  BY <1>1, <1>3, <1>4, InPath
<1>6. l <= Len(C) /\ C[l] = b[l]
  BY <1>1, <1>3, <1>4, InPath
<1>7. m <= Len(b) /\ b[m] = "/" => m <= Len(C) /\ C[m] = b[m]
  BY <1>1, <1>3, InPath
<1> HIDE DEF b
<1>8. l = Len(C) => Len(T) = 0
  BY <1>2, <1>3, <1>4, <1>6
<1>9. l = Len(b) => Len(T) = 0 /\ l = Len(C)
  BY <1>2, <1>3, <1>6, <1>8
<1>10. ASSUME NEW q, EndOfUp(b, i, q)
       PROVE  \/ q = m /\ q <= Len(C) /\ C[q] = "/"
              \/ q = l /\ q = Len(C) /\ T = << >>
  <2>1. (q = m /\ q <= Len(b) /\ b[q] = "/") \/ (q = l /\ q = Len(b))
    BY <1>10 DEF EndOfUp, m, l
  <2> QED
    BY <1>2, <1>7, <1>9, <2>1
<1> QED
  BY <1>2, <1>4, <1>5, <1>6, <1>8, <1>10 DEF b, k, l, m

\* Both are cut out.
LEMMA NormalCut ==
  ASSUME NEW C, NEW T, NEW i, NEW j, NEW w, AtSlash(C, T, i, j, w), NoneUp(w),
         Behind(C \o T, i), NEW q, EndOfUp(C \o T, i, q)
  PROVE  LET D == Cut(C, j, q)
         IN Cut(C \o T, j, q) = D \o T /\ NormalScan(D, T, 0, 0, w)
<1> DEFINE x == SubSeq(C, j + 1, i)
           B == Before(C, j)
<1>3. /\ C[i + 1] = "/" /\ x \in Text /\ PlainSegment(x) /\ B \in Lists
      /\ Before(C, i + 1) = Append(B, x)
  BY NormalSlash
<1>4. i + 3 <= Len(C) /\ C[i + 2] = "." /\ C[i + 3] = "."
  BY NormalUp
<1>5. \/ q = i + 4 /\ q <= Len(C) /\ C[q] = "/"
      \/ q = i + 3 /\ q = Len(C) /\ T = << >>
  BY NormalUp
<1> DEFINE v == Segments(C)
           D == Cut(C, j, q)
           k == i + 1
           l == i + 3
           y == SubSeq(C, k + 1, l)
           rest == Segments(SubSeq(C, q + 1, Len(C)))
           dots == <<DotDot>>
           one == <<x>>
<1>1. /\ C \in Text /\ IsLeftOver(C, T) /\ i \in Nat /\ j \in Nat /\ j <= i /\ (j = 0 \/ C[j] = "/")
      /\ Kept(v) = w /\ IsClean(v)
  BY DEF AtSlash, NormalScan
<1>2. Len(C) \in Nat
  BY <1>1, LeftOverFacts
<1>6. /\ q \in 0..Len(C) /\ j \in 0..q /\ Len(C) \in 0..Len(C) /\ q \in Nat /\ q <= Len(C)
  BY <1>1, <1>2, <1>5
<1>7. Cut(C \o T, j, q) = D \o T /\ IsLeftOver(D, T) /\ D \in Text
  BY <1>1, <1>6, CutLeftOver
<1>8. Segments(D) = B \o rest
  BY <1>1, <1>6, SegmentsOfCut
<1>9. /\ k \in Nat /\ l \in 0..Len(C) /\ k \in 0..l /\ k <= l /\ l = k + 2 /\ k + 1 = i + 2
      /\ k + 2 = i + 3 /\ C[k] = "/" /\ C[k + 1] = "." /\ C[k + 2] = "."
      /\ \A n \in k + 1..l : C[n] # "/"
  <2>1. /\ k \in Nat /\ l \in 0..Len(C) /\ k \in 0..l /\ k <= l /\ l = k + 2 /\ k + 1 = i + 2
        /\ k + 2 = i + 3
    BY <1>1, <1>2, <1>4
  <2>2. C[k] = "/" /\ C[k + 1] = "." /\ C[k + 2] = "."
    BY <1>3, <1>4, <2>1
  <2>3. \A n \in k + 1..l : n = k + 1 \/ n = k + 2
    BY <2>1
  <2> HIDE DEF k, l
  <2> QED
    BY <2>1, <2>2, <2>3
<1>10. Before(C, k) = Append(B, x)
  BY <1>3
<1> DEFINE after == Segments(SubSeq(C, l + 2, Len(C)))
<1>11. q = i + 4 => l < Len(C) /\ C[l + 1] = "/" /\ q + 1 = l + 2
  BY <1>1, <1>2, <1>4, <1>5
<1>12. q = i + 3 => l = Len(C) /\ q = l
  BY <1>1, <1>5
<1> HIDE DEF k, l
<1>13. /\ l = Len(C) => v = Before(C, k) \o <<y>>
       /\ l < Len(C) /\ C[l + 1] = "/" =>
            v = Before(C, k) \o (<<y>> \o after) /\ after \in Lists /\ after # << >>
  BY <1>1, <1>9, SegmentsAt
<1>14. y = DotDot
  BY <1>1, <1>9, PartIs
<1>15. q = i + 4 => after = rest
  BY <1>11
<1>16. q = i + 3 => rest = << << >> >>
  <2> SUFFICES ASSUME q = i + 3 PROVE rest = << << >> >>
    OBVIOUS
  <2> DEFINE z == SubSeq(C, q + 1, Len(C))
  <2>1. z \in Text /\ Len(z) = Len(C) - q
    BY <1>1, <1>2, <1>6, PartOfText
  <2> HIDE DEF z
  <2>2. Len(z) = 0
    BY <1>2, <1>12, <2>1
  <2>3. z = << >>
    BY <2>1, <2>2, EmptySeq DEF Text
  <2> QED
    BY <2>3, SegmentsSteps DEF z
<1> HIDE DEF x, B, v, D, y, rest, after
<1>17. Append(B, x) = B \o one /\ one \in Lists /\ dots \in Lists
  BY <1>3, WithoutLast, OneElement, ListFacts
<1> HIDE DEF one, dots
<1>18. ASSUME NEW r \in Lists PROVE (B \o one) \o (dots \o r) = B \o (one \o (dots \o r))
  <2> DEFINE u == dots \o r
  <2>1. u \in Seq(Text) /\ B \in Seq(Text) /\ one \in Seq(Text)
    BY <1>3, <1>17, ElementsOfTwo DEF Lists
  <2> HIDE DEF u
  <2>2. (B \o one) \o u = B \o (one \o u)
    BY <2>1, ConcatAssociative
  <2> QED
    BY <2>2 DEF u
<1>19. CASE q = i + 4
  <2>1. v = B \o (one \o (dots \o rest)) /\ rest \in Lists /\ rest # << >>
    BY <1>10, <1>11, <1>13, <1>14, <1>15, <1>17, <1>18, <1>19 DEF dots
  <2>2. Kept(B \o rest) = w /\ IsClean(B \o rest)
    <3>1. Kept(v) = w /\ IsClean(v) /\ UpBetween(v, B, x, rest)
      BY <1>1, <2>1 DEF one, dots, UpBetween
    <3> QED
      BY <1>3, <2>1, <3>1, UpOut
  <2> QED
    BY <1>1, <1>7, <1>8, <2>2, NormalBegins DEF D
<1>20. CASE q = i + 3
  <2> DEFINE nil == << >>
  <2>1. nil \in Lists /\ nil = << >> /\ dots \o nil = dots
    BY <1>17, ListFacts, ConcatEmptySeq DEF Lists
  <2>2. v = (B \o one) \o dots
    BY <1>10, <1>12, <1>13, <1>14, <1>17, <1>20 DEF dots
  <2> HIDE DEF nil
  <2>3. v = B \o (one \o (dots \o nil))
    BY <1>18, <2>1, <2>2
  <2>5. Kept(v) = w /\ IsClean(v) /\ UpBetween(v, B, x, nil)
    BY <1>1, <2>3 DEF one, dots, UpBetween
  <2>6. nil = << >> => Kept(B \o << << >> >>) = w /\ IsClean(B \o << << >> >>)
    BY <1>3, <2>1, <2>5, UpOut
  <2>4. Kept(B \o << << >> >>) = w /\ IsClean(B \o << << >> >>)
    BY <2>1, <2>6
  <2> QED
    BY <1>1, <1>7, <1>8, <1>16, <1>20, <2>4, NormalBegins DEF D
<1> QED
  BY <1>5, <1>19, <1>20

\* In a clean path the ".." behind a "/" is a whole segment.
LEMMA NormalClean ==
  ASSUME NEW C, NEW T, NEW i, NEW j, NEW w, AtSlash(C, T, i, j, w), Behind(C \o T, i)
  PROVE  \E q \in {i + 3, i + 4} : EndOfUp(C \o T, i, q)
<1> DEFINE b == C \o T
           k == i + 1
           l == i + 3
<1>1. /\ C \in Text /\ IsLeftOver(C, T) /\ i \in Nat /\ IsClean(Segments(C))
      /\ i < Len(b) /\ b[i + 1] = "/"
  BY DEF AtSlash, NormalScan
<1>2. /\ Len(C) \in Nat /\ Len(b) = Len(C) + Len(T) /\ Len(T) \in {0, 1}
      /\ \A n \in 1..Len(C) : b[n] = C[n]
      /\ (Len(T) = 0 => b = C)
  BY <1>1, LeftOverFacts
<1>3. l <= Len(C) /\ C[k + 1] = "." /\ C[k + 2] = "." /\ (l = Len(C) => T = << >>)
      /\ k + 1 = i + 2 /\ k + 2 = i + 3
  <2>1. k + 1 = i + 2 /\ k + 2 = i + 3
    BY <1>1
  <2>2. i + 3 <= Len(C) /\ C[i + 2] = "." /\ C[i + 3] = "." /\ (i + 3 = Len(C) => T = << >>)
    BY NormalUp
  <2> HIDE DEF k
  <2> QED
    BY <2>1, <2>2
<1>4. C[k] = "/" /\ k \in Nat /\ l \in Nat /\ l = k + 2
  BY <1>1, <1>2, <1>3
<1> SUFFICES ASSUME ~EndOfUp(b, i, i + 3), ~EndOfUp(b, i, i + 4) PROVE FALSE
  OBVIOUS
<1>5. l # Len(C)
  <2>1. T = << >> => Len(T) = 0
    BY EmptySeq
  <2> QED
    BY <1>2, <1>3, <2>1 DEF EndOfUp
<1>6. l + 1 <= Len(C) /\ C[l + 1] # "/"
  <2>1. l + 1 = i + 4 /\ l + 1 <= Len(C) /\ l + 1 \in 1..Len(C) /\ l + 1 <= Len(b)
    BY <1>1, <1>2, <1>3, <1>5
  <2>2. b[l + 1] = C[l + 1]
    BY <1>2, <2>1
  <2> HIDE DEF l
  <2> QED
    BY <2>1, <2>2 DEF EndOfUp
<1> HIDE DEF b, k, l
<1> DEFINE E == {n \in Nat : l <= n /\ n <= Len(C) /\ (n = Len(C) \/ C[n + 1] = "/")}
<1>7. Len(C) \in E /\ E \subseteq Nat
  BY <1>2, <1>3, <1>4
<1>8. PICK e \in E : \A n \in E : e <= n
  BY <1>7, Grammar!LeastElement
<1>9. /\ e \in Nat /\ l <= e /\ e <= Len(C) /\ e # l /\ (e = Len(C) \/ C[e + 1] = "/")
  BY <1>4, <1>5, <1>6, <1>8
<1>10. ASSUME NEW n \in k + 1..e PROVE C[n] # "/"
  <2>1. CASE n = k + 1 \/ n = k + 2
    BY <1>3, <2>1
  <2>2. CASE n > k + 2 /\ C[n] = "/"
    <3>1. n - 1 \in Nat /\ l <= n - 1 /\ n - 1 <= Len(C) /\ (n - 1) + 1 = n /\ n - 1 < e
      BY <1>2, <1>4, <1>9, <2>2
    <3>2. n - 1 \in E
      BY <2>2, <3>1
    <3> QED
      BY <1>8, <1>9, <3>1, <3>2
  <2> QED
    BY <1>4, <1>9, <2>1, <2>2
<1> HIDE DEF E
<1> DEFINE y == SubSeq(C, k + 1, e)
           B == Before(C, k)
           rest == Segments(SubSeq(C, e + 2, Len(C)))
           v == Segments(C)
<1>11. e \in 0..Len(C) /\ k \in 0..e /\ k <= e /\ k \in Nat
  BY <1>2, <1>4, <1>9
<1>12. /\ y \in Text /\ B \in Lists
       /\ e = Len(C) => v = B \o <<y>>
       /\ e < Len(C) /\ C[e + 1] = "/" => v = B \o (<<y>> \o rest) /\ rest \in Lists
  BY <1>1, <1>4, <1>10, <1>11, SegmentsAt
<1>13. y # DotDot
  <2>1. y = DotDot <=> (e = k + 2 /\ C[k + 1] = "." /\ C[k + 2] = ".")
    BY <1>1, <1>11, PartIs
  <2> QED
    BY <1>4, <1>9, <2>1
<1>14. Holds(y, 0, DotDot)
  <2>1. Len(y) = e - k /\ \A m \in 1..e - k : y[m] = C[k + m]
    BY <1>1, <1>11, PartOfText
  <2> HIDE DEF y
  <2>2. 1 \in 1..e - k /\ 2 \in 1..e - k /\ 2 <= Len(y) /\ 2 \in 0..Len(y) /\ 0 \in Nat /\ 0 <= 2
    BY <1>4, <1>9, <2>1
  <2>3. y[0 + 1] = "." /\ y[0 + 2] = "."
    BY <1>3, <2>1, <2>2
  <2> DEFINE n == 2
  <2>4. n = 0 + 2 /\ n \in 0..Len(y) /\ 0 <= n
    BY <2>2
  <2> HIDE DEF n
  <2>5. SubSeq(y, 0 + 1, n) = DotDot
    BY <1>12, <2>2, <2>3, <2>4, PartIs
  <2>6. Len(DotDot) = 2
    BY DEF DotDot
  <2> QED
    BY <2>2, <2>5, <2>6 DEF Holds, n
<1>15. Among(y, v)
  <2> HIDE DEF y, B, rest, v
  <2>1. CASE e = Len(C)
    BY <1>12, <2>1, ElementLast
  <2>2. CASE e < Len(C) /\ C[e + 1] = "/"
    BY <1>12, <2>2, ElementBetween
  <2> QED
    BY <1>2, <1>9, <2>1, <2>2
<1>16. CleanSegment(y)
  BY <1>1, <1>15 DEF Among, IsClean
<1> QED
  BY <1>13, <1>14, <1>16 DEF CleanSegment

\* Where the second loop has ended nothing is left to be left out: the path is
\* the one of the segments that are kept, and does not climb.
LEMMA NormalEnds ==
  ASSUME NEW C, NEW T, NEW j, NEW w, NormalScan(C, T, Len(C \o T), j, w),
         SecondScan(C \o T, Len(C \o T), j)
  PROVE  C = Joined(w) /\ ~Climbs(C \o T)
<1> DEFINE b == C \o T
           i == Len(C)
           x == SubSeq(C, j + 1, i)
           B == Before(C, j)
           v == Segments(C)
<1>1. /\ C \in Text /\ IsLeftOver(C, T) /\ j \in Nat /\ j <= Len(C) /\ (j = 0 \/ C[j] = "/")
      /\ Kept(v) = w /\ Plain(B) /\ ~PointsAt(C, j)
  BY DEF NormalScan
<1>2. /\ i \in Nat /\ Len(b) = i + Len(T) /\ Len(T) \in {0, 1}
      /\ \A n \in 1..i : b[n] = C[n]
      /\ (Len(T) = 0 => b = C)
      /\ (Len(T) = 1 => i = 0 \/ C[i] = "/")
  BY <1>1, LeftOverFacts
<1>3. \A k \in j + 1..i : C[k] # "/"
  <2>1. \A k \in j + 1..Len(b) : k <= Len(C) => C[k] # "/"
    BY DEF NormalScan
  <2> QED
    BY <1>1, <1>2, <2>1
<1>4. i \in 0..Len(C) /\ j \in 0..i /\ i = Len(C)
  BY <1>1, <1>2
<1>5. \A k \in Nat : ~PointAt(b, k)
  BY DEF SecondScan
<1> HIDE DEF i, b
<1>6. x \in Text /\ B \in Lists /\ v = B \o <<x>>
  BY <1>1, <1>3, <1>4, SegmentsAt
<1>7. /\ x = <<".">> <=> (i = j + 1 /\ C[j + 1] = ".")
      /\ x = DotDot <=> (i = j + 2 /\ C[j + 1] = "." /\ C[j + 2] = ".")
  BY <1>1, <1>4, PartIs
<1>8. ~(i = j + 1 /\ C[j + 1] = ".")
  <2> SUFFICES ASSUME i = j + 1, C[j + 1] = "." PROVE FALSE
    OBVIOUS
  <2>1. b = C
    BY <1>1, <1>2
  <2>2. PointAt(C, j)
    <3>1. j \in 0..Len(C) - 1 /\ j + 1 = Len(C)
      BY <1>1, <1>2, <1>4
    <3> QED
      BY <1>1, <3>1 DEF PointAt
  <2> QED
    BY <1>1, <1>5, <2>1, <2>2
<1>9. ~(i = j + 2 /\ C[j + 1] = "." /\ C[j + 2] = ".")
  <2> SUFFICES ASSUME i = j + 2, C[j + 1] = ".", C[j + 2] = "." PROVE FALSE
    OBVIOUS
  <2>1. j \in 0..Len(C) - 2 /\ j + 2 = Len(C)
    BY <1>1, <1>2, <1>4
  <2> QED
    BY <1>1, <2>1 DEF PointsAt
<1> HIDE DEF x, B, v
<1>10. Plain(v)
  <2> DEFINE y == <<x>>
  <2>1. PlainSegment(x)
    BY <1>7, <1>8, <1>9 DEF PlainSegment
  <2>2. y \in Lists /\ Plain(y)
    BY <1>6, <2>1, OneElement
  <2> HIDE DEF y
  <2> QED
    BY <1>1, <1>6, <2>2, ElementsOfTwo DEF y
<1>11. v \in Lists /\ v # << >>
  BY <1>1, SegmentsType DEF v
<1>12. C = Joined(w)
  <2>1. Kept(v) = v
    BY <1>10, <1>11, PlainKept
  <2>2. Joined(v) = C
    BY <1>1, JoinedSegments DEF v
  <2> QED
    BY <1>1, <2>1, <2>2
<1>13. ~Climbs(b)
  <2> SUFFICES ASSUME Climbs(b) PROVE FALSE
    OBVIOUS
  <2>1. PICK k \in 0..Len(b) : /\ \A n \in 1..k : b[n] = "/"
                               /\ Holds(b, k, DotDot)
                               /\ k + 2 = Len(b) \/ b[k + 3] = "/"
    BY DEF Climbs
  <2> DEFINE e == k + 2
             y == SubSeq(C, k + 1, e)
             rest == Segments(SubSeq(C, e + 2, Len(C)))
             P == Before(C, k)
  <2>2. k \in Nat /\ e = k + 2 /\ e \in Nat /\ e <= Len(b) /\ SubSeq(b, k + 1, e) = DotDot
    <3>1. Len(DotDot) = 2
      BY DEF DotDot
    <3>2. k \in Nat
      BY <1>2, <2>1
    <3> QED
      BY <2>1, <3>1, <3>2 DEF Holds
  <2>3. b \in Text
    BY <1>1, LeftOverFacts DEF b
  <2>4. b[k + 1] = "." /\ b[k + 2] = "."
    <3>1. e \in 0..Len(b) /\ k <= e
      BY <1>2, <2>2
    <3> HIDE DEF e
    <3> QED
      BY <2>2, <2>3, <3>1, PartIs
  <2>5. k + 1 <= Len(C) /\ C[k + 1] = "." /\ k + 2 <= Len(C) /\ C[k + 2] = "."
    <3> DEFINE m == k + 1
               n == k + 2
    <3>1. m \in Nat /\ m >= 1 /\ m <= Len(b) /\ n \in Nat /\ n >= 1 /\ n <= Len(b)
          /\ b[m] = "." /\ b[n] = "."
      BY <1>2, <2>2, <2>4
    <3> HIDE DEF m, n
    <3>2. m <= Len(C) /\ C[m] = b[m]
      BY <1>1, <3>1, InPath DEF b
    <3>3. n <= Len(C) /\ C[n] = b[n]
      BY <1>1, <3>1, InPath DEF b
    <3> QED
      BY <3>1, <3>2, <3>3 DEF m, n
  <2>6. k = 0 \/ C[k] = "/"
    <3>1. k # 0 => k \in 1..k /\ k \in 1..i
      BY <1>2, <1>4, <2>2, <2>5
    <3> QED
      BY <1>2, <2>1, <3>1
  <2>7. e = Len(C) \/ (e < Len(C) /\ C[e + 1] = "/")
    <3>1. CASE k + 2 = Len(b)
      BY <1>2, <1>4, <2>2, <2>5, <3>1
    <3>2. CASE k + 2 # Len(b)
      <4> DEFINE m == k + 3
      <4>1. b[m] = "/" /\ m \in Nat /\ m >= 1 /\ m <= Len(b) /\ e + 1 = m
        BY <1>2, <2>1, <2>2, <3>2
      <4> HIDE DEF m, e
      <4>2. m <= Len(C) /\ C[m] = b[m]
        BY <1>1, <4>1, InPath DEF b
      <4> QED
        BY <1>2, <1>4, <2>2, <4>1, <4>2
    <3> QED
      BY <3>1, <3>2
  <2>8. /\ e \in 0..Len(C) /\ k \in 0..e /\ k <= e
        /\ \A n \in k + 1..e : C[n] # "/"
    <3>1. \A n \in k + 1..e : n = k + 1 \/ n = k + 2
      BY <2>2
    <3>2. e \in 0..Len(C) /\ k \in 0..e /\ k <= e
      BY <1>2, <1>4, <2>2, <2>5
    <3> QED
      BY <2>5, <3>1, <3>2
  <2> HIDE DEF e
  <2>9. /\ y \in Text /\ P \in Lists
        /\ e = Len(C) => v = P \o <<y>>
        /\ e < Len(C) /\ C[e + 1] = "/" => v = P \o (<<y>> \o rest) /\ rest \in Lists
    BY <1>1, <2>6, <2>8, SegmentsAt DEF v
  <2>10. y = DotDot
    BY <1>1, <2>2, <2>5, <2>8, PartIs
  <2> HIDE DEF y, P, rest
  <2>11. Among(y, v)
    <3>1. CASE e = Len(C)
      BY <2>9, <3>1, ElementLast
    <3>2. CASE e < Len(C) /\ C[e + 1] = "/"
      BY <2>9, <3>2, ElementBetween
    <3> QED
      BY <2>7, <3>1, <3>2
  <2> QED
    BY <1>10, <2>10, <2>11 DEF Among, Plain, PlainSegment
<1> QED
  BY <1>12, <1>13 DEF b

-----------------------------------------------------------------------------
(* The path after the loops, and what leads to it.  m is the merged path, b  *)
(* the buffer.                                                               *)
Regular(m) == IsClean(Segments(m)) /\ NoneUp(Kept(Segments(m)))
SameKept(b, m) ==
  /\ Kept(Segments(b)) = Kept(Segments(m)) /\ LastOf(Segments(b)) = LastOf(Segments(m))
  /\ IsClean(Segments(b))
Normalising(b, i, j, m) ==
  \E C : /\ b = C \o LeftOver(Segments(m))
         /\ NormalScan(C, LeftOver(Segments(m)), i, j, Kept(Segments(m)))
IsReference(b, m) ==
  \E C \in Text : /\ C = Joined(Kept(Segments(m))) /\ b = C \o LeftOver(Segments(m))
                  /\ ~Climbs(b)

\* One pass of the first loop.
LEMMA FirstPassKeeps ==
  ASSUME NEW m, NEW l, InBuffer(l), FirstScan(l.buf, l.i_s, l.segment_s),
         l.i_s < Len(l.buf), SameKept(l.buf, m)
  PROVE  SameKept(uriaa_remove_segment_point(l).buf, m)
<1> DEFINE n == uriaa_remove_segment_point(l)
           b == l.buf
           i == l.i_s
           j == l.segment_s
<1>1. b \in Text /\ j \in Nat /\ i \in Nat /\ (j = 0 \/ b[j] = "/") /\ i < Len(b) /\ Len(b) \in Nat
  BY DEF FirstScan, ScanAt, InBuffer, Text
<1>2. \/ b[i + 1] # "/" /\ n = LoopAt(b, i + 1, j)
      \/ b[i + 1] = "/" /\ ~(i = j + 1 /\ b[j + 1] = ".") /\ n = LoopAt(b, i + 1, i + 1)
      \/ b[i + 1] = "/" /\ (i = j + 1 /\ b[j + 1] = ".") /\ n = LoopAt(Cut(b, j, i + 1), j, j)
  BY PointPass
<1>3. SameKept(b, m)
  OBVIOUS
<1> HIDE DEF n, b, i, j
<1>4. \A s, k, h : LoopAt(s, k, h).buf = s
  BY DEF LoopAt
<1>5. CASE n.buf = b
  BY <1>3, <1>5 DEF n
<1>6. CASE b[i + 1] = "/" /\ (i = j + 1 /\ b[j + 1] = ".") /\ n = LoopAt(Cut(b, j, i + 1), j, j)
  <2>1. j + 1 < Len(b) /\ b[j + 1] = "." /\ b[j + 2] = "/" /\ i + 1 = j + 2
    BY <1>1, <1>6
  <2>2. n.buf = Cut(b, j, j + 2)
    BY <1>4, <1>6, <2>1
  <2>3. /\ Kept(Segments(n.buf)) = Kept(Segments(b))
        /\ LastOf(Segments(n.buf)) = LastOf(Segments(b))
        /\ IsClean(Segments(b)) => IsClean(Segments(n.buf))
    BY <1>1, <2>1, <2>2, FirstCut
  <2>4. SameKept(n.buf, m)
    BY <1>3, <2>3 DEF SameKept
  <2> QED
    BY <2>4 DEF n
<1> QED
  BY <1>2, <1>4, <1>5, <1>6

\* The end of the first loop.
LEMMA FirstEndKeeps ==
  ASSUME NEW m, Regular(m), NEW s, NEW j, FirstScan(s, Len(s), j), SameKept(s, m)
  PROVE  Normalising(EndPoint(LoopAt(s, Len(s), j)), 0, 0, m)
<1>1. /\ Kept(Segments(s)) = Kept(Segments(m)) /\ LeftOver(Segments(s)) = LeftOver(Segments(m))
      /\ IsClean(Segments(s)) /\ NoneUp(Kept(Segments(s)))
  BY DEF SameKept, Regular, LeftOver
<1>2. \E C : /\ EndPoint(LoopAt(s, Len(s), j)) = C \o LeftOver(Segments(s))
             /\ NormalScan(C, LeftOver(Segments(s)), 0, 0, Kept(Segments(s)))
  BY <1>1, FirstLoopEnds
<1> QED
  BY <1>1, <1>2 DEF Normalising

\* One pass of the second loop.
LEMMA SecondPassKeeps ==
  ASSUME NEW m, Regular(m), NEW l, InBuffer(l), SecondScan(l.buf, l.i_s, l.segment_s),
         l.i_s < Len(l.buf), Normalising(l.buf, l.i_s, l.segment_s, m)
  PROVE  LET n == uriaa_remove_segment_points(l)
         IN Normalising(n.buf, n.i_s, n.segment_s, m)
<1> DEFINE n == uriaa_remove_segment_points(l)
           b == l.buf
           i == l.i_s
           j == l.segment_s
           T == LeftOver(Segments(m))
           w == Kept(Segments(m))
           Up == i = j + 2 /\ b[j + 1] = "." /\ b[j + 2] = "."
           Dots == i + 3 <= Len(b) /\ b[i + 2] = "." /\ b[i + 3] = "."
           More == i + 4 <= Len(b) /\ b[i + 4] = "/"
<1>1. \/ b[i + 1] # "/" /\ n = LoopAt(b, i + 1, j)
      \/ b[i + 1] = "/" /\ Up /\ n = LoopAt(b, i + 1, i + 1)
      \/ b[i + 1] = "/" /\ ~Dots /\ n = LoopAt(b, i + 1, i + 1)
      \/ b[i + 1] = "/" /\ Dots /\ More /\ n = LoopAt(Cut(b, j, i + 4), 0, 0)
      \/ b[i + 1] = "/" /\ Dots /\ i + 3 = Len(b) /\ n = LoopAt(Cut(b, j, i + 3), 0, 0)
      \/ b[i + 1] = "/" /\ Dots /\ ~More /\ i + 3 # Len(b) /\ n = LoopAt(b, i + 1, j)
  BY PointsPass
<1>2. SecondScan(b, i, j) /\ i < Len(b) /\ i \in Nat /\ NoneUp(w)
  BY DEF InBuffer, Regular
<1>3. PICK C : b = C \o T /\ NormalScan(C, T, i, j, w)
  BY DEF Normalising
<1> HIDE DEF n, b, i, j, T, w
<1>4. \A s, k, h : LoopAt(s, k, h).buf = s /\ LoopAt(s, k, h).i_s = k /\ LoopAt(s, k, h).segment_s = h
  BY DEF LoopAt
<1>5. ASSUME NEW D, NEW s, NEW k, NEW h, n = LoopAt(s, k, h), s = D \o T, NormalScan(D, T, k, h, w)
      PROVE  Normalising(n.buf, n.i_s, n.segment_s, m)
  <2>1. n.buf = s
    BY <1>4, <1>5
  <2>2. n.i_s = k
    BY <1>4, <1>5
  <2>3. n.segment_s = h
    BY <1>4, <1>5
  <2> QED
    BY <1>5, <2>1, <2>2, <2>3 DEF Normalising, T, w
<1>6. CASE b[i + 1] # "/" /\ n = LoopAt(b, i + 1, j)
  <2>1. NormalScan(C, T, i + 1, j, w)
    BY <1>2, <1>3, <1>6, NormalOnward
  <2> QED
    BY <1>3, <1>5, <1>6, <2>1 DEF n
<1>7. CASE b[i + 1] = "/"
  <2>1. AtSlash(C, T, i, j, w)
    BY <1>2, <1>3, <1>7 DEF AtSlash
  <2>2. ~Up
    <3>1. ~IsUp(C \o T, i, j)
      BY <2>1, NormalSlash
    <3> QED
      BY <1>3, <3>1 DEF IsUp
  <2>3. Dots <=> Behind(C \o T, i)
    BY <1>3 DEF Behind
  <2>4. EndOfUp(C \o T, i, i + 4) => More
    BY <1>2, <1>3 DEF EndOfUp
  <2>5. EndOfUp(C \o T, i, i + 3) => i + 3 = Len(b)
    BY <1>2, <1>3 DEF EndOfUp
  <2>6. More => EndOfUp(C \o T, i, i + 4)
    BY <1>3 DEF EndOfUp
  <2>7. i + 3 = Len(b) => EndOfUp(C \o T, i, i + 3)
    BY <1>3 DEF EndOfUp
  <2> HIDE DEF Up, Dots, More
  <2>8. CASE ~Dots /\ n = LoopAt(b, i + 1, i + 1)
    <3>1. NormalScan(C, T, i + 1, i + 1, w)
      BY <2>1, <2>3, <2>8, NormalPassed
    <3> QED
      BY <1>3, <1>5, <2>8, <3>1 DEF n
  <2>9. ASSUME NEW q, EndOfUp(C \o T, i, q), Dots, n = LoopAt(Cut(b, j, q), 0, 0)
        PROVE  Normalising(n.buf, n.i_s, n.segment_s, m)
    <3>1. Cut(C \o T, j, q) = Cut(C, j, q) \o T /\ NormalScan(Cut(C, j, q), T, 0, 0, w)
      BY <1>2, <2>1, <2>3, <2>9, NormalCut
    <3> QED
      BY <1>3, <1>5, <2>9, <3>1
  <2>10. ~(Dots /\ ~More /\ i + 3 # Len(b))
    <3> SUFFICES ASSUME Dots PROVE More \/ i + 3 = Len(b)
      OBVIOUS
    <3>1. \E q \in {i + 3, i + 4} : EndOfUp(C \o T, i, q)
      BY <2>1, <2>3, NormalClean
    <3> QED
      BY <2>4, <2>5, <3>1
  <2>11. CASE Dots /\ More /\ n = LoopAt(Cut(b, j, i + 4), 0, 0)
    BY <2>6, <2>9, <2>11 DEF n
  <2>12. CASE Dots /\ i + 3 = Len(b) /\ n = LoopAt(Cut(b, j, i + 3), 0, 0)
    BY <2>7, <2>9, <2>12 DEF n
  <2> QED
    BY <1>1, <1>7, <2>2, <2>8, <2>10, <2>11, <2>12
<1> QED
  BY <1>1, <1>6, <1>7

\* The end of the second loop.
LEMMA SecondEndKeeps ==
  ASSUME NEW m, NEW s, NEW j, SecondScan(s, Len(s), j), Normalising(s, Len(s), j, m)
  PROVE  IsReference(s, m)
<1> DEFINE T == LeftOver(Segments(m))
           w == Kept(Segments(m))
<1>1. PICK C : s = C \o T /\ NormalScan(C, T, Len(s), j, w)
  BY DEF Normalising
<1> HIDE DEF T, w
<1>2. C = Joined(w) /\ ~Climbs(C \o T)
  BY <1>1, NormalEnds
<1>3. C \in Text
  BY <1>1 DEF NormalScan
<1> QED
  BY <1>1, <1>2, <1>3 DEF IsReference, T, w

-----------------------------------------------------------------------------
(* The invariant behind PathIsReference: where the loops are, what is kept   *)
(* of the buffer is what is kept of the merged path.                         *)
Early == {"base", "reference", "start", "merge", "direct"}
PathInv ==
  /\ merged \in Text
  /\ pc \in Early => merged = << >>
  /\ pc = "point" /\ Regular(merged) => SameKept(loop.buf, merged)
  /\ pc = "points" /\ Regular(merged) =>
       Normalising(loop.buf, loop.i_s, loop.segment_s, merged)
  /\ pc \in {"compose", "done"} /\ merged # << >> /\ Regular(merged) =>
       IsReference(loop.buf, merged)

LEMMA PathInit == Init => PathInv
<1>1. << >> \in Text
  BY DEF Text
<1> QED
  BY <1>1 DEF Init, PathInv, Early

\* The steps that change neither the merged path nor the buffer.
LEMMA PathAside ==
  ASSUME PathInv, UNCHANGED <<merged, loop>>,
         \/ pc \in Early /\ pc' \in Early \cup {"done"}
         \/ pc = "compose" /\ pc' = "done"
         \/ pc' = pc
  PROVE  PathInv'
<1>1. CASE pc' = pc
  BY <1>1 DEF PathInv
<1>2. CASE pc = "compose" /\ pc' = "done"
  BY <1>2 DEF PathInv, Early
<1>3. CASE pc \in Early /\ pc' \in Early \cup {"done"}
  <2>1. merged' = << >> /\ pc' # "point" /\ pc' # "points" /\ merged' \in Text
    BY <1>3 DEF PathInv, Early
  <2> QED
    BY <2>1 DEF PathInv
<1> QED
  BY <1>1, <1>2, <1>3

\* The loops begin.
LEMMA PathMerge == ASSUME ResolveInv, Merge PROVE PathInv'
<1>1. pc' = "point" /\ loop' = FromStart(merged')
  BY DEF Merge
<1>2. ResolveInv'
  BY MergeKeeps
<1>3. loop'.buf = merged'
  BY <1>1 DEF FromStart
<1>4. merged' \in Text
  <2>1. InBuffer(loop')
    BY <1>2 DEF ResolveInv, Scans
  <2> QED
    BY <1>3, <2>1 DEF InBuffer
<1>5. Regular(merged') => SameKept(merged', merged')
  BY DEF Regular, SameKept
<1> QED
  BY <1>1, <1>3, <1>4, <1>5 DEF PathInv, Early

\* The first loop.
LEMMA PathRemovePoint == ASSUME ResolveInv, PathInv, RemovePoint PROVE PathInv'
<1>1. /\ pc = "point" /\ pc' = "point" /\ merged' = merged /\ loop.i_s < Len(loop.buf)
      /\ loop' = uriaa_remove_segment_point(loop)
  BY DEF RemovePoint
<1>2. InBuffer(loop) /\ FirstScan(loop.buf, loop.i_s, loop.segment_s)
  BY <1>1 DEF ResolveInv, Scans
<1>3. merged \in Text /\ (Regular(merged) => SameKept(loop.buf, merged))
  BY <1>1 DEF PathInv
<1>4. SameKept(loop.buf, merged) => SameKept(loop'.buf, merged)
  BY <1>1, <1>2, FirstPassKeeps
<1> QED
  BY <1>1, <1>3, <1>4 DEF PathInv, Early

LEMMA PathPointsRemoved == ASSUME ResolveInv, PathInv, PointsRemoved PROVE PathInv'
<1> DEFINE b == loop.buf
           j == loop.segment_s
           s == EndPoint(loop)
<1>1. /\ pc = "point" /\ pc' = "points" /\ merged' = merged /\ loop.i_s >= Len(b)
      /\ loop' = FromStart(s)
  BY DEF PointsRemoved
<1>2. InBuffer(loop) /\ FirstScan(b, loop.i_s, j)
  BY <1>1 DEF ResolveInv, Scans
<1>3. merged \in Text /\ (Regular(merged) => SameKept(b, merged))
  BY <1>1 DEF PathInv
<1>4. loop.i_s = Len(b) /\ loop = LoopAt(b, Len(b), j)
  BY <1>1, <1>2, InBufferIs
<1>5. s = EndPoint(LoopAt(b, Len(b), j))
  BY <1>4
<1>6. loop'.buf = s /\ loop'.i_s = 0 /\ loop'.segment_s = 0
  BY <1>1 DEF FromStart
<1>7. FirstScan(b, Len(b), j)
  BY <1>2, <1>4
<1> HIDE DEF b, j, s
<1>8. Regular(merged) => Normalising(s, 0, 0, merged)
  BY <1>3, <1>5, <1>7, FirstEndKeeps
<1> QED
  BY <1>1, <1>3, <1>6, <1>8 DEF PathInv, Early

\* The second loop.
LEMMA PathRemovePoints == ASSUME ResolveInv, PathInv, RemovePoints PROVE PathInv'
<1>1. /\ pc = "points" /\ pc' = "points" /\ merged' = merged /\ loop.i_s < Len(loop.buf)
      /\ loop' = uriaa_remove_segment_points(loop)
  BY DEF RemovePoints
<1>2. InBuffer(loop) /\ SecondScan(loop.buf, loop.i_s, loop.segment_s)
  BY <1>1 DEF ResolveInv, Scans
<1>3. merged \in Text /\ (Regular(merged) =>
        Normalising(loop.buf, loop.i_s, loop.segment_s, merged))
  BY <1>1 DEF PathInv
<1>4. Regular(merged) => Normalising(loop'.buf, loop'.i_s, loop'.segment_s, merged)
  BY <1>1, <1>2, <1>3, SecondPassKeeps
<1> QED
  BY <1>1, <1>3, <1>4 DEF PathInv, Early

LEMMA PathVerdict == ASSUME ResolveInv, PathInv, Verdict PROVE PathInv'
<1>1. /\ pc = "points" /\ pc' \in {"compose", "done"} /\ merged' = merged /\ loop' = loop
      /\ loop.i_s >= Len(loop.buf)
  BY DEF Verdict, Return
<1>2. InBuffer(loop) /\ SecondScan(loop.buf, loop.i_s, loop.segment_s)
  BY <1>1 DEF ResolveInv, Scans
<1>3. merged \in Text /\ (Regular(merged) =>
        Normalising(loop.buf, loop.i_s, loop.segment_s, merged))
  BY <1>1 DEF PathInv
<1>4. loop.i_s = Len(loop.buf)
  BY <1>1, <1>2, InBufferIs
<1>5. /\ SecondScan(loop.buf, Len(loop.buf), loop.segment_s)
      /\ Regular(merged) => Normalising(loop.buf, Len(loop.buf), loop.segment_s, merged)
  BY <1>2, <1>3, <1>4
<1>6. Regular(merged) => IsReference(loop.buf, merged)
  BY <1>5, SecondEndKeeps
<1> QED
  BY <1>1, <1>3, <1>6 DEF PathInv, Early

LEMMA PathInvariant == Spec => []PathInv
<1>1. ResolveInv /\ PathInv /\ [Next]_vars => PathInv'
  <2> SUFFICES ASSUME ResolveInv, PathInv, [Next]_vars PROVE PathInv'
    OBVIOUS
  <2>1. CASE UNCHANGED vars
    BY <2>1, PathAside DEF vars
  <2>2. CASE CheckBase
    BY <2>2, PathAside DEF CheckBase, Early
  <2>3. CASE CheckReference
    BY <2>3, PathAside DEF CheckReference, Early
  <2>4. CASE Start
    BY <2>4, PathAside DEF Start, Return, Early
  <2>5. CASE NoMemory
    BY <2>5, PathAside DEF NoMemory, Return, Early
  <2>6. CASE Compose
    BY <2>6, PathAside DEF Compose, Return, Early
  <2> QED
    BY <2>1, <2>2, <2>3, <2>4, <2>5, <2>6, PathMerge, PathRemovePoint, PathPointsRemoved,
       PathRemovePoints, PathVerdict DEF Next, Loops
<1> QED
  BY <1>1, PathInit, ResolveInvariant, PTL DEF Spec

\* Whatever base and reference were given, of the paths that stay below their
\* root and have no segment but ".." that begins with "..": the two loops leave
\* the segments that RFC 2396, section 5.2, step 6 keeps, in order, behind them
\* the terminating character of a last segment ".", and do not refuse them.
THEOREM PathIsTheReference == Spec => []PathIsReference
<1>1. PathInv => PathIsReference
  <2> DEFINE v == Segments(merged)
             path == Joined(Kept(v))
  <2> SUFFICES ASSUME PathInv, pc \in {"compose", "done"}, Merged, Clean, InTree
               PROVE  /\ loop.buf = IF LastIsPoint THEN Append(path, "nul") ELSE path
                      /\ ~Climbs(loop.buf)
    BY DEF PathIsReference
  <2>1. merged # << >>
    BY DEF Merged
  <2>2. IsClean(v)
    BY DEF Clean, IsClean, CleanSegment
  <2>3. NoneUp(Kept(v))
    BY DEF InTree, NoneUp
  <2>4. IsReference(loop.buf, merged)
    BY <2>1, <2>2, <2>3 DEF PathInv, Regular
  <2>5. PICK C \in Text : C = path /\ loop.buf = C \o LeftOver(v) /\ ~Climbs(loop.buf)
    BY <2>4 DEF IsReference
  <2>6. LeftOver(v) = IF LastIsPoint THEN <<"nul">> ELSE << >>
    BY DEF LeftOver, LastOf, LastIsPoint
  <2>7. C \o << >> = C
    BY ConcatEmptySeq DEF Text
  <2>8. Append(C, "nul") = C \o <<"nul">>
    <3> DEFINE c == "nul"
               S == Characters
    <3>1. c \in S /\ C \in Seq(S)
      BY DEF Characters, Text
    <3> HIDE DEF c, S
    <3>2. Append(C, c) = C \o <<c>>
      BY <3>1, AppendIsConcat
    <3> QED
      BY <3>2 DEF c
  <2> HIDE DEF v, path
  <2> QED
    BY <2>5, <2>6, <2>7, <2>8
<1> QED
  BY <1>1, PathInvariant, PTL
=============================================================================
