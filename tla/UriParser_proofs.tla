-------------------------- MODULE UriParser_proofs --------------------------
(* What one call of uriaa_check_url promises of every text. *)
EXTENDS UriParser, UriGrammar_proofs

-----------------------------------------------------------------------------
\* The text from p to e: labels joined by single dots, as far as they go.
NameIn(p, e) ==
  \A k \in p..e - 1 :
    /\ Char(k) \in ALPHANUM \cup {"-", "."}
    /\ k = p \/ Char(k - 1) = "." => Char(k) \in ALPHANUM
    /\ k + 1 < e /\ Char(k + 1) = "." => Char(k) \in ALPHANUM
\* Labels that each have a dot behind them.
LabelsIn(p, l) == NameIn(p, l) /\ (p < l => Char(l - 1) = ".")

LEMMA AlphanumClasses ==
  /\ LOWALPHA \subseteq ALPHANUM /\ DIGIT \subseteq ALPHANUM
  /\ "." \notin ALPHANUM /\ "-" \notin ALPHANUM
  BY DEF ALPHANUM, LOWALPHA, DIGIT

\* One more label in front.
LEMMA LabelBefore ==
  ASSUME Size \in Nat, NEW p \in 0..Size, NEW m \in 0..Size, NEW l \in m + 1..Size,
         LabelIn(p, m, ALPHANUM), Char(m) = ".", LabelsIn(m + 1, l)
  PROVE  LabelsIn(p, l)
<1>1. /\ p < m /\ m < Size /\ Char(p) \in ALPHANUM /\ Char(m - 1) \in ALPHANUM
      /\ \A k \in p..m - 1 : Char(k) \in ALPHANUM \cup {"-"}
  <2>1. p < m /\ m < Size
    BY DEF LabelIn
  <2>2. \A k \in p..m - 1 : Char(k) \in ALPHANUM \cup {"-"}
    BY DEF LabelIn
  <2>3. Char(m - 1) # "-"
    BY <2>1 DEF LabelIn
  <2>4. m - 1 \in p..m - 1
    BY <2>1
  <2> QED
    BY <2>1, <2>2, <2>3, <2>4 DEF LabelIn
<1>2. "." \notin ALPHANUM /\ "-" \notin ALPHANUM
  BY AlphanumClasses
<1>3. \A k \in p..m - 1 : Char(k) # "."
  BY <1>1, <1>2
<1>4. Char(l - 1) = "."
  BY <1>1 DEF LabelsIn
<1>5. m + 1 < l => Char(m + 1) \in ALPHANUM
  BY DEF LabelsIn, NameIn
<1>6. ASSUME NEW k \in p..l - 1
      PROVE  /\ Char(k) \in ALPHANUM \cup {"-", "."}
             /\ k = p \/ Char(k - 1) = "." => Char(k) \in ALPHANUM
             /\ k + 1 < l /\ Char(k + 1) = "." => Char(k) \in ALPHANUM
  <2>1. CASE k < m
    <3>1. k \in p..m - 1
      BY <2>1
    <3>2. k # p => k - 1 \in p..m - 1
      BY <2>1
    <3>3. Char(k + 1) = "." => k = m - 1
      <4>1. k + 1 \in p..m - 1 \/ k = m - 1
        BY <1>1, <2>1
      <4> QED
        BY <1>3, <4>1
    <3>4. Char(k - 1) = "." => k = p
      BY <1>3, <3>2
    <3> QED
      BY <1>1, <3>1, <3>3, <3>4
  <2>2. CASE k = m
    <3>1. Char(k) = "." /\ k # p /\ Char(k - 1) # "."
      BY <1>1, <1>2, <2>2
    <3>2. k + 1 < l => Char(k + 1) # "."
      BY <1>2, <1>5, <2>2
    <3> QED
      BY <3>1, <3>2
  <2>3. CASE k > m
    <3>1. k \in m + 1..l - 1 /\ k # p
      BY <1>1, <2>3
    <3> QED
      BY <3>1 DEF LabelsIn, NameIn
  <2> QED
    BY <2>1, <2>2, <2>3
<1> QED
  BY <1>4, <1>6 DEF LabelsIn, NameIn

\* The labels that the loop of hostname has passed.
LEMMA LabelsPassed ==
  ASSUME Size \in Nat, NEW last, LastLabel(last)
  PROVE  \A q \in 0..Size : last[q] \in q..Size /\ LabelsIn(q, last[q])
<1> DEFINE S == {q \in 0..Size : last[q] \in q..Size /\ LabelsIn(q, last[q])}
<1>1. ASSUME NEW q \in 0..Size, \A k \in q + 1..Size : k \in S PROVE q \in S
  <2> DEFINE l == domainlabel(q)
             next == Next1(l.pos)
  <2>1. last[q] = IF l.ok /\ Char(l.pos) = "." /\ domainlabel(next).ok THEN last[next] ELSE q
    BY DEF LastLabel
  <2>2. /\ l \in [ok : BOOLEAN, pos : q..Size]
        /\ l.ok => LabelIn(q, l.pos, ALPHANUM)
    BY LabelMoves, ClassesInText, ClassesInUriChars DEF domainlabel
  <2> HIDE DEF l
  <2>3. CASE l.ok /\ Char(l.pos) = "." /\ last[q] = last[next]
    <3>1. q < l.pos /\ l.pos < Size /\ l.pos \in 0..Size
      BY <2>2, <2>3 DEF LabelIn, Char
    <3>2. next = l.pos + 1 /\ next \in q + 1..Size
      BY <3>1, NextMoves
    <3>3. last[next] \in l.pos + 1..Size /\ LabelsIn(l.pos + 1, last[next])
      BY <1>1, <3>2
    <3>4. LabelsIn(q, last[next])
      BY <2>2, <2>3, <3>1, <3>3, LabelBefore
    <3> QED
      BY <2>3, <3>1, <3>3, <3>4
  <2>4. CASE last[q] = q
    <3>1. LabelsIn(q, q)
      BY DEF LabelsIn, NameIn
    <3> QED
      BY <2>4, <3>1
  <2> QED
    BY <2>1, <2>3, <2>4
<1> HIDE DEF S
<1>2. 0..Size \subseteq S
  BY <1>1, DownwardInduction
<1> QED
  BY <1>2 DEF S

\* What hostname reads is a host name, when the text goes on behind it.
LEMMA NameIsHostname ==
  ASSUME Size \in Nat, NEW p \in 0..Size, NEW l \in p..Size, NEW e \in 0..Size,
         LabelsIn(p, l), LabelIn(l, e, LOWALPHA), e < Size, NEW q,
         q = e \/ (q = e + 1 /\ Char(e) = ".")
  PROVE  IsHostname(p, q)
<1>1. /\ l < e /\ Char(l) \in LOWALPHA /\ Char(e - 1) \in ALPHANUM
      /\ \A k \in l..e - 1 : Char(k) \in ALPHANUM \cup {"-"}
  <2>1. l < e
    BY DEF LabelIn
  <2>2. \A k \in l..e - 1 : Char(k) \in ALPHANUM \cup {"-"}
    BY AlphanumClasses DEF LabelIn
  <2>3. Char(e - 1) # "-"
    BY DEF LabelIn
  <2>4. e - 1 \in l..e - 1
    BY <2>1
  <2> QED
    BY <2>1, <2>2, <2>3, <2>4 DEF LabelIn
<1>2. "." \notin ALPHANUM /\ "-" \notin ALPHANUM /\ Char(l) \in ALPHANUM
  BY <1>1, AlphanumClasses
<1>3. \A k \in l..e - 1 : Char(k) # "."
  BY <1>1, <1>2
<1>4. ASSUME NEW k \in p..e - 1
      PROVE  /\ Char(k) \in ALPHANUM \cup {"-", "."}
             /\ k = p \/ Char(k - 1) = "." => Char(k) \in ALPHANUM
             /\ k + 1 = e \/ Char(k + 1) = "." => Char(k) \in ALPHANUM
                                                \/ (k + 1 = l /\ Char(k) = "." /\ p < k)
  <2>1. CASE k < l
    <3>1. k \in p..l - 1
      BY <2>1
    <3>2. /\ Char(k) \in ALPHANUM \cup {"-", "."}
          /\ k = p \/ Char(k - 1) = "." => Char(k) \in ALPHANUM
          /\ k + 1 < l /\ Char(k + 1) = "." => Char(k) \in ALPHANUM
      BY <3>1 DEF LabelsIn, NameIn
    <3>3. k + 1 = l => Char(k + 1) # "."
      BY <1>2
    <3> QED
      BY <1>1, <2>1, <3>2, <3>3
  <2>2. CASE k >= l
    <3>1. k \in l..e - 1
      BY <2>2
    <3>2. k # l => k - 1 \in l..e - 1 /\ Char(k - 1) # "."
      BY <1>3, <3>1
    <3>3. k + 1 = e \/ (k + 1 \in l..e - 1 /\ Char(k + 1) # ".")
      BY <1>3, <3>1
    <3> QED
      BY <1>1, <1>2, <3>1, <3>2, <3>3
  <2> QED
    BY <2>1, <2>2
<1>5. e \in {q} \cup {k \in {q - 1} : Char(k) = "."}
  OBVIOUS
<1>6. p < e /\ HostChars(p, e)
  BY <1>1, <1>4 DEF HostChars
<1>7. ASSUME NEW k \in p..e - 1,
             k = p \/ k = e - 1 \/ Char(k - 1) = "." \/ Char(k + 1) = "."
      PROVE  Char(k) \in ALPHANUM \cup (IF p < k /\ k < e - 1 THEN {"."} ELSE {})
  <2>1. CASE k = p \/ Char(k - 1) = "."
    BY <1>4, <2>1
  <2>2. CASE k + 1 = e \/ Char(k + 1) = "."
    BY <1>1, <1>4, <2>2
  <2> QED
    BY <1>7, <2>1, <2>2
<1>8. ASSUME NEW k \in p + 1..e - 1, Char(k) = "." PROVE Char(k - 1) # "."
  BY <1>2, <1>4, <1>8
<1>9. \E k \in p..e - 1 : /\ Char(k) \in LOWALPHA
                          /\ k = p \/ Char(k - 1) = "."
                          /\ \A m \in k..e - 1 : Char(m) # "."
  <2>1. l \in p..e - 1 /\ (l = p \/ Char(l - 1) = ".")
    BY <1>1 DEF LabelsIn
  <2> QED
    BY <1>1, <1>3, <2>1
<1> QED
  BY <1>5, <1>6, <1>7, <1>8, <1>9 DEF IsHostname

LEMMA HostnameRead ==
  ASSUME Size \in Nat, NEW p \in 0..Size, hostname(p).ok, hostname(p).pos < Size
  PROVE  IsHostname(p, hostname(p).pos)
<1>1. PICK last :
        /\ LastLabel(last) /\ last[p] \in p..Size
        /\ LET top == toplabel(last[p])
           IN /\ top.ok
              /\ hostname(p).pos = IF Char(top.pos) = "." THEN Next1(top.pos) ELSE top.pos
  BY HostnameMoves
<1> DEFINE l == last[p]
           e == toplabel(l).pos
<1>2. l \in p..Size /\ LabelsIn(p, l)
  BY <1>1, LabelsPassed
<1>3. e \in l..Size /\ LabelIn(l, e, LOWALPHA)
  <2>1. l \in 0..Size /\ toplabel(l).ok
    BY <1>1, <1>2
  <2> HIDE DEF l
  <2>2. /\ toplabel(l) \in [ok : BOOLEAN, pos : l..Size]
        /\ toplabel(l).ok => LabelIn(l, toplabel(l).pos, LOWALPHA)
    BY <2>1, LabelMoves, ClassesInText, ClassesInUriChars DEF toplabel
  <2> QED
    BY <2>1, <2>2
<1>4. hostname(p).pos = IF Char(e) = "." THEN Next1(e) ELSE e
  BY <1>1
<1> HIDE DEF l, e
<1>5. e \in 0..Size
  BY <1>2, <1>3
<1>6. Char(e) = "." => e < Size /\ Next1(e) = e + 1
  BY <1>5, NextMoves DEF Char
<1>7. e < Size
  BY <1>4, <1>6
<1> QED
  BY <1>2, <1>3, <1>4, <1>5, <1>6, <1>7, NameIsHostname

-----------------------------------------------------------------------------
\* Four numbers make an address.
LEMMA AddressRead ==
  ASSUME Size \in Nat, NEW p \in 0..Size, IPv4address(p).ok
  PROVE  IsIPv4(p, IPv4address(p).pos)
<1> DEFINE start == [ok |-> TRUE, pos |-> p]
           first == Octet(start, TRUE)
           second == Octet(first, TRUE)
           third == Octet(second, TRUE)
           fourth == Octet(third, FALSE)
<1>1. IPv4address(p) = fourth
  BY DEF IPv4address
<1>2. start \in [ok : BOOLEAN, pos : p..Size] /\ Passed(p, start.pos) /\ start.pos = p
  BY PassedParts
<1> DEFINE Number(r, s) ==
             /\ r.ok
             /\ \E q \in r.pos + 1..Size :
                  /\ \A k \in r.pos..q - 1 : Char(k) \in DIGIT
                  /\ Char(q) = "." /\ s.pos = q + 1
           Typed(r) == r \in [ok : BOOLEAN, pos : p..Size] /\ Passed(p, r.pos)
<1>3. ASSUME NEW r, Typed(r)
      PROVE  Typed(Octet(r, TRUE)) /\ (Octet(r, TRUE).ok => Number(r, Octet(r, TRUE)))
  BY <1>3, OctetMoves
<1>4. ASSUME NEW r, Typed(r), Octet(r, FALSE).ok
      PROVE  /\ r.ok
             /\ \E q \in r.pos + 1..Size :
                  /\ \A k \in r.pos..q - 1 : Char(k) \in DIGIT
                  /\ Octet(r, FALSE).pos = q
  BY <1>4, OctetMoves
<1> HIDE DEF start, Typed, Number
<1>5. Typed(first) /\ (first.ok => Number(start, first))
  BY <1>2, <1>3 DEF Typed
<1> HIDE DEF first
<1>6. Typed(second) /\ (second.ok => Number(first, second))
  BY <1>3, <1>5
<1> HIDE DEF second
<1>7. Typed(third) /\ (third.ok => Number(second, third))
  BY <1>3, <1>6
<1> HIDE DEF third
<1>8. /\ third.ok
      /\ \E q \in third.pos + 1..Size :
           /\ \A k \in third.pos..q - 1 : Char(k) \in DIGIT
           /\ fourth.pos = q
  BY <1>1, <1>4, <1>7
<1> HIDE DEF fourth
<1>9. Number(second, third) /\ Number(first, second) /\ Number(start, first)
  BY <1>5, <1>6, <1>7, <1>8 DEF Number
<1>10. PICK a \in p + 1..Size :
         (\A k \in p..a - 1 : Char(k) \in DIGIT) /\ Char(a) = "." /\ first.pos = a + 1
  BY <1>2, <1>9 DEF Number
<1>11. PICK b \in a + 2..Size :
         (\A k \in a + 1..b - 1 : Char(k) \in DIGIT) /\ Char(b) = "." /\ second.pos = b + 1
  <2>1. PICK b \in first.pos + 1..Size :
          /\ \A k \in first.pos..b - 1 : Char(k) \in DIGIT
          /\ Char(b) = "." /\ second.pos = b + 1
    BY <1>9 DEF Number
  <2>2. b \in a + 2..Size /\ first.pos = a + 1
    BY <1>10, <2>1
  <2> QED
    BY <2>1, <2>2
<1>12. PICK c \in b + 2..Size :
         (\A k \in b + 1..c - 1 : Char(k) \in DIGIT) /\ Char(c) = "." /\ third.pos = c + 1
  <2>1. PICK c \in second.pos + 1..Size :
          /\ \A k \in second.pos..c - 1 : Char(k) \in DIGIT
          /\ Char(c) = "." /\ third.pos = c + 1
    BY <1>9 DEF Number
  <2>2. c \in b + 2..Size /\ second.pos = b + 1
    BY <1>11, <2>1
  <2> QED
    BY <2>1, <2>2
<1>13. PICK q \in c + 2..Size :
         (\A k \in c + 1..q - 1 : Char(k) \in DIGIT) /\ fourth.pos = q
  <2>1. PICK q \in third.pos + 1..Size :
          (\A k \in third.pos..q - 1 : Char(k) \in DIGIT) /\ fourth.pos = q
    BY <1>8
  <2>2. q \in c + 2..Size /\ third.pos = c + 1
    BY <1>12, <2>1
  <2> QED
    BY <2>1, <2>2
<1>14. /\ a \in p..q - 1 /\ b \in p..q - 1 /\ c \in p..q - 1
       /\ p < a /\ a + 1 < b /\ b + 1 < c /\ c + 1 < q
  BY <1>10, <1>11, <1>12, <1>13
<1>15. ASSUME NEW k \in p..q - 1
       PROVE  Char(k) \in (IF k \in {a, b, c} THEN {"."} ELSE DIGIT)
  <2>1. \/ k \in {a, b, c} \/ k \in p..a - 1 \/ k \in a + 1..b - 1
        \/ k \in b + 1..c - 1 \/ k \in c + 1..q - 1
    BY <1>14
  <2>2. k \in {a, b, c} => Char(k) = "."
    BY <1>10, <1>11, <1>12
  <2>3. k \notin {a, b, c} => Char(k) \in DIGIT
    BY <1>10, <1>11, <1>12, <1>13, <2>1
  <2> QED
    BY <2>2, <2>3
<1>16. IsIPv4(p, q)
  BY <1>14, <1>15 DEF IsIPv4
<1> QED
  BY <1>1, <1>13, <1>16

\* What host sets: a host name or an address, when the text goes on behind it.
HostIs(f) ==
  f["host"].init /\ f["host"].at + f["host"].len < Size =>
    \/ IsHostname(f["host"].at, f["host"].at + f["host"].len)
    \/ IsIPv4(f["host"].at, f["host"].at + f["host"].len)

LEMMA HostIsHost ==
  ASSUME Size \in Nat, NEW p \in 0..Size, NEW f, Inside(f), HostIs(f)
  PROVE  HostIs(host(p, f).f)
<1> DEFINE b == IF hostname(p).ok THEN hostname(p) ELSE IPv4address(p)
<1>1. host(p, f) = IF b.ok THEN Took("host", p, b.pos, f) ELSE Fail(p, f)
  BY DEF host
<1>2. CASE ~b.ok
  BY <1>1, <1>2, FailParsed
<1>3. CASE b.ok
  <2>1. /\ b.pos \in p..Size /\ Passed(p, b.pos)
        /\ b.pos < Size => IsHostname(p, b.pos) \/ IsIPv4(p, b.pos)
    <3>1. CASE hostname(p).ok
      BY <3>1, HostnameMoves, HostnameRead
    <3>2. CASE ~hostname(p).ok
      BY <1>3, <3>2, IPv4addressMoves, AddressRead
    <3> QED
      BY <3>1, <3>2
  <2> HIDE DEF b
  <2>2. host(p, f) = Took("host", p, b.pos, f)
    BY <1>1, <1>3
  <2>3. "host" \in Fields
    BY DEF Fields
  <2>4. IsAt(host(p, f).f, "host", p, b.pos)
    BY <2>1, <2>2, <2>3, TookParsed
  <2>5. /\ host(p, f).f["host"].at = p
        /\ host(p, f).f["host"].at + host(p, f).f["host"].len = b.pos
    BY <2>1, <2>4 DEF IsAt
  <2> QED
    BY <2>1, <2>5 DEF HostIs
<1> QED
  BY <1>2, <1>3

\* A step that sets other components, or starts from nothing, keeps it.
LEMMA HostKept ==
  ASSUME NEW f, NEW g, HostIs(f), NEW T, OnlyIn(T, f, g), "host" \notin T
  PROVE  HostIs(g)
<1>1. g["host"] = f["host"]
  BY DEF OnlyIn, Fields
<1> QED
  BY <1>1 DEF HostIs

LEMMA HostportKeepsHost ==
  ASSUME Size \in Nat, NEW p \in 0..Size, NEW f, Inside(f), HostIs(f)
  PROVE  HostIs(hostport(p, f).f)
<1> DEFINE a == host(p, f)
           b == port(Next1(a.pos), a.f)
           r == hostport(p, f)
<1>1. HostIs(a.f)
  BY HostIsHost
<1>2. a.pos \in 0..Size /\ Inside(a.f)
  <2>1. CASE a = Fail(p, f)
    BY <2>1 DEF Fail
  <2>2. ASSUME NEW m \in p..Size, Passed(p, m), a = Took("host", p, m, f)
        PROVE  a.pos \in 0..Size /\ Inside(a.f)
    <3> HIDE DEF a
    <3>1. "host" \in Fields
      BY DEF Fields
    <3>2. a.pos = m /\ Parsed(a, p, f, {"host"})
      BY <2>2, <3>1, TookParsed
    <3> QED
      BY <3>2 DEF Parsed
  <2> QED
    BY <2>1, <2>2, HostParsed
<1>3. r = a \/ (r = [ok |-> a.ok, pos |-> b.pos, f |-> b.f])
  BY DEF hostport, Then
<1> HIDE DEF a
<1>4. HostIs(b.f)
  <2>1. Next1(a.pos) \in 0..Size
    BY <1>2, NextMoves
  <2> DEFINE n == Next1(a.pos)
  <2> HIDE DEF n
  <2>2. CASE b = Fail(n, a.f)
    BY <1>1, <2>2 DEF Fail
  <2>3. ASSUME NEW q \in n..Size, Passed(n, q), b = Took("port", n, q, a.f)
        PROVE  HostIs(b.f)
    <3> HIDE DEF b
    <3>1. "port" \in Fields /\ n \in 0..Size
      BY <2>1 DEF Fields, n
    <3>2. OnlyIn({"port"}, a.f, b.f)
      BY <1>2, <2>3, <3>1, TookParsed DEF Parsed
    <3> QED
      BY <1>1, <3>2, HostKept
  <2> QED
    BY <2>1, <2>2, <2>3, PortParsed DEF n
<1> HIDE DEF b, r
<1>5. r.f = a.f \/ r.f = b.f
  BY <1>3
<1> QED
  BY <1>1, <1>4, <1>5 DEF r

LEMMA ServerKeepsHost ==
  ASSUME Size \in Nat, NEW p \in 0..Size, NEW f, Inside(f), HostIs(f)
  PROVE  HostIs(server(p, f).f)
<1> DEFINE u == SkipEscaped(p, USERINFO)
           g == Set(f, "userinfo", p, u)
           a == UserAndHost(p, f)
<1>0. "userinfo" \in Fields
  BY DEF Fields
<1>1. u \in p..Size /\ Next1(u) \in 0..Size
  <2>1. u \in p..Size
    BY ClassesInText, SkipEscapedStops
  <2> HIDE DEF u
  <2> QED
    BY <2>1, NextMoves
<1>2. a = IF Char(u) = "@" THEN hostport(Next1(u), g) ELSE hostport(p, f)
  BY DEF UserAndHost
<1> HIDE DEF a, u
<1>3. Inside(g) /\ OnlyIn({"userinfo"}, f, g)
  BY <1>0, <1>1, SetInside
<1>4. HostIs(g)
  BY <1>3, HostKept
<1> HIDE DEF g
<1>5. HostIs(a.f)
  BY <1>1, <1>2, <1>3, <1>4, HostportKeepsHost
<1>6. Inside(a.f)
  BY UserAndHostParsed DEF Parsed, a
<1> DEFINE h == [a.f EXCEPT !["userinfo"] = Unset]
<1>7. HostIs(h)
  <2>1. OnlyIn({"userinfo"}, a.f, h)
    BY <1>0, <1>6, UnsetInside
  <2> QED
    BY <1>5, <2>1, HostKept
<1>8. server(p, f).f = a.f \/ server(p, f).f = h
  <2>1. server(p, f) = IF a.ok THEN a ELSE Ok(p, h)
    BY DEF server, a
  <2> QED
    BY <2>1 DEF Ok
<1> QED
  BY <1>5, <1>7, <1>8

LEMMA NetPathKeepsHost ==
  ASSUME Size \in Nat, NEW p \in 0..Size, NEW f, Inside(f), HostIs(f)
  PROVE  HostIs(net_path(p, f).f)
<1> DEFINE n == Next1(Next1(p))
           s == server(n, f)
           a == authority(n, f)
           b == abs_path(a.pos, a.f)
           r == net_path(p, f)
<1>0. {"abs_path", "net_path", "authority"} \subseteq Fields
  BY DEF Fields
<1>1. n \in 0..Size
  <2>1. Next1(p) \in 0..Size
    BY NextMoves
  <2> QED
    BY <2>1, NextMoves
<1>2. r = Fail(p, f) \/ r = Took("net_path", p, b.pos, b.f)
  BY DEF net_path
<1> HIDE DEF n
<1>3. Parsed(a, n, f, {"userinfo", "host", "port", "authority"})
  BY <1>1, AuthorityParsed
<1>4. HostIs(s.f) /\ Inside(s.f) /\ s.pos \in n..Size /\ Passed(n, s.pos)
  BY <1>1, ServerKeepsHost, ServerParsed DEF Parsed
<1>5. a = Took("authority", n, s.pos, s.f)
  BY DEF authority
<1> HIDE DEF s, a
<1>6. HostIs(a.f)
  <2>1. OnlyIn({"authority"}, s.f, a.f)
    BY <1>0, <1>1, <1>4, <1>5, TookParsed DEF Parsed
  <2> QED
    BY <1>4, <2>1, HostKept
<1>7. a.pos \in 0..Size /\ Inside(a.f)
  BY <1>1, <1>3 DEF Parsed
<1>8. \/ b = Fail(a.pos, a.f)
      \/ \E q \in a.pos..Size : Passed(a.pos, q) /\ b = Took("abs_path", a.pos, q, a.f)
  BY <1>7, AbsPathParsed
<1> HIDE DEF b, r
<1>9. HostIs(b.f) /\ \A x \in Fields \ {"abs_path"} : b.f[x] = a.f[x]
  <2>1. CASE b = Fail(a.pos, a.f)
    BY <1>6, <2>1 DEF Fail
  <2>2. ASSUME NEW q \in a.pos..Size, Passed(a.pos, q), b = Took("abs_path", a.pos, q, a.f)
        PROVE  HostIs(b.f) /\ \A x \in Fields \ {"abs_path"} : b.f[x] = a.f[x]
    <3>1. OnlyIn({"abs_path"}, a.f, b.f)
      BY <1>0, <1>7, <2>2, TookParsed DEF Parsed
    <3> QED
      BY <1>6, <3>1, HostKept DEF OnlyIn
  <2> QED
    BY <1>8, <2>1, <2>2
<1>10. CASE r = Fail(p, f)
  BY <1>10 DEF Fail, r
<1>11. CASE r = Took("net_path", p, b.pos, b.f)
  <2>1. r.f = [b.f EXCEPT !["net_path"] = [at |-> p, len |-> b.pos - p, init |-> TRUE]]
    BY <1>11 DEF Took, Ok, Set
  <2>2. r.f["host"] = b.f["host"]
    BY <2>1
  <2> QED
    BY <1>9, <2>2 DEF HostIs, r
<1> QED
  BY <1>2, <1>10, <1>11

LEMMA NetOrAbsKeepsHost ==
  ASSUME Size \in Nat, NEW p \in 0..Size, NEW f, Inside(f), HostIs(f)
  PROVE  HostIs(net_or_abs(p, f).f)
<1> DEFINE a == net_path(p, f)
           b == abs_path(p, f)
           r == net_or_abs(p, f)
<1>1. HostIs(a.f)
  BY NetPathKeepsHost
<1>2. r = IF a.ok THEN a ELSE abs_path(a.pos, a.f)
  BY DEF net_or_abs, OrElse
<1>3. a = Fail(p, f) \/ a.ok = TRUE
  BY NetPathParsed
<1> HIDE DEF a
<1>4. r = a \/ r = b
  BY <1>2, <1>3 DEF Fail
<1>5. HostIs(b.f)
  <2>1. "abs_path" \in Fields
    BY DEF Fields
  <2>2. ASSUME NEW q \in p..Size, Passed(p, q), b = Took("abs_path", p, q, f)
        PROVE  HostIs(b.f)
    <3> HIDE DEF b
    <3>1. OnlyIn({"abs_path"}, f, b.f)
      BY <2>1, <2>2, TookParsed DEF Parsed
    <3> QED
      BY <3>1, HostKept
  <2>3. b = Fail(p, f) => HostIs(b.f)
    BY DEF Fail
  <2> QED
    BY <2>2, <2>3, AbsPathParsed
<1> QED
  BY <1>1, <1>4, <1>5

\* A query behind a path, and the position put back after a failure.
LEMMA QueryKeepsHost ==
  ASSUME Size \in Nat, NEW p \in 0..Size, NEW f, NEW T, NEW a, Parsed(a, p, f, T), HostIs(a.f)
  PROVE  HostIs(Restore(Then(a, "?", query), p).f)
<1> DEFINE t == Then(a, "?", query)
<1>1. OnlyIn({"query"}, a.f, t.f)
  BY QueryTaken
<1> HIDE DEF t
<1>2. HostIs(t.f)
  BY <1>1, HostKept
<1>3. Restore(t, p).f = t.f
  BY DEF Restore, Fail
<1> QED
  BY <1>2, <1>3 DEF t

LEMMA HierKeepsHost ==
  ASSUME Size \in Nat, NEW p \in 0..Size, NEW f, Inside(f), HostIs(f)
  PROVE  HostIs(hier_part(p, f).f) /\ HostIs(relativeURI(p, f).f)
<1> DEFINE a == net_or_abs(p, f)
           b == rel_path(p, f)
<1>1. hier_part(p, f) = Restore(Then(a, "?", query), p)
  BY DEF hier_part, net_or_abs
<1>2. relativeURI(p, f) = Restore(Then(IF a.ok THEN a ELSE rel_path(a.pos, a.f), "?", query), p)
  BY DEF relativeURI, OrElse
<1>3. a = Fail(p, f) \/ (a.ok = TRUE /\ Parsed(a, p, f, NetFields))
  BY NetOrAbsParsed
<1>4. HostIs(a.f)
  BY NetOrAbsKeepsHost
<1>5. /\ HostIs(b.f)
      /\ Parsed(b, p, f, {}) \/ Parsed(b, p, f, {"abs_path", "rel_path"})
  <2>1. CASE b = Fail(p, f)
    <3> HIDE DEF b
    <3>1. b.f = f /\ Parsed(b, p, f, {})
      BY <2>1, FailParsed
    <3> QED
      BY <3>1
  <2>2. CASE Parsed(b, p, f, {"abs_path", "rel_path"})
    <3>1. OnlyIn({"abs_path", "rel_path"}, f, b.f)
      BY <2>2 DEF Parsed
    <3> QED
      BY <2>2, <3>1, HostKept
  <2> QED
    BY <2>1, <2>2, RelPathParsed
<1> HIDE DEF a, b
<1>6. \E T : Parsed(a, p, f, T)
  BY <1>3, FailParsed
<1>7. HostIs(hier_part(p, f).f)
  BY <1>1, <1>4, <1>6, QueryKeepsHost
<1>8. relativeURI(p, f) = Restore(Then(a, "?", query), p)
      \/ relativeURI(p, f) = Restore(Then(b, "?", query), p)
  BY <1>2, <1>3 DEF Fail, b
<1>9. HostIs(relativeURI(p, f).f)
  BY <1>4, <1>5, <1>6, <1>8, QueryKeepsHost
<1> QED
  BY <1>7, <1>9

LEMMA AbsoluteKeepsHost ==
  ASSUME Size \in Nat, NEW p \in 0..Size, NEW f, Inside(f), HostIs(f)
  PROVE  HostIs(absoluteURI(p, f).f)
<1> DEFINE s == scheme(p, f)
           n == Next1(s.pos)
           h == hier_part(n, s.f)
           o == opaque_part(h.pos, h.f)
           g == [s.f EXCEPT !["scheme"] = Unset]
           r == absoluteURI(p, f)
<1>0. "scheme" \in Fields
  BY DEF Fields
<1>1. s.pos \in 0..Size /\ Inside(s.f) /\ HostIs(s.f)
  <2>1. CASE s = Fail(p, f)
    BY <2>1 DEF Fail
  <2>2. ASSUME NEW m \in p..Size, Passed(p, m), s = Took("scheme", p, m, f)
        PROVE  s.pos \in 0..Size /\ Inside(s.f) /\ HostIs(s.f)
    <3> HIDE DEF s
    <3>1. s.pos = m /\ Parsed(s, p, f, {"scheme"})
      BY <1>0, <2>2, TookParsed
    <3>2. Inside(s.f) /\ OnlyIn({"scheme"}, f, s.f)
      BY <3>1 DEF Parsed
    <3> QED
      BY <3>1, <3>2, HostKept
  <2> QED
    BY <2>1, <2>2, SchemeParsed
<1>2. \/ r.f = s.f \/ r.f = g \/ r.f = h.f \/ r.f = o.f
  <2>1. r = IF s.ok /\ Char(s.pos) = ":" THEN Restore(IF h.ok THEN h ELSE o, p)
            ELSE Fail(p, IF s.ok THEN g ELSE s.f)
    BY DEF absoluteURI, OrElse
  <2> HIDE DEF r, s, n, h, o, g
  <2> QED
    BY <2>1 DEF Restore, Fail
<1> HIDE DEF s
<1>3. HostIs(g)
  <2>1. OnlyIn({"scheme"}, s.f, g)
    BY <1>0, <1>1, UnsetInside
  <2> QED
    BY <1>1, <2>1, HostKept
<1>4. n \in 0..Size
  BY <1>1, NextMoves
<1> HIDE DEF n
<1>5. HostIs(h.f) /\ h.pos \in 0..Size /\ Inside(h.f)
  <2>1. HostIs(h.f)
    BY <1>1, <1>4, HierKeepsHost
  <2>2. Parsed(h, n, s.f, {"query"}) \/ Parsed(h, n, s.f, PathFields \cup {"query"})
    BY <1>1, <1>4, HierPartParsed
  <2>3. h.pos \in n..Size /\ Inside(h.f)
    BY <2>2 DEF Parsed
  <2> QED
    BY <1>4, <2>1, <2>3
<1> HIDE DEF h
<1>6. HostIs(o.f)
  <2>1. OnlyIn({"opaque_part"}, h.f, o.f)
    BY <1>5, OpaquePartParsed DEF Parsed, OnlyIn
  <2> QED
    BY <1>5, <2>1, HostKept
<1> QED
  BY <1>1, <1>2, <1>3, <1>5, <1>6

LEMMA CheckUrlKeepsHost ==
  ASSUME Size \in Nat, NEW f, Inside(f), HostIs(f)
  PROVE  HostIs(uriaa_check_url(f).f)
<1> DEFINE a == absoluteURI(0, f)
           b == OrElse(absoluteURI, relativeURI, 0, f)
           t == Then(b, "#", fragment)
           r == URI_reference(0, f)
<1>0. 0 \in 0..Size
  OBVIOUS
<1>1. HostIs(a.f) /\ Inside(a.f) /\ a.pos \in 0..Size
  BY <1>0, AbsoluteKeepsHost, AbsoluteParsed DEF Parsed
<1>2. b = IF a.ok THEN a ELSE relativeURI(a.pos, a.f)
  BY DEF OrElse
<1>3. Parsed(b, 0, f, AbsoluteFields)
  BY <1>0, UriParsed
<1> HIDE DEF a
<1>4. HostIs(b.f)
  BY <1>1, <1>2, HierKeepsHost
<1> HIDE DEF b
<1>5. OnlyIn({"fragment"}, b.f, t.f)
  BY <1>0, <1>3, FragmentTaken
<1>6. r.f = t.f
  BY DEF URI_reference, Restore, Fail, Then, fragment, Took, Ok, b
<1> HIDE DEF t, r
<1>7. HostIs(r.f)
  BY <1>4, <1>5, <1>6, HostKept
<1> QED
  BY <1>7 DEF uriaa_check_url, Fail, r

-----------------------------------------------------------------------------
(* What each function reads, against the rule of the grammar it stands for.  *)
\* The characters from p to q are of C or make escapes, as rule Many has it.
ManyIn(p, q, C) ==
  \A k \in p..q - 1 :
    \/ Char(k) \in C
    \/ Char(k) = "%" /\ k + 2 < q /\ Char(k + 1) \in HEX /\ Char(k + 2) \in HEX
Over(p, q, C) == \A k \in p..q - 1 : Char(k) \in C
Clear(p, q, D) == \A k \in p..q - 1 : Char(k) \notin D

\* The classes the loops over characters and escapes are called with.
IsClass(C) == UNRESERVED \subseteq C /\ C \subseteq URIC

LEMMA LoopClasses ==
  /\ IsClass(URIC) /\ IsClass(PCHAR) /\ IsClass(PCHAR \cup {";"}) /\ IsClass(USERINFO)
  /\ IsClass(PCHAR \cup {";", "/"}) /\ IsClass(USERINFO \cup {"@"}) /\ IsClass(REL_SEGMENT)
<1>1. {";", "/", "?", ":", "@", "&", "=", "+", "$", ","} \subseteq RESERVED
  BY DEF RESERVED
<1> QED
  BY <1>1 DEF IsClass, URIC, PCHAR, USERINFO, REL_SEGMENT

\* Delimiters are in no class that they end.
LEMMA Delimiters ==
  /\ "%" \notin URIC /\ "#" \notin URIC /\ "nul" \notin URIC
  /\ "?" \notin PCHAR \cup {";", "/"} /\ "?" \notin USERINFO \cup {"@"}
  /\ "?" \notin REL_SEGMENT /\ "/" \notin REL_SEGMENT /\ ":" \notin REL_SEGMENT
  /\ {"%", "#", "nul", "/", "?"} \cap UNRESERVED = {}
<1>1. {"%", "#", "nul", "/", "?", ":"} \cap ALPHANUM = {}
  BY DEF ALPHANUM, LOWALPHA, DIGIT
<1>2. {"%", "#", "nul", "/", "?", ":"} \cap UNRESERVED = {}
  BY <1>1 DEF UNRESERVED, MARK
<1>3. {"%", "#", "nul"} \cap RESERVED = {}
  BY DEF RESERVED
<1> QED
  BY <1>2, <1>3 DEF URIC, PCHAR, USERINFO, REL_SEGMENT

LEMMA HexUnreserved == HEX \subseteq UNRESERVED /\ ALPHANUM \subseteq UNRESERVED
<1>1. {"a", "b", "c", "d", "e", "f"} \subseteq LOWALPHA
  BY DEF LOWALPHA
<1> QED
  BY <1>1 DEF HEX, ALPHANUM, UNRESERVED

LEMMA ManyParts ==
  ASSUME NEW C
  PROVE  /\ \A p \in Int : ManyIn(p, p, C)
         /\ \A p, q \in Int : Over(p, q, C) => ManyIn(p, q, C)
         /\ \A p \in Int : Char(p) \in C => ManyIn(p, p + 1, C)
         /\ \A p, q, r \in Int : q <= r /\ ManyIn(p, q, C) /\ ManyIn(q, r, C) => ManyIn(p, r, C)
<1>1. ASSUME NEW p \in Int, NEW q \in Int, NEW r \in Int, q <= r, ManyIn(p, q, C), ManyIn(q, r, C)
      PROVE  ManyIn(p, r, C)
  <2> SUFFICES ASSUME NEW k \in p..r - 1
               PROVE  \/ Char(k) \in C
                      \/ /\ Char(k) = "%" /\ k + 2 < r
                         /\ Char(k + 1) \in HEX /\ Char(k + 2) \in HEX
    BY DEF ManyIn
  <2>1. k \in p..q - 1 \/ k \in q..r - 1
    OBVIOUS
  <2>2. CASE k \in p..q - 1
    <3>1. k + 2 < q => k + 2 < r
      BY <1>1
    <3> QED
      BY <1>1, <2>2, <3>1 DEF ManyIn
  <2>3. CASE k \in q..r - 1
    BY <1>1, <2>3 DEF ManyIn
  <2> QED
    BY <2>1, <2>2, <2>3
<1>2. /\ \A p \in Int : ManyIn(p, p, C)
      /\ \A p, q \in Int : Over(p, q, C) => ManyIn(p, q, C)
      /\ \A p \in Int : Char(p) \in C => ManyIn(p, p + 1, C)
  BY DEF ManyIn, Over
<1> QED
  BY <1>1, <1>2

LEMMA ManyJoin ==
  ASSUME NEW C, NEW p \in Int, NEW q \in Int, NEW r \in Int, q <= r,
         ManyIn(p, q, C), ManyIn(q, r, C)
  PROVE  ManyIn(p, r, C)
  BY ManyParts

LEMMA ManyOne ==
  ASSUME NEW C, NEW p \in Int, Char(p) \in C
  PROVE  ManyIn(p, p + 1, C)
  BY ManyParts

LEMMA ManyWider ==
  ASSUME NEW p, NEW q, NEW C, NEW D, C \subseteq D, ManyIn(p, q, C)
  PROVE  ManyIn(p, q, D)
  BY DEF ManyIn

\* The characters that Many passes over.
LEMMA ManyClear ==
  ASSUME NEW p \in Int, NEW q \in Int, NEW C, NEW D, D \cap C = {}, "%" \notin D, ManyIn(p, q, C)
  PROVE  Clear(p, q, D)
  BY DEF ManyIn, Clear

\* Many goes no further than a character that is neither of C nor an escape.
LEMMA ManyEnds ==
  ASSUME NEW p \in Int, NEW q \in Int, NEW e \in Int, NEW C, p <= e,
         Char(e) \notin C \cup {"%"}, ManyIn(p, q, C)
  PROVE  q <= e
  BY DEF ManyIn

LEMMA ManyStops ==
  ASSUME NEW S, NEW C, NEW q \in Many(S, C)
  PROVE  q \in 0..Size /\ \E p \in S : p <= q /\ ManyIn(p, q, C)
  BY DEF Many, ManyIn, Size

LEMMA StopsMany ==
  ASSUME NEW S, NEW C, NEW p \in S, NEW q \in 0..Size, p <= q, ManyIn(p, q, C)
  PROVE  q \in Many(S, C)
  BY DEF Many, ManyIn, Size

\* Where there is a character, the text goes on.
LEMMA CharAt ==
  ASSUME Size \in Nat, NEW p \in 0..Size, Char(p) # "nul"
  PROVE  p < Size /\ Next1(p) = p + 1 /\ p + 1 \in 0..Size
<1>1. p < Size
  BY DEF Char
<1> QED
  BY <1>1, NextMoves

\* Every "%" of such a text begins an escape, and what stands behind it may
\* stand anywhere.
LEMMA CleanEscape ==
  ASSUME Size \in Nat, EscapesClean, NEW p \in 0..Size
  PROVE  /\ Char(p) # "%" => escaped(p).ok = FALSE /\ escaped(p).pos = p
         /\ Char(p) = "%" =>
              /\ escaped(p).ok = TRUE /\ escaped(p).pos = p + 3 /\ p + 3 <= Size
              /\ Char(p + 1) \in HEX /\ Char(p + 2) \in HEX
              /\ p + 3 = Size \/ Char(p + 3) \in UNRESERVED
<1>1. CASE Char(p) # "%"
  <2>1. escaped(p) = [ok |-> FALSE, pos |-> p]
    BY <1>1 DEF escaped
  <2> QED
    BY <1>1, <2>1
<1>2. CASE Char(p) = "%"
  <2>1. p \in 0..Len(uri) - 1
    BY <1>2 DEF Char, Size
  <2>2. Char(p + 1) \in HEX /\ Char(p + 2) \in HEX /\ (p + 3 = Size \/ Char(p + 3) \in UNRESERVED)
    BY <1>2, <2>1 DEF EscapesClean, RefEscape, Size
  <2>3. "nul" \notin HEX
    BY DEF HEX, DIGIT
  <2>4. p + 2 < Size
    BY <2>2, <2>3 DEF Char
  <2>5. Next1(p + 2) = p + 3 /\ has_next(p, Size) = TRUE
    BY <2>4 DEF Next1, next_read_pos, has_next
  <2>6. escaped(p) = [ok |-> TRUE, pos |-> p + 3]
    BY <1>2, <2>2, <2>5 DEF escaped
  <2> QED
    BY <1>2, <2>2, <2>4, <2>6
<1> QED
  BY <1>1, <1>2

\* An escape, with the character behind it that the callers of escaped step over.
LEMMA EscapeReads ==
  ASSUME Size \in Nat, EscapesClean, NEW p \in 0..Size, Char(p) = "%", NEW C, UNRESERVED \subseteq C
  PROVE  /\ ManyIn(p, Next1(p + 3), C) /\ ManyIn(p + 3, Next1(p + 3), C)
         /\ Next1(p + 3) \in p + 3..Size
<1>1. /\ p + 3 \in 0..Size /\ Char(p + 1) \in HEX /\ Char(p + 2) \in HEX
      /\ p + 3 = Size \/ Char(p + 3) \in UNRESERVED
  <2>1. /\ p + 3 <= Size /\ Char(p + 1) \in HEX /\ Char(p + 2) \in HEX
        /\ p + 3 = Size \/ Char(p + 3) \in UNRESERVED
    BY CleanEscape, Zenon
  <2> QED
    BY <2>1
<1>2. Char(p + 1) \in C /\ Char(p + 2) \in C
  BY <1>1, HexUnreserved
<1>3. ManyIn(p, p + 3, C)
  <2> SUFFICES ASSUME NEW k \in p..p + 3 - 1
               PROVE  \/ Char(k) \in C
                      \/ /\ Char(k) = "%" /\ k + 2 < p + 3
                         /\ Char(k + 1) \in HEX /\ Char(k + 2) \in HEX
    BY DEF ManyIn
  <2>1. k = p \/ k = p + 1 \/ k = p + 2
    OBVIOUS
  <2> QED
    BY <1>1, <1>2, <2>1
<1>4. CASE p + 3 = Size
  <2>1. Next1(p + 3) = p + 3
    BY <1>4 DEF Next1, next_read_pos
  <2> QED
    BY <1>1, <1>3, <2>1, ManyParts
<1>5. CASE p + 3 # Size
  <2>1. Next1(p + 3) = p + 4 /\ p + 4 <= Size /\ Char(p + 3) \in C
    BY <1>1, <1>5, NextMoves
  <2>2. ManyIn(p + 3, p + 4, C)
    BY <2>1 DEF ManyIn
  <2>3. ManyIn(p, p + 4, C)
    BY <1>3, <2>2, ManyParts
  <2> QED
    BY <2>1, <2>2, <2>3
<1> QED
  BY <1>4, <1>5

\* The loop over characters and escapes goes as far as Many does.
LEMMA SkipEscapedReads ==
  ASSUME Size \in Nat, EscapesClean, NEW C, IsClass(C)
  PROVE  \A p \in 0..Size : /\ SkipEscaped(p, C) \in p..Size
                            /\ ManyIn(p, SkipEscaped(p, C), C)
                            /\ Char(SkipEscaped(p, C)) \notin C \cup {"%"}
<1> DEFINE e(q) == SkipEscaped(q, C)
           S == {q \in 0..Size : ManyIn(q, e(q), C) /\ Char(e(q)) # "%"}
<1>1. UNRESERVED \subseteq C /\ "nul" \notin C /\ "%" \notin C
  BY Delimiters DEF IsClass
<1>2. \A q \in 0..Size :
        /\ e(q) \in q..Size /\ Char(e(q)) \notin C
        /\ e(q) = IF Char(q) \in C THEN e(Next1(q))
                  ELSE IF escaped(q).ok THEN e(Next1(escaped(q).pos)) ELSE escaped(q).pos
  BY <1>1, SkipEscapedStops
<1> HIDE DEF e
<1>3. ASSUME NEW q \in 0..Size, \A k \in q + 1..Size : k \in S PROVE q \in S
  <2>1. CASE Char(q) \in C
    <3>1. q < Size
      BY <1>1, <2>1 DEF Char
    <3>2. Next1(q) = q + 1 /\ q + 1 \in q + 1..Size
      BY <3>1, NextMoves
    <3>3. e(q) = e(q + 1)
      BY <1>2, <2>1, <3>2
    <3>4. ManyIn(q + 1, e(q), C) /\ Char(e(q)) # "%" /\ q + 1 <= e(q) /\ e(q) \in Int
      BY <1>2, <1>3, <3>2, <3>3
    <3>5. ManyIn(q, q + 1, C)
      BY <2>1, ManyParts
    <3> QED
      BY <3>4, <3>5, ManyParts
  <2>2. CASE Char(q) = "%"
    <3> DEFINE n == Next1(q + 3)
    <3>1. escaped(q).ok = TRUE /\ escaped(q).pos = q + 3
      BY <2>2, CleanEscape
    <3>2. ManyIn(q, n, C) /\ n \in q + 3..Size
      BY <1>1, <2>2, EscapeReads
    <3>3. e(q) = e(n)
      BY <1>1, <1>2, <2>2, <3>1
    <3> HIDE DEF n
    <3>4. n \in q + 1..Size /\ n \in 0..Size
      BY <3>2
    <3>5. ManyIn(n, e(q), C) /\ Char(e(q)) # "%" /\ n <= e(q) /\ e(q) \in Int
      BY <1>2, <1>3, <3>3, <3>4
    <3> QED
      BY <3>2, <3>5, ManyParts
  <2>3. CASE Char(q) \notin C /\ Char(q) # "%"
    <3>1. escaped(q).ok = FALSE /\ escaped(q).pos = q
      BY <2>3, CleanEscape
    <3>2. e(q) = q
      BY <1>2, <2>3, <3>1
    <3> QED
      BY <2>3, <3>2, ManyParts
  <2> QED
    BY <2>1, <2>2, <2>3
<1> HIDE DEF S
<1>4. 0..Size \subseteq S
  BY <1>3, DownwardInduction
<1> QED
  BY <1>2, <1>4 DEF S, e

\* A segment with its parameters.
LEMMA SegmentReads ==
  ASSUME Size \in Nat, EscapesClean
  PROVE  \A p \in 0..Size : /\ segment(p) \in p..Size
                            /\ ManyIn(p, segment(p), PCHAR \cup {";"})
                            /\ Char(segment(p)) \notin (PCHAR \cup {";"}) \cup {"%"}
<1> DEFINE C == PCHAR \cup {";"}
           Read(q, e) == ManyIn(q, e, C) /\ Char(e) \notin C \cup {"%"}
           S == {q \in 0..Size : Read(q, segment(q))}
<1>0. PCHAR \subseteq C /\ ";" \in C /\ C = PCHAR \cup {";"}
  OBVIOUS
<1> HIDE DEF C
<1>1. ASSUME NEW q \in 0..Size, \A k \in q + 1..Size : k \in S PROVE q \in S
  <2> DEFINE s == SkipEscaped(q, PCHAR)
  <2>0. \A k \in q + 1..Size : Read(k, segment(k))
    BY <1>1
  <2> SUFFICES Read(q, segment(q))
    OBVIOUS
  <2> HIDE DEF S
  <2>1. s \in q..Size /\ ManyIn(q, s, PCHAR) /\ Char(s) \notin PCHAR \cup {"%"}
    BY SkipEscapedReads, LoopClasses
  <2>2. segment(q) = IF Char(s) = ";" THEN segment(Next1(s)) ELSE s
    BY SegmentMoves
  <2> HIDE DEF s
  <2>a. s \in q..Size
    BY <2>1, Zenon
  <2>3. ManyIn(q, s, C)
    <3>1. ManyIn(q, s, PCHAR) /\ PCHAR \subseteq C
      BY <1>0, <2>1, Zenon
    <3> QED
      BY <3>1, ManyWider
  <2>4. CASE Char(s) = ";"
    <3>1. s \in 0..Size /\ q <= s
      BY <2>a
    <3>2. Next1(s) = s + 1 /\ s + 1 \in 0..Size
      BY <2>4, <3>1, CharAt
    <3>3. segment(q) = segment(s + 1) /\ s + 1 \in q + 1..Size
      <4>1. segment(q) = segment(s + 1)
        BY <2>2, <2>4, <3>2, Zenon
      <4>2. s + 1 \in q + 1..Size
        BY <3>1, <3>2
      <4> QED
        BY <4>1, <4>2
    <3>4. ManyIn(s + 1, segment(q), C) /\ Char(segment(q)) \notin C \cup {"%"}
      BY <2>0, <3>3
    <3>5. ManyIn(s, s + 1, C)
      <4>1. Char(s) \in C
        BY <1>0, <2>4, Zenon
      <4>2. s \in Int
        BY <3>1
      <4> QED
        BY <4>1, <4>2, ManyOne
    <3>6. segment(q) \in Int /\ s + 1 <= segment(q)
      <4>1. segment(s + 1) \in s + 1..Size
        BY <3>2, SegmentMoves
      <4> QED
        BY <3>1, <3>3, <4>1
    <3>7. ManyIn(q, s + 1, C)
      BY <2>3, <3>1, <3>5, ManyJoin
    <3>8. ManyIn(q, segment(q), C)
      BY <3>1, <3>4, <3>6, <3>7, ManyJoin
    <3> QED
      BY <3>4, <3>8
  <2>5. CASE Char(s) # ";"
    <3>1. Char(s) \notin C \cup {"%"}
      BY <1>0, <2>1, <2>5
    <3> QED
      BY <2>2, <2>3, <2>5, <3>1
  <2> QED
    BY <2>4, <2>5
<1> HIDE DEF S
<1>2. 0..Size \subseteq S
  BY <1>1, DownwardInduction
<1>3. \A q \in 0..Size : segment(q) \in q..Size
  BY SegmentMoves
<1> QED
  BY <1>2, <1>3 DEF S, C

\* Segments with a "/" before each but the first.
LEMMA PathSegmentsRead ==
  ASSUME Size \in Nat, EscapesClean
  PROVE  \A p \in 0..Size : /\ path_segments(p) \in p..Size
                            /\ ManyIn(p, path_segments(p), PCHAR \cup {";", "/"})
                            /\ Char(path_segments(p)) \notin (PCHAR \cup {";", "/"}) \cup {"%"}
<1> DEFINE C == PCHAR \cup {";", "/"}
           Read(q, e) == ManyIn(q, e, C) /\ Char(e) \notin C \cup {"%"}
           S == {q \in 0..Size : Read(q, path_segments(q))}
<1>0. (PCHAR \cup {";"}) \subseteq C /\ "/" \in C /\ C = (PCHAR \cup {";"}) \cup {"/"}
  OBVIOUS
<1> HIDE DEF C
<1>1. ASSUME NEW q \in 0..Size, \A k \in q + 1..Size : k \in S PROVE q \in S
  <2> DEFINE s == segment(q)
  <2>0. \A k \in q + 1..Size : Read(k, path_segments(k))
    BY <1>1
  <2> SUFFICES Read(q, path_segments(q))
    OBVIOUS
  <2> HIDE DEF S
  <2>1. s \in q..Size /\ ManyIn(q, s, PCHAR \cup {";"}) /\ Char(s) \notin (PCHAR \cup {";"}) \cup {"%"}
    BY SegmentReads
  <2>2. path_segments(q) = IF Char(s) = "/" THEN path_segments(Next1(s)) ELSE s
    BY PathSegmentsMove
  <2> HIDE DEF s
  <2>a. s \in q..Size
    BY <2>1, Zenon
  <2>3. ManyIn(q, s, C)
    <3>1. ManyIn(q, s, (PCHAR \cup {";"})) /\ (PCHAR \cup {";"}) \subseteq C
      BY <1>0, <2>1, Zenon
    <3> QED
      BY <3>1, ManyWider
  <2>4. CASE Char(s) = "/"
    <3>1. s \in 0..Size /\ q <= s
      BY <2>a
    <3>2. Next1(s) = s + 1 /\ s + 1 \in 0..Size
      BY <2>4, <3>1, CharAt
    <3>3. path_segments(q) = path_segments(s + 1) /\ s + 1 \in q + 1..Size
      <4>1. path_segments(q) = path_segments(s + 1)
        BY <2>2, <2>4, <3>2, Zenon
      <4>2. s + 1 \in q + 1..Size
        BY <3>1, <3>2
      <4> QED
        BY <4>1, <4>2
    <3>4. ManyIn(s + 1, path_segments(q), C) /\ Char(path_segments(q)) \notin C \cup {"%"}
      BY <2>0, <3>3
    <3>5. ManyIn(s, s + 1, C)
      <4>1. Char(s) \in C
        BY <1>0, <2>4, Zenon
      <4>2. s \in Int
        BY <3>1
      <4> QED
        BY <4>1, <4>2, ManyOne
    <3>6. path_segments(q) \in Int /\ s + 1 <= path_segments(q)
      <4>1. path_segments(s + 1) \in s + 1..Size
        BY <3>2, PathSegmentsMove
      <4> QED
        BY <3>1, <3>3, <4>1
    <3>7. ManyIn(q, s + 1, C)
      BY <2>3, <3>1, <3>5, ManyJoin
    <3>8. ManyIn(q, path_segments(q), C)
      BY <3>1, <3>4, <3>6, <3>7, ManyJoin
    <3> QED
      BY <3>4, <3>8
  <2>5. CASE Char(s) # "/"
    <3>1. Char(s) \notin C \cup {"%"}
      BY <1>0, <2>1, <2>5
    <3> QED
      BY <2>2, <2>3, <2>5, <3>1
  <2> QED
    BY <2>4, <2>5
<1> HIDE DEF S
<1>2. 0..Size \subseteq S
  BY <1>1, DownwardInduction
<1>3. \A q \in 0..Size : path_segments(q) \in q..Size
  BY PathSegmentsMove
<1> QED
  BY <1>2, <1>3 DEF S, C

-----------------------------------------------------------------------------
\* Where the rules end that begin at positions of S.
LEMMA RuleBounds ==
  ASSUME Size \in Nat, NEW p \in Nat, NEW S, S \subseteq p..Size, NEW C
  PROVE  /\ Many(S, C) \subseteq p..Size
         /\ "nul" \notin C => One(S, C) \subseteq p + 1..Size
         /\ RefEscape(S) \subseteq p + 1..Size
<1>1. ASSUME NEW q \in Many(S, C) PROVE q \in p..Size
  <2>1. q \in 0..Size /\ \E x \in S : x <= q /\ ManyIn(x, q, C)
    BY ManyStops
  <2> QED
    BY <2>1
<1>2. ASSUME "nul" \notin C, NEW q \in One(S, C) PROVE q \in p + 1..Size
  <2>1. PICK x \in S : Char(x) \in C /\ q = x + 1
    BY DEF One
  <2>2. x \in 0..Size /\ p <= x /\ Char(x) # "nul"
    BY <1>2, <2>1
  <2> QED
    BY <2>1, <2>2, CharAt
<1>3. ASSUME NEW q \in RefEscape(S) PROVE q \in p + 1..Size
  <2>1. PICK x \in S : Char(x + 2) \in HEX /\ q = x + 3
    BY <1>3 DEF RefEscape
  <2>2. "nul" \notin HEX
    BY DEF HEX, DIGIT
  <2>3. x + 2 < Size
    BY <2>1, <2>2 DEF Char
  <2> QED
    BY <2>1, <2>3
<1> QED
  BY <1>1, <1>2, <1>3

\* A rule is true of the positions it begins at one by one.
LEMMA RulesGrow ==
  ASSUME NEW S, NEW T, S \subseteq T, NEW C
  PROVE  Many(S, C) \subseteq Many(T, C) /\ One(S, C) \subseteq One(T, C)
  BY DEF Many, One

LEMMA NoStart == ASSUME NEW C PROVE Many({}, C) = {} /\ One({}, C) = {}
  BY DEF Many, One

\* Of the positions of S only the last can have a delimiter behind it that the
\* text before it is clear of.
LEMMA OnlyLast ==
  ASSUME Size \in Nat, NEW p \in 0..Size, NEW S, S \subseteq p..Size, NEW e \in S, NEW c,
         Clear(p, e, {c}), \A q \in S : q <= e
  PROVE  /\ Char(e) = c => One(S, {c}) = {e + 1}
         /\ Char(e) # c => One(S, {c}) = {}
<1>1. ASSUME NEW x \in S, Char(x) = c PROVE x = e
  <2>1. x \in p..e /\ e \in p..Size
    BY <1>1
  <2>2. x \notin p..e - 1
    BY <1>1 DEF Clear
  <2> QED
    BY <2>1, <2>2
<1>2. CASE Char(e) = c
  <2>1. e + 1 \in One(S, {c})
    BY <1>2 DEF One
  <2>2. ASSUME NEW q \in One(S, {c}) PROVE q = e + 1
    <3>1. PICK x \in S : Char(x) \in {c} /\ q = x + 1
      BY DEF One
    <3> QED
      BY <1>1, <3>1
  <2> QED
    BY <1>2, <2>1, <2>2
<1>3. CASE Char(e) # c
  <2>1. ASSUME NEW q \in One(S, {c}) PROVE FALSE
    <3>1. PICK x \in S : Char(x) \in {c} /\ q = x + 1
      BY DEF One
    <3> QED
      BY <1>1, <1>3, <3>1
  <2> QED
    BY <1>3, <2>1
<1> QED
  BY <1>2, <1>3

\* The loop over characters and escapes ends where Many goes furthest.
LEMMA SkipIsMany ==
  ASSUME Size \in Nat, EscapesClean, NEW p \in 0..Size, NEW C, IsClass(C)
  PROVE  /\ SkipEscaped(p, C) \in Many({p}, C)
         /\ \A q \in Many({p}, C) : q <= SkipEscaped(p, C)
<1> DEFINE e == SkipEscaped(p, C)
<1>1. e \in p..Size /\ ManyIn(p, e, C) /\ Char(e) \notin C \cup {"%"}
  BY SkipEscapedReads
<1> HIDE DEF e
<1>2. e \in 0..Size /\ p <= e
  BY <1>1
<1>3. e \in Many({p}, C)
  BY <1>1, <1>2, StopsMany
<1>4. ASSUME NEW q \in Many({p}, C) PROVE q <= e
  <2>1. q \in 0..Size /\ p <= q /\ ManyIn(p, q, C)
    BY ManyStops
  <2> QED
    BY <1>1, <1>2, <2>1, ManyEnds
<1> QED
  BY <1>3, <1>4 DEF e

\* What a function gives from p on, against its rule S: it ends where the rule may
\* end and has passed no character of D.  In a text without "//" it goes as far as
\* the rule does, and fails only where the rule does not apply.
Reads(r, p, S, D) ==
  /\ r.ok \in BOOLEAN /\ S \subseteq p + 1..Size
  /\ r.ok = TRUE => r.pos \in S /\ Clear(p, r.pos, D)
  /\ ~HasDoubleSlash => (S # {} => r.ok = TRUE) /\ \A q \in S : q <= r.pos

\* The same of any text.
Greedy(r, p, S, D) ==
  /\ r.ok \in BOOLEAN /\ S \subseteq p + 1..Size
  /\ r.ok = FALSE => S = {}
  /\ r.ok = TRUE => r.pos \in S /\ Clear(p, r.pos, D) /\ \A q \in S : q <= r.pos

LEMMA AbsPathRule ==
  ASSUME Size \in Nat, EscapesClean, NEW p \in 0..Size
  PROVE  LET e == path_segments(Next1(p))
         IN /\ RefAbsPath({p}) \subseteq p + 1..Size
            /\ Char(p) # "/" => RefAbsPath({p}) = {}
            /\ Char(p) = "/" => /\ e \in RefAbsPath({p}) /\ Clear(p, e, {"?", "#"})
                                /\ \A q \in RefAbsPath({p}) : q <= e
<1> DEFINE C == PCHAR \cup {";", "/"}
           e == path_segments(Next1(p))
<1>1. RefAbsPath({p}) = Many(One({p}, {"/"}), C)
  BY DEF RefAbsPath
<1>2. RefAbsPath({p}) \subseteq p + 1..Size
  <2>1. {p} \subseteq p..Size /\ p \in Nat /\ p + 1 \in Nat /\ "nul" \notin {"/"}
    OBVIOUS
  <2>2. One({p}, {"/"}) \subseteq p + 1..Size
    BY <2>1, RuleBounds, Zenon
  <2>3. Many(One({p}, {"/"}), C) \subseteq p + 1..Size
    BY <2>1, <2>2, RuleBounds, Zenon
  <2> QED
    BY <1>1, <2>3
<1>3. CASE Char(p) # "/"
  <2>1. One({p}, {"/"}) = {}
    BY <1>3 DEF One
  <2> QED
    BY <1>1, <1>2, <1>3, <2>1, NoStart
<1> HIDE DEF C
<1>4. CASE Char(p) = "/"
  <2>1. Next1(p) = p + 1 /\ p + 1 \in 0..Size
    BY <1>4, CharAt
  <2>2. One({p}, {"/"}) = {p + 1}
    BY <1>4 DEF One
  <2>3. e \in p + 1..Size /\ ManyIn(p + 1, e, C) /\ Char(e) \notin C \cup {"%"}
    <3>1. e = path_segments(p + 1)
      BY <2>1
    <3> QED
      BY <2>1, <3>1, PathSegmentsRead DEF C
  <2> HIDE DEF e
  <2>a. e \in p + 1..Size
    BY <2>3, Zenon
  <2>4. e \in 0..Size /\ p + 1 <= e
    BY <2>a
  <2>5. e \in Many({p + 1}, C)
    BY <2>3, <2>4, StopsMany
  <2>6. ASSUME NEW q \in Many({p + 1}, C) PROVE q <= e
    <3>1. q \in 0..Size /\ ManyIn(p + 1, q, C)
      BY ManyStops
    <3> QED
      BY <2>3, <2>4, <3>1, ManyEnds
  <2>7. Clear(p, e, {"?", "#"})
    <3>1. C \cap {"?", "#"} = {}
      BY Delimiters, LoopClasses DEF IsClass, C
    <3>2. Clear(p + 1, e, {"?", "#"})
      <4>1. "%" \notin {"?", "#"} /\ {"?", "#"} \cap C = {} /\ p + 1 \in Int /\ e \in Int
        BY <2>4, <3>1
      <4> QED
        BY <2>3, <4>1, ManyClear
    <3> QED
      BY <1>4, <2>4, <3>2 DEF Clear
  <2> QED
    BY <1>1, <1>2, <1>4, <2>2, <2>5, <2>6, <2>7 DEF e
<1> QED
  BY <1>3, <1>4

LEMMA AbsPathReads ==
  ASSUME Size \in Nat, EscapesClean, NEW p \in 0..Size, NEW f
  PROVE  Greedy(abs_path(p, f), p, RefAbsPath({p}), {"?", "#"})
<1> DEFINE e == path_segments(Next1(p))
           r == abs_path(p, f)
<1>1. CASE Char(p) # "/"
  <2>1. r.ok = FALSE /\ RefAbsPath({p}) = {}
    BY <1>1, AbsPathRule DEF abs_path, Fail
  <2> QED
    BY <2>1 DEF Greedy
<1>2. CASE Char(p) = "/"
  <2>1. r.ok = TRUE /\ r.pos = e
    BY <1>2 DEF abs_path, Took, Ok
  <2> HIDE DEF r
  <2>2. /\ RefAbsPath({p}) \subseteq p + 1..Size /\ e \in RefAbsPath({p})
        /\ Clear(p, e, {"?", "#"}) /\ \A q \in RefAbsPath({p}) : q <= e
    BY <1>2, AbsPathRule
  <2> QED
    BY <2>1, <2>2 DEF Greedy, r
<1> QED
  BY <1>1, <1>2

\* One character of First or an escape, then the loop.
LEMMA LeadingReads ==
  ASSUME Size \in Nat, EscapesClean, NEW p \in 0..Size, NEW First, NEW C, NEW D,
         First \subseteq URIC, IsClass(C), D \cap First = {}, D \cap C = {}, "%" \notin D
  PROVE  Greedy(Leading(p, First, C), p, Many(One({p}, First) \cup RefEscape({p}), C), D)
<1> DEFINE L == Leading(p, First, C)
           T == One({p}, First) \cup RefEscape({p})
           R == Many(T, C)
<1>1. "nul" \notin First /\ "%" \notin First /\ UNRESERVED \subseteq C
  BY Delimiters DEF IsClass
<1>2. R \subseteq p + 1..Size
  <2>1. {p} \subseteq p..Size /\ p \in Nat /\ p + 1 \in Nat
    OBVIOUS
  <2>2. One({p}, First) \subseteq p + 1..Size /\ RefEscape({p}) \subseteq p + 1..Size
    BY <1>1, <2>1, RuleBounds, Zenon
  <2>3. T \subseteq p + 1..Size
    BY <2>2
  <2> HIDE DEF T
  <2> QED
    BY <2>1, <2>3, RuleBounds, Zenon
<1>0. R = Many(T, C)
  OBVIOUS
<1> SUFFICES Greedy(L, p, R, D)
  OBVIOUS
<1> HIDE DEF L, T, R
<1>3. ASSUME NEW b \in p..Size, NEW n \in b..Size, T = {b}, ManyIn(b, n, C), Clear(p, n, D),
             L = [ok |-> TRUE, pos |-> SkipEscaped(n, C)]
      PROVE  Greedy(L, p, R, D)
  <2> DEFINE e == SkipEscaped(n, C)
  <2>1. e \in n..Size /\ ManyIn(n, e, C) /\ Char(e) \notin C \cup {"%"}
    BY SkipEscapedReads
  <2> HIDE DEF e
  <2>2. e \in Int /\ e \in 0..Size /\ n <= e /\ b <= e
    BY <2>1
  <2>3. ManyIn(b, e, C)
    BY <1>3, <2>1, <2>2, ManyJoin
  <2>4. e \in Many({b}, C)
    BY <2>2, <2>3, StopsMany
  <2>5. ASSUME NEW q \in Many({b}, C) PROVE q <= e
    <3>1. q \in 0..Size /\ ManyIn(b, q, C)
      BY ManyStops
    <3> QED
      BY <2>1, <2>2, <3>1, ManyEnds
  <2>6. Clear(n, e, D)
    BY <2>1, <2>2, ManyClear
  <2>7. Clear(p, e, D)
    BY <1>3, <2>2, <2>6 DEF Clear
  <2>8. L.ok = TRUE /\ L.pos = e
    BY <1>3 DEF e
  <2> QED
    BY <1>0, <1>2, <1>3, <2>4, <2>5, <2>7, <2>8 DEF Greedy
<1>4. CASE Char(p) \in First
  <2>1. Next1(p) = p + 1 /\ p + 1 \in p..Size
    BY <1>1, <1>4, CharAt
  <2>2. Char(p) # "%"
    BY <1>1, <1>4
  <2>3. T = {p + 1}
    BY <1>4, <2>2 DEF One, RefEscape, T
  <2>4. ManyIn(p + 1, p + 1, C) /\ Clear(p, p + 1, D)
    BY <1>4 DEF ManyIn, Clear
  <2>5. L = [ok |-> TRUE, pos |-> SkipEscaped(p + 1, C)]
    BY <1>4, <2>1 DEF Leading, L
  <2>6. p + 1 \in p + 1..Size
    BY <2>1
  <2> QED
    BY <1>3, <2>1, <2>3, <2>4, <2>5, <2>6
<1>5. CASE Char(p) = "%"
  <2> DEFINE n == Next1(p + 3)
  <2>1. /\ escaped(p).ok = TRUE /\ escaped(p).pos = p + 3 /\ p + 3 <= Size
        /\ Char(p + 1) \in HEX /\ Char(p + 2) \in HEX
    BY <1>5, CleanEscape, Zenon
  <2>2. Char(p) \notin First
    BY <1>1, <1>5
  <2>3. T = {p + 3}
    BY <1>5, <2>1, <2>2 DEF One, RefEscape, T
  <2>4. ManyIn(p, n, C) /\ ManyIn(p + 3, n, C) /\ n \in p + 3..Size
    BY <1>1, <1>5, EscapeReads
  <2>5. L = [ok |-> TRUE, pos |-> SkipEscaped(n, C)]
    BY <2>1, <2>2 DEF Leading, L
  <2> HIDE DEF n
  <2>6. Clear(p, n, D)
    <3>1. n \in Int
      BY <2>4
    <3> QED
      BY <2>4, <3>1, ManyClear
  <2>7. p + 3 \in p..Size
    BY <2>1
  <2> QED
    BY <1>3, <2>3, <2>4, <2>5, <2>6, <2>7
<1>6. CASE Char(p) \notin First /\ Char(p) # "%"
  <2>1. T = {}
    BY <1>6 DEF One, RefEscape, T
  <2>2. escaped(p).ok = FALSE
    BY <1>6, CleanEscape
  <2>3. L = escaped(p)
    BY <1>6, <2>2 DEF Leading, L
  <2>4. R = {}
    BY <1>0, <2>1, NoStart
  <2> QED
    BY <2>2, <2>3, <2>4 DEF Greedy
<1> QED
  BY <1>4, <1>5, <1>6

LEMMA RelPathReads ==
  ASSUME Size \in Nat, EscapesClean, NEW p \in 0..Size, NEW f
  PROVE  Greedy(rel_path(p, f), p, RefRelPath({p}), {"?", "#"})
<1> DEFINE L == rel_segment(p)
           e == L.pos
           b == abs_path(e, f)
           r == rel_path(p, f)
           seg == Many(One({p}, REL_SEGMENT) \cup RefEscape({p}), REL_SEGMENT)
           D == {"?", "#"}
<1>1. Greedy(L, p, seg, {"/", "?", "#"})
  <2>1. REL_SEGMENT \subseteq URIC /\ IsClass(REL_SEGMENT)
    BY LoopClasses DEF IsClass
  <2>2. {"/", "?", "#"} \cap REL_SEGMENT = {} /\ "%" \notin {"/", "?", "#"}
    BY <2>1, Delimiters
  <2> QED
    BY <2>1, <2>2, LeadingReads DEF rel_segment
<1>2. r = IF L.ok THEN Took("rel_path", p, b.pos, b.f) ELSE Fail(p, f)
  BY DEF rel_path
<1>3. RefRelPath({p}) = seg \cup RefAbsPath(seg)
  BY DEF RefRelPath
<1>4. \A S : RefAbsPath(S) = Many(One(S, {"/"}), PCHAR \cup {";", "/"})
  BY DEF RefAbsPath
<1>5. e \in Int => Greedy(b, e, RefAbsPath({e}), D) \/ e \notin 0..Size
  BY AbsPathReads
<1>6. Char(e) # "/" => b = Fail(e, f)
  BY DEF abs_path
<1>7. Char(e) = "/" => b.ok = TRUE
  BY DEF abs_path, Took, Ok
<1> HIDE DEF L, b, r, seg
<1>8. CASE L.ok = FALSE
  <2>1. seg = {} /\ r.ok = FALSE
    BY <1>1, <1>2, <1>8 DEF Greedy, Fail
  <2>2. RefRelPath({p}) = {}
    BY <1>3, <1>4, <2>1, NoStart
  <2> QED
    BY <2>1, <2>2 DEF Greedy, r
<1>9. CASE L.ok = TRUE
  <2>1. /\ e \in seg /\ seg \subseteq p + 1..Size /\ Clear(p, e, {"/", "?", "#"})
        /\ \A q \in seg : q <= e
    BY <1>1, <1>9 DEF Greedy
  <2>a. e \in p + 1..Size
    BY <2>1
  <2> HIDE DEF e
  <2>2. e \in 0..Size /\ p + 1 <= e /\ e \in Int
    BY <2>a
  <2>3. r.ok = TRUE /\ r.pos = b.pos
    BY <1>2, <1>9 DEF Took, Ok
  <2>4. Clear(p, e, {"/"}) /\ Clear(p, e, D)
    BY <2>1 DEF Clear
  <2>5. seg \subseteq p..Size
    BY <2>1
  <2>6. CASE Char(e) = "/"
    <3>1. One(seg, {"/"}) = {e + 1}
      BY <2>1, <2>4, <2>5, <2>6, OnlyLast
    <3>2. One({e}, {"/"}) = {e + 1}
      BY <2>6 DEF One
    <3>3. RefAbsPath(seg) = RefAbsPath({e})
      BY <1>4, <3>1, <3>2
    <3>4. /\ b.pos \in RefAbsPath(seg) /\ Clear(e, b.pos, D)
          /\ RefAbsPath(seg) \subseteq e + 1..Size
          /\ \A q \in RefAbsPath(seg) : q <= b.pos
      BY <1>5, <1>7, <2>2, <2>6, <3>3 DEF Greedy
    <3>5. b.pos \in e + 1..Size
      BY <3>4
    <3>6. Clear(p, b.pos, D)
      BY <2>2, <2>4, <3>4, <3>5 DEF Clear
    <3>7. \A q \in seg \cup RefAbsPath(seg) : q <= b.pos /\ q \in p + 1..Size
      BY <2>1, <2>2, <3>4, <3>5
    <3> QED
      BY <1>3, <2>3, <3>4, <3>6, <3>7 DEF Greedy, r
  <2>7. CASE Char(e) # "/"
    <3>1. One(seg, {"/"}) = {}
      BY <2>1, <2>4, <2>5, <2>7, OnlyLast
    <3>2. RefAbsPath(seg) = {}
      BY <1>4, <3>1, NoStart
    <3>3. r.pos = e
      BY <1>6, <2>3, <2>7 DEF Fail
    <3> QED
      BY <1>3, <2>1, <2>3, <2>4, <3>2, <3>3 DEF Greedy, r
  <2> QED
    BY <2>6, <2>7
<1> QED
  BY <1>1, <1>8, <1>9 DEF Greedy

LEMMA OpaquePartReads ==
  ASSUME Size \in Nat, EscapesClean, NEW p \in 0..Size, NEW f
  PROVE  Greedy(opaque_part(p, f), p, RefOpaque({p}), {"#"})
<1> DEFINE L == Leading(p, URIC_NO_SLASH, URIC)
           r == opaque_part(p, f)
<1>1. Greedy(L, p, RefOpaque({p}), {"#"})
  <2>1. URIC_NO_SLASH \subseteq URIC
    BY DEF URIC_NO_SLASH, URIC, RESERVED
  <2>2. /\ {"#"} \cap URIC_NO_SLASH = {} /\ {"#"} \cap URIC = {} /\ "%" \notin {"#"}
        /\ IsClass(URIC)
    BY <2>1, Delimiters, LoopClasses
  <2> QED
    BY <2>1, <2>2, LeadingReads DEF RefOpaque
<1>2. r = IF L.ok THEN Took("opaque_part", p, L.pos, f) ELSE Fail(L.pos, f)
  BY DEF opaque_part
<1> HIDE DEF L
<1>a. L.ok \in BOOLEAN
  BY <1>1 DEF Greedy
<1>3. r.ok = L.ok /\ r.pos = L.pos
  <2> HIDE DEF r
  <2>1. CASE L.ok = TRUE
    <3>1. r = Took("opaque_part", p, L.pos, f)
      BY <1>2, <2>1
    <3> QED
      BY <2>1, <3>1 DEF Took, Ok
  <2>2. CASE L.ok = FALSE
    <3>1. r = Fail(L.pos, f)
      BY <1>2, <2>2
    <3> QED
      BY <2>2, <3>1 DEF Fail
  <2> QED
    BY <1>a, <2>1, <2>2
<1> QED
  BY <1>1, <1>3 DEF Greedy

-----------------------------------------------------------------------------
\* What server passes over are characters of USERINFO, and perhaps an "@".
LEMMA HostClasses ==
  /\ ALPHANUM \cup {"-", "."} \subseteq USERINFO /\ DIGIT \subseteq USERINFO
  /\ DIGIT \cup {"."} \subseteq USERINFO /\ ":" \in USERINFO
<1>1. {"-", "."} \subseteq MARK
  BY DEF MARK
<1>2. ALPHANUM \cup {"-", "."} \subseteq UNRESERVED
  BY <1>1 DEF UNRESERVED
<1>3. DIGIT \subseteq ALPHANUM
  BY DEF ALPHANUM
<1> QED
  BY <1>2, <1>3 DEF USERINFO

LEMMA HostnamePasses ==
  ASSUME Size \in Nat, NEW p \in 0..Size, hostname(p).ok
  PROVE  Over(p, hostname(p).pos, USERINFO)
<1> DEFINE C == ALPHANUM \cup {"-", "."}
<1>1. PICK last :
        /\ LastLabel(last) /\ last[p] \in p..Size
        /\ LET top == toplabel(last[p])
           IN /\ top.ok
              /\ hostname(p).pos = IF Char(top.pos) = "." THEN Next1(top.pos) ELSE top.pos
  BY HostnameMoves
<1> DEFINE l == last[p]
           e == toplabel(l).pos
<1>2. l \in p..Size /\ LabelsIn(p, l)
  BY <1>1, LabelsPassed
<1>3. e \in l..Size /\ LabelIn(l, e, LOWALPHA)
  <2>1. l \in 0..Size /\ toplabel(l).ok
    BY <1>1, <1>2
  <2> HIDE DEF l
  <2>2. /\ toplabel(l) \in [ok : BOOLEAN, pos : l..Size]
        /\ toplabel(l).ok => LabelIn(l, toplabel(l).pos, LOWALPHA)
    BY <2>1, LabelMoves, ClassesInText, ClassesInUriChars DEF toplabel
  <2> QED
    BY <2>1, <2>2
<1>4. hostname(p).pos = IF Char(e) = "." THEN Next1(e) ELSE e
  BY <1>1
<1> HIDE DEF l, e
<1>5. e \in 0..Size /\ l \in Int /\ l <= e
  BY <1>2, <1>3
<1>6. Over(p, l, C)
  BY <1>2 DEF LabelsIn, NameIn, Over
<1>7. Over(l, e, C)
  <2>1. Char(l) \in C
    BY <1>3, AlphanumClasses DEF LabelIn
  <2> QED
    BY <1>3, <1>5, <2>1 DEF LabelIn, Over
<1>8. Over(p, e, C)
  BY <1>2, <1>5, <1>6, <1>7 DEF Over
<1>9. Over(p, hostname(p).pos, C)
  <2>1. CASE Char(e) = "."
    <3>1. hostname(p).pos = e + 1
      BY <1>4, <1>5, <2>1, CharAt
    <3> QED
      BY <1>5, <1>8, <2>1, <3>1 DEF Over
  <2>2. CASE Char(e) # "."
    BY <1>4, <1>8, <2>2
  <2> QED
    BY <2>1, <2>2
<1> HIDE DEF C
<1>10. C \subseteq USERINFO
  BY HostClasses DEF C
<1> QED
  BY <1>9, <1>10 DEF Over

LEMMA HostPasses ==
  ASSUME Size \in Nat, NEW p \in 0..Size, NEW f
  PROVE  /\ host(p, f).ok \in BOOLEAN
         /\ host(p, f).ok = TRUE => /\ host(p, f).pos \in p..Size
                                    /\ Over(p, host(p, f).pos, USERINFO)
<1> DEFINE b == IF hostname(p).ok THEN hostname(p) ELSE IPv4address(p)
           r == host(p, f)
<1>1. r = IF b.ok THEN Took("host", p, b.pos, f) ELSE Fail(p, f)
  BY DEF host
<1>2. b.ok => b.pos \in p..Size /\ Over(p, b.pos, USERINFO)
  <2>1. CASE hostname(p).ok
    <3>1. hostname(p).pos \in p..Size
      BY HostnameMoves, Zenon
    <3> QED
      BY <2>1, <3>1, HostnamePasses
  <2>2. CASE ~hostname(p).ok /\ IPv4address(p).ok
    <3>1. IsIPv4(p, IPv4address(p).pos)
      BY <2>2, AddressRead
    <3>2. Over(p, IPv4address(p).pos, DIGIT \cup {"."})
      BY <3>1 DEF IsIPv4, Over
    <3>3. Over(p, IPv4address(p).pos, USERINFO)
      BY <3>2, HostClasses DEF Over
    <3> QED
      BY <2>2, <3>3, IPv4addressMoves
  <2> QED
    BY <2>1, <2>2
<1> HIDE DEF b, r
<1>3. CASE b.ok
  <2>1. r.ok = TRUE /\ r.pos = b.pos
    BY <1>1, <1>3 DEF Took, Ok
  <2> QED
    BY <1>2, <1>3, <2>1 DEF r
<1>4. CASE ~b.ok
  <2>1. r.ok = FALSE
    BY <1>1, <1>4 DEF Fail
  <2> QED
    BY <2>1 DEF r
<1> QED
  BY <1>3, <1>4

LEMMA HostportPasses ==
  ASSUME Size \in Nat, NEW p \in 0..Size, NEW f
  PROVE  /\ hostport(p, f).ok \in BOOLEAN
         /\ hostport(p, f).ok = TRUE => /\ hostport(p, f).pos \in p..Size
                                        /\ Over(p, hostport(p, f).pos, USERINFO)
<1> DEFINE a == host(p, f)
           n == Next1(a.pos)
           b == port(n, a.f)
           r == hostport(p, f)
<1>1. /\ a.ok \in BOOLEAN
      /\ a.ok = TRUE => a.pos \in p..Size /\ Over(p, a.pos, USERINFO)
  BY HostPasses
<1>2. r = IF a.ok /\ Char(a.pos) = ":" THEN [ok |-> a.ok, pos |-> b.pos, f |-> b.f] ELSE a
  BY DEF hostport, Then
<1>3. n \in 0..Size => b.pos \in n..Size /\ Over(n, b.pos, DIGIT)
  <2> HIDE DEF n
  <2> SUFFICES ASSUME n \in 0..Size PROVE b.pos \in n..Size /\ Over(n, b.pos, DIGIT)
    OBVIOUS
  <2>1. CASE Char(n) \in DIGIT
    <3>1. b.pos = SkipOver(n, DIGIT)
      BY <2>1 DEF port, Took, Ok
    <3>2. SkipOver(n, DIGIT) \in n..Size /\ \A k \in n..SkipOver(n, DIGIT) - 1 : Char(k) \in DIGIT
      BY SkipOverStops
    <3> HIDE DEF b
    <3> QED
      BY <3>1, <3>2 DEF Over
  <2>2. CASE Char(n) \notin DIGIT
    <3>1. b.pos = n
      BY <2>2 DEF port, Fail
    <3> HIDE DEF b
    <3> QED
      BY <3>1 DEF Over
  <2> QED
    BY <2>1, <2>2
<1> HIDE DEF a, b, r
<1>4. CASE a.ok = TRUE /\ Char(a.pos) = ":"
  <2>1. a.pos \in p..Size /\ Over(p, a.pos, USERINFO)
    BY <1>1, <1>4
  <2>2. n = a.pos + 1 /\ n \in 0..Size
    BY <1>4, <2>1, CharAt
  <2>3. b.pos \in n..Size /\ Over(n, b.pos, DIGIT)
    BY <1>3, <2>2
  <2>4. r.ok = TRUE /\ r.pos = b.pos
    BY <1>2, <1>4
  <2>5. ASSUME NEW k \in p..b.pos - 1 PROVE Char(k) \in USERINFO
    <3>1. k \in p..a.pos - 1 \/ k = a.pos \/ k \in n..b.pos - 1
      BY <2>1, <2>2, <2>3
    <3> QED
      BY <1>4, <2>1, <2>3, <3>1, HostClasses DEF Over
  <2>6. b.pos \in p..Size
    BY <2>1, <2>2, <2>3
  <2> QED
    BY <2>4, <2>5, <2>6 DEF Over, r
<1>5. CASE ~(a.ok = TRUE /\ Char(a.pos) = ":")
  <2>1. r = a
    BY <1>1, <1>2, <1>5
  <2> QED
    BY <1>1, <2>1 DEF r
<1> QED
  BY <1>4, <1>5

LEMMA ServerPasses ==
  ASSUME Size \in Nat, EscapesClean, NEW p \in 0..Size, NEW f
  PROVE  server(p, f).pos \in Many({p}, USERINFO \cup {"@"})
<1> DEFINE C == USERINFO \cup {"@"}
           u == SkipEscaped(p, USERINFO)
           n == Next1(u)
           g == Set(f, "userinfo", p, u)
           a == UserAndHost(p, f)
           s == server(p, f)
<1>1. u \in p..Size /\ ManyIn(p, u, USERINFO)
  BY SkipEscapedReads, LoopClasses
<1>2. a = IF Char(u) = "@" THEN hostport(n, g) ELSE hostport(p, f)
  BY DEF UserAndHost
<1>3. s = IF a.ok THEN a ELSE Ok(p, [a.f EXCEPT !["userinfo"] = Unset])
  BY DEF server
<1>4. USERINFO \subseteq C /\ "@" \in C
  OBVIOUS
<1> HIDE DEF C, u, g, a, s
<1>5. p \in Many({p}, C)
  BY ManyParts, StopsMany
<1>6. CASE ~a.ok
  <2>1. s.pos = p
    BY <1>3, <1>6 DEF Ok
  <2> QED
    BY <1>5, <2>1 DEF s, C
<1>7. CASE a.ok /\ Char(u) # "@"
  <2>1. s = hostport(p, f) /\ hostport(p, f).ok
    BY <1>2, <1>3, <1>7
  <2>2. s.pos \in p..Size /\ Over(p, s.pos, USERINFO)
    BY <2>1, HostportPasses
  <2>3. Over(p, s.pos, C)
    BY <1>4, <2>2 DEF Over
  <2>4. ManyIn(p, s.pos, C)
    BY <2>3 DEF ManyIn, Over
  <2>5. s.pos \in 0..Size /\ p <= s.pos
    BY <2>2
  <2> QED
    BY <2>4, <2>5, StopsMany DEF s, C
<1>8. CASE a.ok /\ Char(u) = "@"
  <2>1. s = hostport(n, g) /\ hostport(n, g).ok
    BY <1>2, <1>3, <1>8
  <2>2. n = u + 1 /\ n \in 0..Size
    BY <1>1, <1>8, CharAt
  <2> HIDE DEF n
  <2>3. s.pos \in n..Size /\ Over(n, s.pos, USERINFO)
    BY <2>1, <2>2, HostportPasses
  <2>4. Over(n, s.pos, C)
    BY <1>4, <2>3 DEF Over
  <2>5. ManyIn(n, s.pos, C)
    BY <2>4 DEF ManyIn, Over
  <2>6. s.pos \in 0..Size /\ n <= s.pos /\ p <= s.pos /\ u \in Int /\ u <= n
    BY <1>1, <2>2, <2>3
  <2>7. ManyIn(p, u, C)
    BY <1>1, <1>4, ManyWider
  <2>8. ManyIn(u, n, C)
    BY <1>4, <1>8, <2>2, <2>6, ManyOne
  <2>9. ManyIn(p, n, C)
    BY <2>2, <2>6, <2>7, <2>8, ManyJoin
  <2>10. ManyIn(p, s.pos, C)
    BY <2>2, <2>5, <2>6, <2>9, ManyJoin
  <2> QED
    BY <2>6, <2>10, StopsMany DEF s, C
<1> QED
  BY <1>6, <1>7, <1>8

LEMMA NetPathReads ==
  ASSUME Size \in Nat, EscapesClean, NEW p \in 0..Size, NEW f
  PROVE  Reads(net_path(p, f), p, RefNetPath({p}), {"?", "#"})
<1> DEFINE C == USERINFO \cup {"@"}
           D == {"?", "#"}
           n == Next1(Next1(p))
           s == server(n, f)
           a == authority(n, f)
           b == abs_path(a.pos, a.f)
           r == net_path(p, f)
           start == One(One({p}, {"/"}), {"/"})
           auth == Many(start, C)
           R == RefNetPath({p})
<1>1. R = auth \cup RefAbsPath(auth)
  BY DEF RefNetPath
<1>2. \A S : RefAbsPath(S) = Many(One(S, {"/"}), PCHAR \cup {";", "/"})
  BY DEF RefAbsPath
<1>3. r = IF Char(p) = "/" /\ Char(Next1(p)) = "/" THEN Took("net_path", p, b.pos, b.f)
          ELSE Fail(p, f)
  BY DEF net_path
<1>4. s.pos = a.pos
  BY DEF authority, Took, Ok
<1>5. n \in 0..Size => s.pos \in Many({n}, C)
  BY ServerPasses
<1>6. /\ a.pos \in 0..Size => Greedy(b, a.pos, RefAbsPath({a.pos}), D)
      /\ Char(a.pos) # "/" => b = Fail(a.pos, a.f)
      /\ Char(a.pos) = "/" => b.ok = TRUE
  BY AbsPathReads DEF abs_path, Fail, Took, Ok
<1>7. R \subseteq p + 1..Size
  <2>1. {p} \subseteq p..Size /\ p \in Nat /\ p + 1 \in Nat /\ "nul" \notin {"/"} /\ p + 2 \in Nat
    OBVIOUS
  <2>2. One({p}, {"/"}) \subseteq p + 1..Size
    BY <2>1, RuleBounds, Zenon
  <2>3. start \subseteq p + 1 + 1..Size
    BY <2>1, <2>2, RuleBounds, Zenon
  <2>4. start \subseteq p + 1..Size
    BY <2>3
  <2> HIDE DEF start
  <2>5. auth \subseteq p + 1..Size
    BY <2>1, <2>4, RuleBounds, Zenon
  <2> HIDE DEF auth
  <2>6. One(auth, {"/"}) \subseteq p + 1 + 1..Size
    BY <2>1, <2>5, RuleBounds, Zenon
  <2>7. One(auth, {"/"}) \subseteq p + 1..Size
    BY <2>6
  <2>8. RefAbsPath(auth) \subseteq p + 1..Size
    BY <1>2, <2>1, <2>7, RuleBounds
  <2> QED
    BY <1>1, <2>5, <2>8
<1> HIDE DEF C, s, a, b, r, n, R
<1>8. CASE ~(Char(p) = "/" /\ Char(Next1(p)) = "/")
  <2>1. r.ok = FALSE
    BY <1>3, <1>8 DEF Fail
  <2>2. start = {}
    <3>1. ASSUME NEW q \in start PROVE FALSE
      <4>1. Char(p) = "/" /\ Char(p + 1) = "/"
        BY <3>1 DEF One
      <4>2. Next1(p) = p + 1
        BY <4>1, CharAt
      <4> QED
        BY <1>8, <4>1, <4>2
    <3> QED
      BY <3>1
  <2>3. R = {}
    BY <1>1, <1>2, <2>2, NoStart
  <2> QED
    BY <2>1, <2>3 DEF Reads, r, R
<1>9. CASE Char(p) = "/" /\ Char(Next1(p)) = "/"
  <2>1. Next1(p) = p + 1 /\ p + 1 \in 0..Size
    BY <1>9, CharAt
  <2>2. n = p + 2 /\ p + 2 \in 0..Size
    BY <1>9, <2>1, CharAt DEF n
  <2>3. Char(p) = "/" /\ Char(p + 1) = "/"
    BY <1>9, <2>1
  <2>4. HasDoubleSlash
    <3>1. p \in 0..Len(uri) - 2
      BY <2>2 DEF Size
    <3> QED
      BY <2>3, <3>1 DEF HasDoubleSlash
  <2>5. start = {n}
    <3>1. One({p}, {"/"}) = {p + 1}
      BY <2>3 DEF One
    <3>2. One({p + 1}, {"/"}) = {p + 1 + 1}
      BY <2>3 DEF One
    <3> QED
      BY <2>2, <3>1, <3>2
  <2>6. a.pos \in auth
    BY <1>4, <1>5, <2>2, <2>5
  <2>7. a.pos \in 0..Size /\ n <= a.pos /\ ManyIn(n, a.pos, C)
    BY <2>5, <2>6, ManyStops
  <2>8. Clear(p, a.pos, D)
    <3>1. D \cap C = {} /\ "%" \notin D
      BY Delimiters, LoopClasses DEF C, IsClass
    <3>2. Clear(n, a.pos, D)
      BY <2>2, <2>7, <3>1, ManyClear
    <3>3. ASSUME NEW k \in p..a.pos - 1 PROVE Char(k) \notin D
      <4>1. k = p \/ k = p + 1 \/ k \in n..a.pos - 1
        BY <2>2, <2>7
      <4> QED
        BY <2>3, <3>2, <4>1 DEF Clear
    <3> QED
      BY <3>3 DEF Clear
  <2>9. r.ok = TRUE /\ r.pos = b.pos
    BY <1>3, <1>9 DEF Took, Ok
  <2>10. b.pos \in R /\ Clear(p, b.pos, D)
    <3>1. CASE Char(a.pos) = "/"
      <4>1. b.pos \in RefAbsPath({a.pos}) /\ Clear(a.pos, b.pos, D)
        BY <1>6, <2>7, <3>1 DEF Greedy
      <4>2. RefAbsPath({a.pos}) \subseteq a.pos + 1..Size
        BY <1>6, <2>7, <3>1 DEF Greedy
      <4>3. RefAbsPath({a.pos}) \subseteq RefAbsPath(auth)
        <5>1. One({a.pos}, {"/"}) \subseteq One(auth, {"/"})
          BY <2>6 DEF One
        <5>2. /\ RefAbsPath({a.pos}) = Many(One({a.pos}, {"/"}), PCHAR \cup {";", "/"})
              /\ RefAbsPath(auth) = Many(One(auth, {"/"}), PCHAR \cup {";", "/"})
          BY <1>2
        <5> HIDE DEF auth
        <5> QED
          BY <5>1, <5>2 DEF Many
      <4>4. b.pos \in a.pos + 1..Size
        BY <4>1, <4>2
      <4>5. Clear(p, b.pos, D)
        BY <2>7, <2>8, <4>1, <4>4 DEF Clear
      <4> QED
        BY <1>1, <4>1, <4>3, <4>5
    <3>2. CASE Char(a.pos) # "/"
      <4>1. b.pos = a.pos
        BY <1>6, <3>2 DEF Fail
      <4> QED
        BY <1>1, <2>6, <2>8, <4>1
    <3> QED
      BY <3>1, <3>2
  <2> QED
    BY <1>7, <2>4, <2>9, <2>10 DEF Reads, r, R
<1> QED
  BY <1>8, <1>9

-----------------------------------------------------------------------------
LEMMA GreedyReads ==
  ASSUME NEW r, NEW p, NEW S, NEW D, Greedy(r, p, S, D)
  PROVE  Reads(r, p, S, D)
  BY DEF Greedy, Reads

\* An alternative for what fails, of which nothing goes further than what does not.
LEMMA EitherReads ==
  ASSUME NEW p, NEW a, NEW b, NEW S, NEW T, NEW D, Reads(a, p, S, D),
         T \subseteq p + 1..Size, a.ok = FALSE => Reads(b, p, T, D),
         a.ok = TRUE /\ ~HasDoubleSlash => \A q \in T : q <= a.pos
  PROVE  Reads(IF a.ok THEN a ELSE b, p, S \cup T, D)
<1>1. CASE a.ok = TRUE
  BY <1>1 DEF Reads
<1>2. CASE a.ok = FALSE
  BY <1>2 DEF Reads
<1> QED
  BY <1>1, <1>2 DEF Reads

\* Delimiter c, if it is there, and the characters and escapes behind it.
UricEnd(e, c) == IF Char(e) = c THEN SkipEscaped(Next1(e), URIC) ELSE e
UricRule(S, c) == Maybe(S, c, RefUric)

LEMMA UricBehind ==
  ASSUME Size \in Nat, EscapesClean, NEW p \in 0..Size, NEW S, S \subseteq p..Size,
         NEW e \in S, NEW c, c # "nul", Clear(p, e, {c})
  PROVE  LET t == UricEnd(e, c)
             R == UricRule(S, c)
         IN /\ t \in R /\ R \subseteq p..Size /\ \A x \in R \ S : x > p
            /\ c # "#" /\ Clear(p, e, {"#"}) => Clear(p, t, {"#"})
            /\ Char(e) = c => t > p
            /\ (\A q \in S : q <= e) => \A q \in R : q <= t
<1> DEFINE U == Many(One(S, {c}), URIC)
           t == UricEnd(e, c)
           R == UricRule(S, c)
<1>1. R = S \cup U
  BY DEF UricRule, Maybe, RefUric
<1>b. t = IF Char(e) = c THEN SkipEscaped(Next1(e), URIC) ELSE e
  BY DEF UricEnd
<1> SUFFICES /\ t \in R /\ R \subseteq p..Size /\ \A x \in R \ S : x > p
             /\ c # "#" /\ Clear(p, e, {"#"}) => Clear(p, t, {"#"})
             /\ Char(e) = c => t > p
             /\ (\A q \in S : q <= e) => \A q \in R : q <= t
  BY Zenon
<1> HIDE DEF R, t
<1>a. ASSUME \A q \in S : q <= e
      PROVE  /\ Char(e) = c => One(S, {c}) = {e + 1}
             /\ Char(e) # c => One(S, {c}) = {}
  BY <1>a, OnlyLast
<1>2. U \subseteq p + 1..Size
  <2>1. p \in Nat /\ p + 1 \in Nat /\ "nul" \notin {c}
    OBVIOUS
  <2>2. One(S, {c}) \subseteq p + 1..Size
    BY <2>1, RuleBounds, Zenon
  <2> QED
    BY <2>1, <2>2, RuleBounds, Zenon
<1>3. R \subseteq p..Size /\ \A x \in R \ S : x > p
  <2> HIDE DEF U
  <2>1. ASSUME NEW x \in R PROVE x \in S \/ x \in U
    BY <1>1
  <2>2. \A x \in U : x \in p..Size /\ x > p
    BY <1>2
  <2> QED
    BY <2>1, <2>2
<1>4. CASE Char(e) = c
  <2> DEFINE n == e + 1
  <2>1. e \in 0..Size /\ p <= e
    OBVIOUS
  <2>2. Next1(e) = n /\ n \in 0..Size /\ n > p
    BY <1>4, <2>1, CharAt
  <2>3. t = SkipEscaped(n, URIC)
    BY <1>b, <1>4, <2>2
  <2> HIDE DEF n
  <2>4. t \in Many({n}, URIC) /\ \A q \in Many({n}, URIC) : q <= t
    BY <2>2, <2>3, SkipIsMany, LoopClasses
  <2>5. t \in 0..Size /\ n <= t /\ ManyIn(n, t, URIC)
    BY <2>4, ManyStops
  <2>6. {n} \subseteq One(S, {c})
    BY <1>4 DEF One, n
  <2>7. t \in U
    BY <2>4, <2>6, RulesGrow
  <2>8. ASSUME c # "#", Clear(p, e, {"#"}) PROVE Clear(p, t, {"#"})
    <3>1. Clear(n, t, {"#"})
      <4>1. {"#"} \cap URIC = {} /\ "%" \notin {"#"} /\ n \in Int /\ t \in Int
        BY <2>2, <2>5, Delimiters
      <4> QED
        BY <2>5, <4>1, ManyClear
    <3>2. ASSUME NEW k \in p..t - 1 PROVE Char(k) \notin {"#"}
      <4>1. k \in p..e - 1 \/ k = e \/ k \in n..t - 1
        BY <2>1, <2>5 DEF n
      <4> QED
        BY <1>4, <2>8, <3>1, <4>1 DEF Clear
    <3> QED
      BY <3>2 DEF Clear
  <2>9. ASSUME \A q \in S : q <= e, NEW q \in R PROVE q <= t
    <3>1. One(S, {c}) = {n}
      BY <1>4, <1>a, <2>9 DEF n
    <3>2. q \in S => q <= t
      <4>1. q \in S => q <= e /\ q \in Int
        BY <2>9
      <4> QED
        BY <2>1, <2>5, <4>1 DEF n
    <3> QED
      BY <1>1, <2>4, <2>9, <3>1, <3>2
  <2>10. t > p
    BY <2>1, <2>2, <2>5
  <2> QED
    BY <1>1, <1>3, <1>4, <2>7, <2>8, <2>9, <2>10
<1>5. CASE Char(e) # c
  <2>1. t = e
    BY <1>b, <1>5
  <2>2. ASSUME \A q \in S : q <= e PROVE U = {}
    <3>1. One(S, {c}) = {}
      BY <1>5, <1>a, <2>2
    <3> QED
      BY <3>1, NoStart
  <2> HIDE DEF U
  <2> QED
    BY <1>1, <1>3, <1>5, <2>1, <2>2
<1> QED
  BY <1>4, <1>5

LEMMA UricBounds ==
  ASSUME Size \in Nat, NEW p \in 0..Size, NEW S, S \subseteq p + 1..Size, NEW c, c # "nul"
  PROVE  /\ UricRule(S, c) \subseteq p + 1..Size
         /\ S = {} => UricRule(S, c) = {}
<1> DEFINE O == One(S, {c})
           U == Many(O, URIC)
<1>1. UricRule(S, c) = S \cup U
  BY DEF UricRule, Maybe, RefUric
<1>2. p + 1 \in Nat /\ p + 2 \in Nat /\ p + 1 + 1 = p + 2 /\ "nul" \notin {c}
  OBVIOUS
<1>3. O \subseteq p + 1 + 1..Size
  BY <1>2, RuleBounds, Zenon
<1>4. S = {} => U = {}
  BY NoStart
<1> HIDE DEF O
<1>5. O \subseteq p + 2..Size
  BY <1>2, <1>3
<1>6. U \subseteq p + 2..Size
  BY <1>2, <1>5, RuleBounds, Zenon
<1> HIDE DEF U
<1> QED
  BY <1>1, <1>4, <1>6

\* A query behind a path, and the position put back after a failure.
LEMMA QueryReads ==
  ASSUME Size \in Nat, EscapesClean, NEW p \in 0..Size, NEW S, NEW a,
         Reads(a, p, S, {"?", "#"})
  PROVE  LET r == Restore(Then(a, "?", query), p)
         IN /\ Reads(r, p, UricRule(S, "?"), {"#"})
            /\ r.ok = FALSE => r.pos = p
<1> DEFINE t == Then(a, "?", query)
           r == Restore(t, p)
           R == UricRule(S, "?")
           end == UricEnd(a.pos, "?")
<1>1. a.ok \in BOOLEAN /\ S \subseteq p + 1..Size
  BY DEF Reads
<1>2. t.ok = a.ok /\ t.pos = end
  BY DEF Then, query, Took, Ok, UricEnd
<1>3. r = IF t.ok THEN t ELSE Fail(p, t.f)
  BY DEF Restore
<1>4. R \subseteq p + 1..Size /\ (S = {} => R = {})
  BY <1>1, UricBounds
<1>5. ASSUME a.ok = TRUE
      PROVE  /\ end \in R /\ Clear(p, end, {"#"})
             /\ (\A q \in S : q <= a.pos) => \A q \in R : q <= end
  <2>1. a.pos \in S /\ Clear(p, a.pos, {"?"}) /\ Clear(p, a.pos, {"#"}) /\ S \subseteq p..Size
    BY <1>1, <1>5 DEF Reads, Clear
  <2>2. "?" # "nul" /\ "?" # "#"
    OBVIOUS
  <2> HIDE DEF t, r
  <2> QED
    BY <2>1, <2>2, UricBehind
<1> HIDE DEF t, r, R, end
<1>6. CASE a.ok = TRUE
  <2>1. r.ok = TRUE /\ r.pos = end
    BY <1>2, <1>3, <1>6
  <2>2. Reads(r, p, R, {"#"})
    BY <1>4, <1>5, <1>6, <2>1 DEF Reads
  <2> QED
    BY <2>1, <2>2 DEF r, R, t
<1>7. CASE a.ok = FALSE
  <2>1. r.ok = FALSE /\ r.pos = p
    BY <1>2, <1>3, <1>7 DEF Fail
  <2>2. ~HasDoubleSlash => R = {}
    BY <1>4, <1>7 DEF Reads
  <2>3. Reads(r, p, R, {"#"})
    BY <1>4, <2>1, <2>2 DEF Reads
  <2> QED
    BY <2>1, <2>3 DEF r, R, t
<1> QED
  BY <1>1, <1>6, <1>7

\* What the first character rules out.
LEMMA FirstCharacter ==
  ASSUME Size \in Nat, NEW p \in 0..Size
  PROVE  /\ Char(p) # "/" => RefNetPath({p}) = {} /\ RefAbsPath({p}) = {}
         /\ Char(p) = "/" => RefRelPath({p}) = {} /\ RefOpaque({p}) = {}
<1>1. CASE Char(p) # "/"
  <2>1. One({p}, {"/"}) = {}
    BY <1>1 DEF One
  <2> QED
    BY <1>1, <2>1, NoStart DEF RefNetPath, RefAbsPath
<1>2. CASE Char(p) = "/"
  <2>1. "/" \notin URIC_NO_SLASH
    BY Delimiters DEF URIC_NO_SLASH
  <2>2. /\ One({p}, REL_SEGMENT) = {} /\ RefEscape({p}) = {}
        /\ One({p}, URIC_NO_SLASH) = {}
    BY <1>2, <2>1, Delimiters DEF One, RefEscape
  <2> QED
    BY <1>2, <2>2, NoStart DEF RefRelPath, RefOpaque, RefAbsPath
<1> QED
  BY <1>1, <1>2

LEMMA NetOrAbsReads ==
  ASSUME Size \in Nat, EscapesClean, NEW p \in 0..Size, NEW f
  PROVE  /\ Reads(net_or_abs(p, f), p, RefNetPath({p}) \cup RefAbsPath({p}), {"?", "#"})
         /\ net_or_abs(p, f).ok = FALSE => net_or_abs(p, f) = Fail(p, f)
<1> DEFINE a == net_path(p, f)
           b == abs_path(p, f)
<1>1. Reads(a, p, RefNetPath({p}), {"?", "#"}) /\ Greedy(b, p, RefAbsPath({p}), {"?", "#"})
  BY NetPathReads, AbsPathReads
<1>2. net_or_abs(p, f) = IF a.ok THEN a ELSE abs_path(a.pos, a.f)
  BY DEF net_or_abs, OrElse
<1>3. a.ok = TRUE \/ a = Fail(p, f)
  BY DEF net_path, Took, Ok
<1>4. a = Fail(p, f) => abs_path(a.pos, a.f) = b
  BY DEF Fail
<1>5. b.ok = TRUE \/ b = Fail(p, f)
  BY DEF abs_path, Took, Ok
<1>6. a.ok = TRUE => HasDoubleSlash
  <2> SUFFICES ASSUME a.ok = TRUE PROVE HasDoubleSlash
    OBVIOUS
  <2>1. Char(p) = "/" /\ Char(Next1(p)) = "/"
    BY DEF net_path, Fail
  <2>2. Next1(p) = p + 1 /\ p + 1 \in 0..Size
    BY <2>1, CharAt
  <2>3. p + 1 < Size
    BY <2>1, <2>2, CharAt
  <2>4. p \in 0..Len(uri) - 2 /\ Char(p + 1) = "/"
    BY <2>1, <2>2, <2>3 DEF Size
  <2> QED
    BY <2>1, <2>4 DEF HasDoubleSlash
<1>7. Fail(p, f).ok = FALSE
  BY DEF Fail
<1> HIDE DEF a, b
<1>8. net_or_abs(p, f) = IF a.ok THEN a ELSE b
  BY <1>1, <1>2, <1>3, <1>4 DEF Reads
<1>9. RefAbsPath({p}) \subseteq p + 1..Size /\ Reads(b, p, RefAbsPath({p}), {"?", "#"})
  BY <1>1, GreedyReads DEF Greedy
<1>10. Reads(IF a.ok THEN a ELSE b, p, RefNetPath({p}) \cup RefAbsPath({p}), {"?", "#"})
  BY <1>1, <1>6, <1>9, EitherReads
<1> QED
  BY <1>5, <1>8, <1>10

LEMMA HierPartReads ==
  ASSUME Size \in Nat, EscapesClean, NEW p \in 0..Size, NEW f
  PROVE  /\ Reads(hier_part(p, f), p, RefHier({p}), {"#"})
         /\ hier_part(p, f).ok = FALSE => hier_part(p, f).pos = p
<1> DEFINE a == net_or_abs(p, f)
           S == RefNetPath({p}) \cup RefAbsPath({p})
<1>1. Reads(a, p, S, {"?", "#"})
  BY NetOrAbsReads
<1>2. hier_part(p, f) = Restore(Then(a, "?", query), p)
  BY DEF hier_part, net_or_abs
<1>3. RefHier({p}) = UricRule(S, "?")
  BY DEF RefHier, UricRule
<1> HIDE DEF a, S
<1> QED
  BY <1>1, <1>2, <1>3, QueryReads

LEMMA RelativeReads ==
  ASSUME Size \in Nat, EscapesClean, NEW p \in 0..Size, NEW f
  PROVE  /\ Reads(relativeURI(p, f), p, RefRelative({p}), {"#"})
         /\ relativeURI(p, f).ok = FALSE => relativeURI(p, f).pos = p
<1> DEFINE a == net_or_abs(p, f)
           b == rel_path(p, f)
           c == IF a.ok THEN a ELSE b
           D == {"?", "#"}
           S == RefNetPath({p}) \cup RefAbsPath({p})
           T == RefRelPath({p})
<1>1. Reads(a, p, S, D) /\ (a.ok = FALSE => a = Fail(p, f)) /\ a.ok \in BOOLEAN
  BY NetOrAbsReads DEF Reads
<1>2. T \subseteq p + 1..Size /\ Reads(b, p, T, D)
  BY RelPathReads, GreedyReads DEF Greedy
<1>3. relativeURI(p, f) = Restore(Then(IF a.ok THEN a ELSE rel_path(a.pos, a.f), "?", query), p)
  BY DEF relativeURI, OrElse
<1>4. RefRelative({p}) = UricRule(S \cup T, "?")
  BY DEF RefRelative, UricRule
<1>5. a = Fail(p, f) => rel_path(a.pos, a.f) = b
  BY DEF Fail
<1>6. S # {} => T = {}
  BY FirstCharacter
<1> HIDE DEF a, b, S, T
<1>7. a.ok = TRUE => S # {}
  BY <1>1 DEF Reads
<1>8. Reads(c, p, S \cup T, D)
  BY <1>1, <1>2, <1>6, <1>7, EitherReads
<1>9. relativeURI(p, f) = Restore(Then(c, "?", query), p)
  BY <1>1, <1>3, <1>5
<1> HIDE DEF c
<1> QED
  BY <1>4, <1>8, <1>9, QueryReads

\* The scheme ends at the first character that cannot stand in one.
LEMMA SchemeReads ==
  ASSUME Size \in Nat, NEW p \in 0..Size, NEW f
  PROVE  LET s == scheme(p, f)
         IN /\ s.ok = TRUE => /\ Char(p) \in LOWALPHA /\ s.pos \in p + 1..Size
                              /\ Over(p, s.pos, SCHEME)
                              /\ Char(s.pos) = ":" => One(RefScheme({p}), {":"}) = {s.pos + 1}
            /\ s.ok = FALSE \/ Char(s.pos) # ":" => One(RefScheme({p}), {":"}) = {}
<1> DEFINE s == scheme(p, f)
           e == SkipOver(Next1(p), SCHEME)
           A == One(RefScheme({p}), {":"})
<1>1. LOWALPHA \subseteq SCHEME /\ ":" \notin SCHEME /\ "nul" \notin LOWALPHA
  BY ClassesInText DEF SCHEME, ALPHANUM, LOWALPHA, DIGIT
<1>2. ASSUME NEW x \in RefScheme({p})
      PROVE  x \in p + 1..Size /\ Char(p) \in LOWALPHA /\ Over(p, x, SCHEME)
  BY <1>2 DEF RefScheme, Over, Size
<1>3. CASE Char(p) \notin LOWALPHA
  <2>1. s.ok = FALSE
    BY <1>3 DEF scheme, Fail
  <2>2. RefScheme({p}) = {}
    BY <1>2, <1>3
  <2>3. A = {}
    BY <2>2, NoStart
  <2> QED
    BY <2>1, <2>3
<1>4. CASE Char(p) \in LOWALPHA
  <2>1. Next1(p) = p + 1 /\ p + 1 \in 0..Size
    BY <1>1, <1>4, CharAt
  <2>2. /\ e \in p + 1..Size /\ Over(p + 1, e, SCHEME)
        /\ e = Size \/ Char(e) \notin SCHEME
    BY <2>1, SkipOverStops DEF Over
  <2>3. s.ok = TRUE /\ s.pos = e
    BY <1>4 DEF scheme, Took, Ok
  <2> HIDE DEF e, s
  <2>4. Over(p, e, SCHEME)
    BY <1>1, <1>4, <2>2 DEF Over
  <2>5. ASSUME NEW x \in RefScheme({p}), Char(x) = ":" PROVE x = e
    <3>1. x \in p + 1..Size /\ Over(p, x, SCHEME)
      BY <1>2, <2>5
    <3>2. CASE x < e
      <4>1. x \in p..e - 1
        BY <2>2, <3>1, <3>2
      <4> QED
        BY <1>1, <2>4, <2>5, <4>1 DEF Over
    <3>3. CASE e < x
      <4>1. e \in p..x - 1 /\ e # Size
        BY <2>2, <3>1, <3>3
      <4> QED
        BY <2>2, <3>1, <4>1 DEF Over
    <3> QED
      BY <2>2, <3>1, <3>2, <3>3
  <2>6. CASE Char(e) = ":"
    <3>1. e \in RefScheme({p})
      <4>1. e \in 1..Len(uri) /\ p < e
        BY <2>2 DEF Size
      <4> QED
        BY <1>4, <2>4, <4>1 DEF RefScheme, Over
    <3>2. e + 1 \in A
      BY <2>6, <3>1 DEF One
    <3>3. ASSUME NEW q \in A PROVE q = e + 1
      <4>1. PICK x \in RefScheme({p}) : Char(x) = ":" /\ q = x + 1
        BY DEF One
      <4> QED
        BY <2>5, <4>1
    <3>4. A = {e + 1}
      BY <3>2, <3>3
    <3> QED
      BY <1>4, <2>2, <2>3, <2>4, <2>6, <3>4 DEF s
  <2>7. CASE Char(e) # ":"
    <3>1. ASSUME NEW q \in A PROVE FALSE
      <4>1. PICK x \in RefScheme({p}) : Char(x) = ":" /\ q = x + 1
        BY DEF One
      <4> QED
        BY <2>5, <2>7, <4>1
    <3>2. A = {}
      BY <3>1
    <3> QED
      BY <1>4, <2>2, <2>3, <2>4, <2>7, <3>2 DEF s
  <2> QED
    BY <2>6, <2>7
<1> QED
  BY <1>3, <1>4

\* No relative reference goes beyond the ":" behind a scheme.
LEMMA RelativeBeforeColon ==
  ASSUME Size \in Nat, NEW p \in 0..Size, NEW e \in p + 1..Size, Char(p) \in LOWALPHA,
         Over(p, e, SCHEME), Char(e) = ":"
  PROVE  \A q \in RefRelative({p}) : q <= e
<1> DEFINE seg == Many(One({p}, REL_SEGMENT) \cup RefEscape({p}), REL_SEGMENT)
<1>1. Char(p) # "/" /\ Char(p) # "%" /\ "/" \notin SCHEME /\ "?" \notin SCHEME
  BY DEF SCHEME, ALPHANUM, LOWALPHA, DIGIT
<1>2. RefNetPath({p}) = {} /\ RefAbsPath({p}) = {}
  BY <1>1, FirstCharacter
<1>3. ASSUME NEW q \in seg PROVE q \in p + 1..e
  <2>1. RefEscape({p}) = {}
    BY <1>1 DEF RefEscape
  <2>2. One({p}, REL_SEGMENT) \subseteq {p + 1}
    BY DEF One
  <2> DEFINE T == One({p}, REL_SEGMENT) \cup RefEscape({p})
  <2>a. T \subseteq {p + 1}
    BY <2>1, <2>2
  <2>b. q \in Many(T, REL_SEGMENT)
    OBVIOUS
  <2> HIDE DEF T
  <2>3. q \in 0..Size /\ p + 1 <= q /\ ManyIn(p + 1, q, REL_SEGMENT)
    <3>1. q \in 0..Size /\ \E x \in T : x <= q /\ ManyIn(x, q, REL_SEGMENT)
      BY <2>b, ManyStops, Zenon
    <3>2. PICK x \in T : x <= q /\ ManyIn(x, q, REL_SEGMENT)
      BY <3>1
    <3>3. x = p + 1
      BY <2>a, <3>2
    <3> QED
      BY <3>1, <3>2, <3>3
  <2>4. Char(e) \notin REL_SEGMENT \cup {"%"}
    BY Delimiters
  <2>5. q <= e
    BY <2>3, <2>4, ManyEnds
  <2> QED
    BY <2>3, <2>5
<1> HIDE DEF seg
<1>4. ASSUME NEW c \in {"/", "?"} PROVE One(seg, {c}) = {}
  <2>1. ASSUME NEW q \in One(seg, {c}) PROVE FALSE
    <3>1. PICK x \in seg : Char(x) = c
      BY DEF One
    <3>2. x = e \/ x \in p..e - 1
      BY <1>3, <3>1
    <3> QED
      BY <1>1, <1>4, <3>1, <3>2 DEF Over
  <2> QED
    BY <2>1
<1>5. RefRelPath({p}) = seg
  <2>1. RefRelPath({p}) = seg \cup RefAbsPath(seg)
    BY DEF RefRelPath, seg
  <2>2. RefAbsPath(seg) = {}
    BY <1>4, NoStart DEF RefAbsPath
  <2> QED
    BY <2>1, <2>2
<1>6. RefRelative({p}) = seg
  <2>1. RefRelative({p}) = seg \cup Many(One(seg, {"?"}), URIC)
    BY <1>2, <1>5 DEF RefRelative, Maybe, RefUric
  <2> QED
    BY <1>4, <2>1, NoStart
<1> QED
  BY <1>3, <1>6

\* What stands behind the ":" of a scheme.
LEMMA RestReads ==
  ASSUME Size \in Nat, EscapesClean, NEW p \in 0..Size, NEW f
  PROVE  Reads(OrElse(hier_part, opaque_part, p, f), p, RefHier({p}) \cup RefOpaque({p}), {"#"})
<1> DEFINE a == hier_part(p, f)
           o == opaque_part(p, a.f)
           S == RefHier({p})
           T == RefOpaque({p})
<1>1. Reads(a, p, S, {"#"}) /\ (a.ok = FALSE => a.pos = p)
  BY HierPartReads
<1>2. Greedy(o, p, T, {"#"})
  BY OpaquePartReads
<1>3. OrElse(hier_part, opaque_part, p, f) = IF a.ok THEN a ELSE opaque_part(a.pos, a.f)
  BY DEF OrElse
<1>4. T # {} => S = {}
  <2>1. S = UricRule(RefNetPath({p}) \cup RefAbsPath({p}), "?")
    BY DEF RefHier, UricRule
  <2>2. UricRule({}, "?") = {}
    <3>1. {} \subseteq p + 1..Size /\ "?" # "nul"
      OBVIOUS
    <3> QED
      BY <3>1, UricBounds
  <2> HIDE DEF S
  <2> QED
    BY <2>1, <2>2, FirstCharacter
<1> HIDE DEF a, S, T
<1>5. OrElse(hier_part, opaque_part, p, f) = IF a.ok THEN a ELSE o
  BY <1>1, <1>3 DEF Reads
<1> HIDE DEF o
<1>6. T \subseteq p + 1..Size /\ Reads(o, p, T, {"#"})
  BY <1>2, GreedyReads DEF Greedy
<1>7. a.ok = TRUE => T = {}
  BY <1>1, <1>4 DEF Reads
<1>8. Reads(IF a.ok THEN a ELSE o, p, S \cup T, {"#"})
  BY <1>1, <1>6, <1>7, EitherReads
<1> QED
  BY <1>5, <1>8 DEF S, T

LEMMA AbsoluteReads ==
  ASSUME Size \in Nat, EscapesClean, NEW p \in 0..Size, NEW f
  PROVE  LET r == absoluteURI(p, f)
         IN /\ Reads(r, p, RefAbsolute({p}), {"#"})
            /\ r.ok = FALSE => r.pos = p
            /\ r.ok = TRUE => \A q \in RefRelative({p}) : q <= r.pos
<1> DEFINE s == scheme(p, f)
           n == Next1(s.pos)
           m == OrElse(hier_part, opaque_part, n, s.f)
           g == IF s.ok THEN [s.f EXCEPT !["scheme"] = Unset] ELSE s.f
           r == absoluteURI(p, f)
           after == One(RefScheme({p}), {":"})
           R == RefAbsolute({p})
<1>1. R = RefHier(after) \cup RefOpaque(after)
  BY DEF RefAbsolute
<1>2. r = IF s.ok /\ Char(s.pos) = ":" THEN Restore(m, p) ELSE Fail(p, g)
  BY DEF absoluteURI
<1>3. s.ok \in BOOLEAN
  BY DEF scheme, Took, Ok, Fail
<1>4. /\ s.ok = TRUE => /\ Char(p) \in LOWALPHA /\ s.pos \in p + 1..Size
                        /\ Over(p, s.pos, SCHEME)
                        /\ Char(s.pos) = ":" => after = {s.pos + 1}
      /\ s.ok = FALSE \/ Char(s.pos) # ":" => after = {}
  BY SchemeReads
<1>5. n \in 0..Size => Reads(m, n, RefHier({n}) \cup RefOpaque({n}), {"#"})
  <2> HIDE DEF n
  <2> QED
    BY RestReads
<1> HIDE DEF s, m, r, after, R
<1>6. CASE s.ok = TRUE /\ Char(s.pos) = ":"
  <2> DEFINE e == s.pos
  <2>1. Char(p) \in LOWALPHA /\ e \in p + 1..Size /\ Over(p, e, SCHEME) /\ after = {e + 1}
    BY <1>4, <1>6
  <2>2. n = e + 1 /\ n \in 0..Size /\ p + 1 <= n
    <3>1. e \in 0..Size /\ Char(e) # "nul"
      BY <1>6, <2>1
    <3>2. Next1(e) = e + 1 /\ e + 1 \in 0..Size
      BY <3>1, CharAt
    <3> QED
      BY <2>1, <3>2
  <2>3. Reads(m, n, R, {"#"})
    BY <1>1, <1>5, <2>1, <2>2
  <2>4. Char(e) = ":" /\ r = Restore(m, p)
    BY <1>2, <1>6
  <2>5. \A q \in RefRelative({p}) : q <= e
    BY <2>1, <2>4, RelativeBeforeColon
  <2> HIDE DEF n, e
  <2>6. R \subseteq n + 1..Size
    BY <2>3 DEF Reads
  <2>7. R \subseteq p + 1..Size
    BY <2>2, <2>6
  <2>8. m.ok \in BOOLEAN
    BY <2>3 DEF Reads
  <2>9. CASE m.ok = TRUE
    <3>1. r = m
      BY <2>4, <2>9 DEF Restore
    <3>2. m.pos \in R /\ Clear(n, m.pos, {"#"}) /\ m.pos \in n + 1..Size
      BY <2>3, <2>6, <2>9 DEF Reads
    <3>3. Clear(p, m.pos, {"#"})
      <4>1. "#" \notin SCHEME
        BY DEF SCHEME, ALPHANUM, LOWALPHA, DIGIT
      <4>2. ASSUME NEW k \in p..m.pos - 1 PROVE Char(k) # "#"
        <5>1. k \in p..e - 1 \/ k = e \/ k \in n..m.pos - 1
          BY <2>1, <2>2, <3>2 DEF e
        <5> QED
          BY <2>1, <2>4, <3>2, <4>1, <5>1 DEF Over, Clear
      <4> QED
        BY <4>2 DEF Clear
    <3>4. Reads(m, p, R, {"#"})
      BY <2>3, <2>7, <2>9, <3>2, <3>3 DEF Reads
    <3>5. \A q \in RefRelative({p}) : q <= m.pos
      <4>1. RefRelative({p}) \subseteq p + 1..Size
        BY RelativeReads DEF Reads
      <4>2. e <= m.pos /\ e \in Int /\ m.pos \in Int
        BY <2>1, <2>2, <3>2
      <4> QED
        BY <2>5, <4>1, <4>2
    <3> QED
      BY <2>9, <3>1, <3>4, <3>5 DEF r, R
  <2>10. CASE m.ok = FALSE
    <3>1. r.ok = FALSE /\ r.pos = p
      BY <2>4, <2>10 DEF Restore, Fail
    <3>2. ~HasDoubleSlash => R = {}
      BY <2>3, <2>10 DEF Reads
    <3>3. Reads(r, p, R, {"#"})
      BY <2>7, <3>1, <3>2 DEF Reads
    <3> QED
      BY <3>1, <3>3 DEF r, R
  <2> QED
    BY <2>8, <2>9, <2>10
<1>7. CASE ~(s.ok = TRUE /\ Char(s.pos) = ":")
  <2>1. r.ok = FALSE /\ r.pos = p
    BY <1>2, <1>3, <1>7 DEF Fail
  <2>2. after = {}
    BY <1>3, <1>4, <1>7
  <2>3. R = {}
    BY <1>1, <2>2, NoStart
       DEF RefHier, RefOpaque, RefNetPath, RefAbsPath, RefEscape, Maybe, RefUric
  <2>4. Reads(r, p, R, {"#"})
    BY <2>1, <2>3 DEF Reads
  <2> QED
    BY <2>1, <2>4 DEF r, R
<1> QED
  BY <1>6, <1>7

LEMMA UriReads ==
  ASSUME Size \in Nat, EscapesClean, NEW p \in 0..Size, NEW f
  PROVE  LET r == OrElse(absoluteURI, relativeURI, p, f)
         IN /\ Reads(r, p, RefAbsolute({p}) \cup RefRelative({p}), {"#"})
            /\ r.ok = FALSE => r.pos = p
<1> DEFINE a == absoluteURI(p, f)
           b == relativeURI(p, a.f)
           r == OrElse(absoluteURI, relativeURI, p, f)
           S == RefAbsolute({p})
           T == RefRelative({p})
<1>1. /\ Reads(a, p, S, {"#"}) /\ (a.ok = FALSE => a.pos = p)
      /\ a.ok = TRUE => \A q \in T : q <= a.pos
  BY AbsoluteReads
<1>2. Reads(b, p, T, {"#"}) /\ (b.ok = FALSE => b.pos = p)
  BY RelativeReads
<1>3. r = IF a.ok THEN a ELSE relativeURI(a.pos, a.f)
  BY DEF OrElse
<1> HIDE DEF a, S, T
<1>4. r = IF a.ok THEN a ELSE b
  BY <1>1, <1>3 DEF Reads
<1> HIDE DEF b, r
<1>5. T \subseteq p + 1..Size
  BY <1>2 DEF Reads
<1>6. Reads(IF a.ok THEN a ELSE b, p, S \cup T, {"#"})
  BY <1>1, <1>2, <1>5, EitherReads
<1>7. Reads(r, p, S \cup T, {"#"})
  BY <1>4, <1>6
<1>8. r.ok = FALSE => r.pos = p
  BY <1>1, <1>2, <1>4 DEF Reads
<1> QED
  BY <1>7, <1>8 DEF r, S, T

\* uriaa_check_url accepts a reference, and in a text without "//" the longest.
ReadsReference(r) ==
  EscapesClean =>
    /\ r.ok = TRUE => r.pos \in References
    /\ ~HasDoubleSlash => /\ \A q \in References : q <= r.pos
                          /\ r.ok = TRUE <=> References # {0}

LEMMA CheckUrlReads ==
  ASSUME Size \in Nat, NEW f
  PROVE  ReadsReference(uriaa_check_url(f))
<1> DEFINE b == OrElse(absoluteURI, relativeURI, 0, f)
           t == Then(b, "#", fragment)
           e == [t EXCEPT !.ok = b.ok \/ Char(b.pos) = "#"]
           c == URI_reference(0, f)
           r == uriaa_check_url(f)
           end == UricEnd(b.pos, "#")
           S == RefAbsolute({0}) \cup RefRelative({0})
           Z == S \cup {0}
           R == References
<1> SUFFICES ASSUME EscapesClean
             PROVE  /\ r.ok = TRUE => r.pos \in R
                    /\ ~HasDoubleSlash => (\A q \in R : q <= r.pos) /\ (r.ok = TRUE <=> R # {0})
  BY DEF ReadsReference
<1>0. 0 \in 0..Size
  OBVIOUS
<1>1. Reads(b, 0, S, {"#"}) /\ (b.ok = FALSE => b.pos = 0)
  BY <1>0, UriReads
<1>2. R = UricRule(Z, "#")
  BY DEF References, UricRule
<1>3. c = IF e.ok THEN e ELSE Fail(0, e.f)
  BY DEF URI_reference, Restore
<1>4. r = IF Size > 0 THEN c ELSE Fail(0, f)
  BY DEF uriaa_check_url
<1> HIDE DEF b, c, r, R
<1>5. e.ok = (b.ok \/ Char(b.pos) = "#") /\ e.pos = end
  BY DEF Then, fragment, Took, Ok, UricEnd
<1> HIDE DEF t, e, end
<1>6. b.ok \in BOOLEAN /\ S \subseteq 1..Size
  <2>1. b.ok \in BOOLEAN /\ S \subseteq 0 + 1..Size
    BY <1>1 DEF Reads
  <2> HIDE DEF S
  <2> QED
    BY <2>1
<1> HIDE DEF S
<1>7. /\ Z \subseteq 0..Size /\ b.pos \in Z /\ Clear(0, b.pos, {"#"})
      /\ ~HasDoubleSlash => \A q \in Z : q <= b.pos
  <2>1. CASE b.ok = TRUE
    <3>1. b.pos \in S /\ Clear(0, b.pos, {"#"})
      BY <1>1, <2>1 DEF Reads
    <3>2. ~HasDoubleSlash => \A q \in S : q <= b.pos
      BY <1>1 DEF Reads
    <3>3. b.pos \in 1..Size
      BY <1>6, <3>1
    <3>4. \A q \in Z : q \in S \/ q = 0
      OBVIOUS
    <3>5. ~HasDoubleSlash => \A q \in Z : q <= b.pos
      BY <3>2, <3>3, <3>4
    <3>6. Z \subseteq 0..Size
      BY <1>6, <3>4
    <3> QED
      BY <3>1, <3>5, <3>6
  <2>2. CASE b.ok = FALSE
    <3>1. b.pos = 0 /\ (~HasDoubleSlash => S = {})
      BY <1>1, <2>2 DEF Reads
    <3> QED
      BY <1>6, <3>1 DEF Clear
  <2> QED
    BY <1>6, <2>1, <2>2
<1>8. /\ end \in R /\ R \subseteq 0..Size /\ \A x \in R \ Z : x > 0
      /\ Char(b.pos) = "#" => end > 0
      /\ (\A q \in Z : q <= b.pos) => \A q \in R : q <= end
  <2>1. "#" # "nul"
    OBVIOUS
  <2> HIDE DEF Z
  <2> QED
    BY <1>0, <1>2, <1>7, <2>1, UricBehind DEF end
<1>9. Z \subseteq R
  BY <1>2 DEF UricRule, Maybe
<1>a. 0 \in R
  BY <1>9
<1>10. Size = 0 => R = {0}
  <2>1. Size = 0 => \A q \in R : q = 0
    BY <1>8
  <2> QED
    BY <1>a, <2>1
<1>11. CASE b.ok = FALSE /\ Char(b.pos) # "#"
  <2>1. c.ok = FALSE /\ c.pos = 0
    BY <1>3, <1>5, <1>11 DEF Fail
  <2>2. ~HasDoubleSlash => R = {0}
    <3>1. end = 0
      BY <1>1, <1>11 DEF end, UricEnd
    <3>2. ~HasDoubleSlash => \A q \in R : q <= 0 /\ q \in 0..Size
      BY <1>7, <1>8, <3>1
    <3>3. ~HasDoubleSlash => \A q \in R : q = 0
      BY <3>2
    <3> QED
      BY <1>a, <3>3
  <2>3. r.ok = FALSE /\ r.pos = 0
    BY <1>4, <2>1 DEF Fail
  <2> QED
    BY <2>2, <2>3
<1>12. CASE Size > 0 /\ (b.ok = TRUE \/ Char(b.pos) = "#")
  <2>1. r.ok = TRUE /\ r.pos = end
    <3>1. e.ok = TRUE
      BY <1>5, <1>6, <1>12
    <3> QED
      BY <1>3, <1>4, <1>5, <1>12, <3>1
  <2>2. R # {0}
    <3>1. CASE b.ok = TRUE
      <4>1. b.pos \in S
        BY <1>1, <3>1 DEF Reads
      <4>2. b.pos \in 1..Size
        BY <1>6, <4>1
      <4>3. b.pos \in R
        BY <1>7, <1>9
      <4> QED
        BY <4>2, <4>3
    <3>2. CASE Char(b.pos) = "#"
      BY <1>8, <3>2
    <3> QED
      BY <1>12, <3>1, <3>2
  <2> QED
    BY <1>7, <1>8, <2>1, <2>2
<1>13. CASE Size = 0
  <2>1. r.ok = FALSE /\ r.pos = 0
    BY <1>4, <1>13 DEF Fail
  <2> QED
    BY <1>10, <1>13, <2>1
<1>14. Size = 0 \/ Size > 0
  OBVIOUS
<1>15. b.ok = TRUE \/ b.ok = FALSE
  BY <1>6
<1> HIDE DEF Z
<1> QED
  BY <1>11, <1>12, <1>13, <1>14, <1>15, Zenon

-----------------------------------------------------------------------------
(* The components lie in the text, a host is one, and the components of an      *)
(* accepted text are the parts of a reference, one of the grammar's where       *)
(* EscapesClean holds; NoFields is what the parser begins with.                *)
ParserInv ==
  /\ uri \in Seq(STRING) /\ Size \in Nat /\ result.run \in BOOLEAN
  /\ ~result.run => result = NotRun
  /\ Parsed(result, 0, NoFields, Fields) /\ HostIs(result.f)
  /\ result.run /\ result.ok = TRUE =>
       SchemeIn(NoFields, result.f, 0) /\ ReferenceIn(NoFields, result.f, 0, result.pos)
  /\ result.run => ReadsReference(result)

LEMMA NoHost == HostIs(NoFields)
  BY DEF HostIs, NoFields, Unset, Fields

LEMMA ParserInvInit == Init => ParserInv
<1> SUFFICES ASSUME Init PROVE ParserInv
  OBVIOUS
<1>1. uri \in Seq(STRING) /\ Size \in Nat
  BY InputsAssumption DEF Init, Size
<1>2. result = NotRun /\ Inside(NoFields)
  BY <1>1, NoFieldsInside DEF Init
<1> QED
  <2>1. Passed(0, 0) /\ 0 \in 0..Size
    BY <1>1, PassedParts
  <2> QED
    BY <1>1, <1>2, <2>1, NoHost DEF ParserInv, NotRun, Parsed, OnlyIn

LEMMA ParserInvStep == ParserInv /\ [Parse]_vars => ParserInv'
<1> SUFFICES ASSUME ParserInv, [Parse]_vars PROVE ParserInv'
  OBVIOUS
<1>0. uri' = uri
  BY DEF Parse, vars
<1>1. \A r, f : Parsed(r, 0, f, Fields)' <=> Parsed(r, 0, f, Fields)
  BY <1>0 DEF Parsed, Inside, OnlyIn, Passed, BehindEscape, Char, Size
<1>2. \A f, g : SchemeIn(f, g, 0)' <=> SchemeIn(f, g, 0)
  BY <1>0 DEF SchemeIn, Char, IsAt, Size
<1>3. \A f, g, q : ReferenceIn(f, g, 0, q)' <=> ReferenceIn(f, g, 0, q)
  BY <1>0 DEF ReferenceIn, BeginsAt, FragmentIn, HierIn, PathIn, QueryIn, NetIn,
              ServerIn, HostedIn, Char, IsAt, Size
<1>a. \A f : HostIs(f)' <=> HostIs(f)
  BY <1>0 DEF HostIs, IsHostname, IsIPv4, HostChars, Char, Size
<1>b. \A r : ReadsReference(r)' <=> ReadsReference(r)
  <2>0. /\ \A S, C : One(S, C)' = One(S, C) /\ Many(S, C)' = Many(S, C)
        /\ \A S : RefEscape(S)' = RefEscape(S) /\ RefScheme(S)' = RefScheme(S)
    <3>1. \A k : Char(k)' = Char(k)
      BY <1>0 DEF Char, Size
    <3>2. \A S, C : One(S, C)' = One(S, C)
      BY <3>1 DEF One
    <3>3. \A S, C : Many(S, C)' = Many(S, C)
      BY <1>0, <3>1 DEF Many
    <3>4. \A S : RefEscape(S)' = RefEscape(S)
      BY <3>1 DEF RefEscape
    <3>5. \A S : RefScheme(S)' = RefScheme(S)
      BY <1>0, <3>1 DEF RefScheme
    <3> QED
      BY <3>2, <3>3, <3>4, <3>5
  <2>a. \A S : RefAbsPath(S)' = RefAbsPath(S) /\ RefUric(S)' = RefUric(S)
    BY <2>0 DEF RefAbsPath, RefUric
  <2>b. \A S : RefRelPath(S)' = RefRelPath(S)
    BY <2>0, <2>a DEF RefRelPath
  <2>c. \A S : RefNetPath(S)' = RefNetPath(S)
    BY <2>0, <2>a DEF RefNetPath
  <2>d. \A S : RefOpaque(S)' = RefOpaque(S)
    BY <2>0 DEF RefOpaque
  <2>e. \A S : RefHier(S)' = RefHier(S)
    BY <2>0, <2>a, <2>c DEF RefHier, Maybe
  <2>f. \A S : RefAbsolute(S)' = RefAbsolute(S)
    BY <2>0, <2>d, <2>e DEF RefAbsolute
  <2>g. \A S : RefRelative(S)' = RefRelative(S)
    BY <2>0, <2>a, <2>b, <2>c DEF RefRelative, Maybe
  <2>1. References' = References
    BY <2>0, <2>a, <2>f, <2>g DEF References, Maybe
  <2>2. EscapesClean' <=> EscapesClean
    BY <1>0 DEF EscapesClean, RefEscape, Char, Size
  <2>3. HasDoubleSlash' <=> HasDoubleSlash
    BY <1>0 DEF HasDoubleSlash, Char, Size
  <2> QED
    BY <2>1, <2>2, <2>3 DEF ReadsReference
<1>4. CASE UNCHANGED vars
  BY <1>0, <1>1, <1>2, <1>3, <1>a, <1>b, <1>4 DEF ParserInv, vars, Size
<1>5. CASE Parse
  <2> DEFINE a == uriaa_check_url(NoFields)
  <2>1. result' = [ok |-> a.ok, pos |-> a.pos, f |-> a.f, run |-> TRUE]
    BY <1>5 DEF Parse
  <2>2. /\ Parsed(a, 0, NoFields, Fields)
        /\ a.ok = TRUE => /\ SchemeIn(NoFields, a.f, 0)
                          /\ ReferenceIn(NoFields, a.f, 0, a.pos)
        /\ HostIs(a.f) /\ ReadsReference(a)
    BY CheckUrlParsed, CheckUrlKeepsHost, CheckUrlReads, NoFieldsInside, NoHost DEF ParserInv
  <2> HIDE DEF a
  <2>3. result'.ok = a.ok /\ result'.pos = a.pos /\ result'.f = a.f /\ result'.run = TRUE
    BY <2>1
  <2>4. Parsed(result', 0, NoFields, Fields)
    BY <2>2, <2>3 DEF Parsed
  <2>5. ReadsReference(result')
    BY <2>2, <2>3 DEF ReadsReference
  <2> QED
    BY <1>0, <1>1, <1>2, <1>3, <1>a, <1>b, <2>2, <2>3, <2>4, <2>5 DEF ParserInv, Size
<1> QED
  BY <1>4, <1>5

LEMMA ParserInvariant == Spec => []ParserInv
<1>1. ParserInv /\ [Parse]_vars => ParserInv'
  BY ParserInvStep
<1> QED
  BY <1>1, ParserInvInit, PTL DEF Spec

\* The read position stays in the text and every component inside of it.
THEOREM TypeCorrect == Spec => []TypeOK
<1>1. ParserInv => TypeOK
  <2> SUFFICES ASSUME ParserInv PROVE TypeOK
    OBVIOUS
  <2>1. Inside(result.f) /\ result.pos \in 0..Size /\ uri \in Seq(STRING)
    BY DEF ParserInv, Parsed
  <2>2. \A x \in Fields : result.f[x].len >= 0
    BY <2>1 DEF Inside
  <2> QED
    BY <2>1, <2>2 DEF TypeOK, Inside, Size
<1> QED
  BY <1>1, ParserInvariant, PTL

\* Where a component that lies between two positions begins and ends.
LEMMA EndOfField ==
  ASSUME NEW x, NEW p \in Int, NEW q \in Int, IsAt(result.f, x, p, q)
  PROVE  FieldSet(x) /\ result.f[x].at = p /\ FieldEnd(x) = q
<1>1. result.f[x] = [at |-> p, len |-> q - p, init |-> TRUE]
  BY DEF IsAt
<1>2. result.f[x].at = p /\ result.f[x].len = q - p /\ result.f[x].init = TRUE
  BY <1>1
<1> QED
  BY <1>2 DEF FieldSet, FieldEnd

\* NoFields has no component set.
LEMMA NoneSet == \A x \in Fields : NoFields[x] = Unset /\ Unset.init = FALSE
  BY DEF NoFields, Unset

\* The components of an accepted text cover it without gap or overlap.
THEOREM ComponentsCover == Spec => []ComponentsTile
<1>1. ParserInv => ComponentsTile
  <2> SUFFICES ASSUME ParserInv, Accepted PROVE ComponentsTile
    BY DEF ComponentsTile
  <2>0. /\ {"scheme", "net_path", "abs_path", "rel_path", "opaque_part"} \subseteq Fields
        /\ result.pos \in 0..Size /\ Size \in Nat
    BY DEF Fields, ParserInv, Parsed
  <2>1. SchemeIn(NoFields, result.f, 0) /\ ReferenceIn(NoFields, result.f, 0, result.pos)
    <3>1. result.ok \in BOOLEAN
      BY DEF ParserInv, Parsed
    <3>2. result.run /\ result.ok = TRUE
      BY <3>1 DEF Accepted
    <3> QED
      BY <3>2 DEF ParserInv
  <2>2. FieldSet("scheme") => Char(FieldEnd("scheme")) = ":"
    <3>1. CASE result.f["scheme"] = NoFields["scheme"] \/ result.f["scheme"] = Unset
      BY <2>0, <3>1, NoneSet DEF FieldSet
    <3>2. ASSUME NEW e \in 0..Size, IsAt(result.f, "scheme", 0, e), Char(e) = ":"
          PROVE  Char(FieldEnd("scheme")) = ":"
      BY <3>2, EndOfField
    <3> QED
      BY <2>1, <3>1, <3>2 DEF SchemeIn
  <2>3. PICK a \in 0..result.pos : \E c \in a..result.pos :
          /\ BeginsAt(result.f, 0, a) /\ FragmentIn(result.f, c, result.pos)
          /\ \/ HierIn(NoFields, result.f, a, c)
             \/ /\ a = 0 /\ c = 0 /\ Char(0) = "#"
                /\ result.f["net_path"] = NoFields["net_path"]
    BY <2>1 DEF ReferenceIn
  <2>4. PICK c \in a..result.pos :
          /\ BeginsAt(result.f, 0, a) /\ FragmentIn(result.f, c, result.pos)
          /\ \/ HierIn(NoFields, result.f, a, c)
             \/ /\ a = 0 /\ c = 0 /\ Char(0) = "#"
                /\ result.f["net_path"] = NoFields["net_path"]
    BY <2>3
  <2> DEFINE Paths == {y \in {"net_path", "abs_path", "rel_path", "opaque_part"} :
                         FieldSet(y) /\ result.f[y].at = a}
             Starts == {0} \cup {k \in {FieldEnd("scheme") + 1} : FieldSet("scheme")}
             Ends == {a} \cup {FieldEnd(x) : x \in Paths}
  <2>5. a \in Starts
    <3>1. ASSUME NEW e \in 0..Size, IsAt(result.f, "scheme", 0, e), a = e + 1
          PROVE  a \in Starts
      BY <3>1, EndOfField
    <3> QED
      BY <2>4, <3>1 DEF BeginsAt
  <2>6. \E b \in Ends : b \in 0..Size /\ QueryIn(result.f, b, c)
    <3>1. CASE HierIn(NoFields, result.f, a, c)
      <4>1. PICK b \in a..c : PathIn(NoFields, result.f, a, b) /\ QueryIn(result.f, b, c)
        BY <3>1 DEF HierIn
      <4>2. \E x \in {"net_path", "abs_path", "rel_path", "opaque_part"} :
              IsAt(result.f, x, a, b)
        BY <4>1 DEF PathIn, NetIn
      <4>3. PICK x \in {"net_path", "abs_path", "rel_path", "opaque_part"} :
              IsAt(result.f, x, a, b)
        BY <4>2
      <4>4. FieldSet(x) /\ result.f[x].at = a /\ FieldEnd(x) = b
        BY <2>0, <4>3, EndOfField
      <4>5. b \in Ends
        BY <4>4
      <4>6. b \in 0..Size
        BY <2>0, <4>1
      <4> QED
        BY <4>1, <4>5, <4>6
    <3>2. CASE a = 0 /\ c = 0 /\ Char(0) = "#"
      <4>1. QueryIn(result.f, a, c)
        BY <3>2 DEF QueryIn
      <4> QED
        BY <2>0, <3>2, <4>1
    <3> QED
      BY <2>4, <3>1, <3>2
  <2>7. PICK b \in Ends : b \in 0..Size /\ QueryIn(result.f, b, c)
    BY <2>6
  <2> DEFINE cc == IF Char(b) = "?" /\ FieldSet("query") /\ result.f["query"].at = b + 1
                   THEN FieldEnd("query") ELSE b
             dd == IF Char(cc) = "#" THEN FieldEnd("fragment") ELSE cc
  <2>8. cc = c
    <3>1. CASE Char(b) # "?" /\ c = b
      BY <3>1
    <3>2. CASE Char(b) = "?" /\ b + 1 <= c /\ IsAt(result.f, "query", b + 1, c)
      BY <2>0, <2>7, <3>2, EndOfField
    <3> QED
      BY <2>7, <3>1, <3>2 DEF QueryIn
  <2> HIDE DEF cc
  <2>9. /\ dd = result.pos
        /\ Char(cc) = "#" => FieldSet("fragment") /\ result.f["fragment"].at = cc + 1
    <3>1. CASE Char(c) # "#" /\ result.pos = c
      BY <2>8, <3>1
    <3>2. CASE Char(c) = "#" /\ IsAt(result.f, "fragment", c + 1, result.pos)
      <4>1. c + 1 \in Int /\ result.pos \in Int
        BY <2>0
      <4>2. /\ FieldSet("fragment") /\ result.f["fragment"].at = c + 1
            /\ FieldEnd("fragment") = result.pos
        BY <3>2, <4>1, EndOfField
      <4> QED
        BY <2>8, <3>2, <4>2
    <3> QED
      BY <2>4, <3>1, <3>2 DEF FragmentIn
  <2> HIDE DEF Starts, Ends, dd
  <2>10. \E x \in Starts : x = a
    BY <2>5
  <2> QED
    BY <2>2, <2>5, <2>7, <2>9 DEF ComponentsTile, Starts, Ends, cc, dd
<1> QED
  BY <1>1, ParserInvariant, PTL

\* The parts of an authority are where they should be in it.
LEMMA ServerTiles ==
  ASSUME Size \in Nat, NEW p \in 0..Size, NEW q \in p..Size, ServerIn(NoFields, result.f, p, q)
  PROVE  LET from == IF FieldSet("userinfo") THEN FieldEnd("userinfo") + 1 ELSE p
             to == IF FieldSet("port") THEN FieldEnd("port") ELSE FieldEnd("host")
         IN /\ FieldSet("userinfo") => FieldSet("host") /\ Char(FieldEnd("userinfo")) = "@"
            /\ FieldSet("port") => /\ FieldSet("host")
                                   /\ result.f["port"].at = FieldEnd("host") + 1
            /\ FieldSet("host") => result.f["host"].at = from /\ q \in {to, to + 1}
<1> DEFINE f == result.f
           from == IF FieldSet("userinfo") THEN FieldEnd("userinfo") + 1 ELSE p
           to == IF FieldSet("port") THEN FieldEnd("port") ELSE FieldEnd("host")
<1>0. {"userinfo", "host", "port"} \subseteq Fields
  BY DEF Fields
<1>1. ASSUME NEW x \in {"userinfo", "host", "port"},
             f[x] = NoFields[x] \/ f[x] = Unset
      PROVE  ~FieldSet(x)
  BY <1>0, <1>1, NoneSet DEF FieldSet
<1>2. ASSUME NEW v \in p..Size, HostedIn(NoFields, f, v, q)
      PROVE  /\ FieldSet("host") /\ f["host"].at = v /\ q \in {to, to + 1}
             /\ FieldSet("port") => f["port"].at = FieldEnd("host") + 1
  <2>1. PICK m \in v..Size :
          /\ IsAt(f, "host", v, m)
          /\ \/ f["port"] = NoFields["port"] /\ q \in {m, m + 1}
             \/ q >= m + 1 /\ IsAt(f, "port", m + 1, q)
    BY <1>2 DEF HostedIn
  <2>2. v \in Int /\ m \in Int /\ m + 1 \in Int /\ q \in Int
    OBVIOUS
  <2>3. FieldSet("host") /\ f["host"].at = v /\ FieldEnd("host") = m
    BY <2>1, <2>2, EndOfField
  <2>4. CASE f["port"] = NoFields["port"] /\ q \in {m, m + 1}
    BY <1>1, <2>3, <2>4
  <2>5. CASE IsAt(f, "port", m + 1, q)
    <3>1. FieldSet("port") /\ f["port"].at = m + 1 /\ FieldEnd("port") = q
      BY <2>2, <2>5, EndOfField
    <3> QED
      BY <2>3, <3>1
  <2> QED
    BY <2>1, <2>4, <2>5
<1>3. CASE /\ q = p /\ f["userinfo"] = Unset
           /\ f["host"] = NoFields["host"] /\ f["port"] = NoFields["port"]
  BY <1>1, <1>3
<1>4. CASE f["userinfo"] = NoFields["userinfo"] /\ HostedIn(NoFields, f, p, q)
  <2>1. ~FieldSet("userinfo") /\ p \in p..Size
    BY <1>1, <1>4
  <2> QED
    BY <1>2, <1>4, <2>1
<1>5. ASSUME NEW u \in p..q, Char(u) = "@", u + 1 <= Size, IsAt(f, "userinfo", p, u),
             HostedIn(NoFields, f, u + 1, q)
      PROVE  /\ FieldSet("userinfo") /\ from = u + 1 /\ Char(FieldEnd("userinfo")) = "@"
             /\ FieldSet("host") /\ f["host"].at = u + 1 /\ q \in {to, to + 1}
             /\ FieldSet("port") => f["port"].at = FieldEnd("host") + 1
  <2>1. u \in Int /\ p \in Int /\ u + 1 \in p..Size
    BY <1>5
  <2>2. FieldSet("userinfo") /\ FieldEnd("userinfo") = u
    BY <1>5, <2>1, EndOfField
  <2> QED
    BY <1>2, <1>5, <2>1, <2>2
<1> QED
  BY <1>3, <1>4, <1>5 DEF ServerIn

\* The authority of an accepted text lies in its net_path, its parts in it.
THEOREM AuthorityCovered == Spec => []AuthorityTiles
<1>1. ParserInv => AuthorityTiles
  <2> SUFFICES ASSUME ParserInv, Accepted, FieldSet("net_path") PROVE AuthorityTiles
    BY DEF AuthorityTiles
  <2>0. /\ "net_path" \in Fields /\ Size \in Nat /\ result.pos \in 0..Size
    BY DEF Fields, ParserInv, Parsed
  <2>1. ReferenceIn(NoFields, result.f, 0, result.pos)
    <3>1. result.ok \in BOOLEAN
      BY DEF ParserInv, Parsed
    <3>2. result.run /\ result.ok = TRUE
      BY <3>1 DEF Accepted
    <3> QED
      BY <3>2 DEF ParserInv
  <2>2. result.f["net_path"] # NoFields["net_path"]
    BY <2>0, NoneSet DEF FieldSet
  <2>3. PICK a \in 0..result.pos : \E c \in a..result.pos : HierIn(NoFields, result.f, a, c)
    BY <2>1, <2>2 DEF ReferenceIn
  <2>4. PICK c \in a..result.pos : HierIn(NoFields, result.f, a, c)
    BY <2>3
  <2>5. PICK q \in a..c : NetIn(NoFields, result.f, a, q)
    BY <2>2, <2>4 DEF HierIn, PathIn
  <2>6. PICK m \in a + 2..q :
          /\ IsAt(result.f, "authority", a + 2, m)
          /\ ServerIn(NoFields, result.f, a + 2, m)
          /\ q = m \/ IsAt(result.f, "abs_path", m, q)
    BY <2>5 DEF NetIn
  <2>7. /\ a \in Int /\ q \in Int /\ m \in Int /\ a + 2 \in Int
        /\ a + 2 \in 0..Size /\ m \in a + 2..Size
    BY <2>0
  <2>8. result.f["net_path"].at = a /\ FieldEnd("net_path") = q
    BY <2>5, <2>7, EndOfField DEF NetIn
  <2>9. result.f["authority"].at = a + 2 /\ FieldEnd("authority") = m
    BY <2>6, <2>7, EndOfField
  <2>10. \/ m = q
         \/ result.f["abs_path"].at = m /\ FieldEnd("abs_path") = q
    BY <2>6, <2>7, EndOfField
  <2>11. LET from == IF FieldSet("userinfo") THEN FieldEnd("userinfo") + 1 ELSE a + 2
             to == IF FieldSet("port") THEN FieldEnd("port") ELSE FieldEnd("host")
         IN /\ FieldSet("userinfo") => FieldSet("host") /\ Char(FieldEnd("userinfo")) = "@"
            /\ FieldSet("port") => /\ FieldSet("host")
                                   /\ result.f["port"].at = FieldEnd("host") + 1
            /\ FieldSet("host") => result.f["host"].at = from /\ m \in {to, to + 1}
    BY <2>0, <2>6, <2>7, ServerTiles
  <2> QED
    BY <2>8, <2>9, <2>10, <2>11 DEF AuthorityTiles
<1> QED
  BY <1>1, ParserInvariant, PTL

\* A host that the text goes on behind is a host name or an address, in every
\* component the parser leaves: that of an alternative given up, too.
THEOREM HostsRead == Spec => []HostsAreHosts
<1>1. ParserInv => HostsAreHosts
  BY DEF ParserInv, HostIs, HostsAreHosts, FieldSet, FieldEnd, Size
<1> QED
  BY <1>1, ParserInvariant, PTL

\* What is accepted is a reference of the grammar where each "%" begins an
\* escape with an unreserved character or nothing behind it: every function ends
\* where its rule may end, and alternatives that were given up leave no trace in
\* it.  Of any text nothing foreign is accepted but directly behind an escape.
THEOREM ReferencesAccepted == Spec => []AcceptsReferences
<1>1. ParserInv => AcceptsReferences
  <2> SUFFICES ASSUME ParserInv, Accepted
               PROVE  /\ EscapesClean => result.pos \in References
                      /\ \A k \in 0..result.pos - 1 : Char(k) \in UriChars \/ BehindEscape(k)
    BY DEF AcceptsReferences
  <2>1. result.ok \in BOOLEAN
    BY DEF ParserInv, Parsed
  <2>2. result.run /\ result.ok = TRUE
    BY <2>1 DEF Accepted
  <2>3. EscapesClean => result.pos \in References
    BY <2>2 DEF ParserInv, ReadsReference
  <2>4. Passed(0, result.pos)
    BY DEF ParserInv, Parsed
  <2> QED
    BY <2>3, <2>4 DEF Passed
<1> QED
  BY <1>1, ParserInvariant, PTL

\* A text without "//", with such escapes only, is read as far as any reference
\* reaches, and refused when only the empty one begins it: no order of alternatives and no loop of
\* the parser stops too early.
THEOREM LongestAccepted == Spec => []AcceptsLongest
<1>1. ParserInv => AcceptsLongest
  <2> SUFFICES ASSUME ParserInv, result.run, ~HasDoubleSlash, EscapesClean
               PROVE  /\ \A q \in References : q <= result.pos
                      /\ result.ok <=> References # {0}
    BY DEF AcceptsLongest
  <2>1. result.ok \in BOOLEAN
    BY DEF ParserInv, Parsed
  <2>2. result.ok <=> result.ok = TRUE
    BY <2>1
  <2>3. ReadsReference(result)
    BY DEF ParserInv
  <2> QED
    BY <2>2, <2>3 DEF ReadsReference
<1> QED
  BY <1>1, ParserInvariant, PTL
=============================================================================
