---------------------------- MODULE HttpRequest -----------------------------
(* The HTTP request parser (http/httpaa.h): a request arrives in pieces, and *)
(* each time workeraa_http calls httpaa_parse_request_headers, which starts  *)
(* again at the first byte.  What an attempt has filled in stays in the      *)
(* httpaa struct when the attempt fails.  A letter stands for its two cases: *)
(* the parser compares methods and header names without regard to case.      *)
EXTENDS StringPos, Sequences

CONSTANTS
  Requests,         \* the texts clients send
  general_header_array, request_header_array, entity_header_array

VARIABLES
  request,    \* the text of this connection
  received,   \* how much of it has arrived: the write position
  pc,         \* "idle", "check", "line", "uri", "headers", "done": where the parser is
  read_pos,
  http,       \* the httpaa struct
  uri         \* the text of its request_uri: a link to a part of the request

vars == <<request, received, pc, read_pos, http, uri>>

http11_method_array ==
  << <<"o", "p", "t", "i", "o", "n", "s">>, <<"g", "e", "t">>,
     <<"h", "e", "a", "d">>, <<"p", "o", "s", "t">>, <<"p", "u", "t">>,
     <<"d", "e", "l", "e", "t", "e">>, <<"t", "r", "a", "c", "e">>,
     <<"c", "o", "n", "n", "e", "c", "t">> >>

\* The parser of the request's target (with what is proved of it).
Uri == INSTANCE UriGrammar_proofs

Digits == {"0", "1", "2", "3", "4", "5", "6", "7", "8", "9"}
DigitValue == [c \in Digits |-> CHOOSE v \in 0..9 :
                 c = <<"0", "1", "2", "3", "4", "5", "6", "7", "8", "9">>[v + 1]]

\* Where the headers are in http.request.header.
general_start == 0
entity_start == Len(general_header_array)
request_start == Len(general_header_array) + Len(entity_header_array)
Slots == 1..request_start + Len(request_header_array)
AllNames == general_header_array \o entity_header_array \o request_header_array

\* What is sent are texts; a name is in one table only, once, and is a token.
ASSUME RequestsAssumption == \A t \in Requests : t \in Seq(STRING)
ASSUME NamesAssumption ==
  /\ \A t \in {general_header_array, request_header_array, entity_header_array} :
       t \in Seq(Seq(STRING))
  /\ \A i, j \in Slots : AllNames[i] = AllNames[j] => i = j
  /\ \A i \in Slots : \A k \in 1..Len(AllNames[i]) :
       AllNames[i][k] \notin {":", "CR", "LF", "nul"}

NoHeader == [at |-> 0, len |-> 0]
\* method is an index of http11_method_array, which begins at 0 in the code.
Cleared ==
  [method |-> 0, target |-> NoHeader, fields |-> Uri!NoFields,
   major |-> 0, minor |-> 0, header |-> [i \in Slots |-> NoHeader]]

-----------------------------------------------------------------------------
\* Positions and matching; a result is a position, or -1 for failure.
Char(p) == IF p < received THEN request[p + 1] ELSE "nul"
Next1(p) == next_read_pos(p, received)
No == -1

\* Mutant of http11_crlf: the LF is taken for granted.
http11_crlf_NoLf(p) == IF Char(p) = "CR" THEN p + 2 ELSE No

\* http11_crlf at p.
http11_crlf(p) ==
  IF Char(p) = "CR" /\ Char(Next1(p)) = "LF" THEN Next1(Next1(p)) ELSE No

\* http11_find_crlf: the first CR from p on that an LF follows.
LineEndAt(q) == Char(q) = "CR" /\ Char(q + 1) = "LF"
http11_find_crlf(p) ==
  IF \E q \in p..received : LineEndAt(q)
  THEN CHOOSE q \in p..received : LineEndAt(q) /\ \A k \in p..q - 1 : ~LineEndAt(k)
  ELSE No

\* How many characters of word are at p, one after the other.
Matched(p, word) ==
  CHOOSE k \in 0..Len(word) :
    /\ \A i \in 1..k : Char(p + i - 1) = word[i]
    /\ k < Len(word) => Char(p + k) # word[k + 1]

\* Behind the digits from p on.
SkipDigits(p) ==
  CHOOSE q \in p..received : Char(q) \notin Digits /\ \A k \in p..q - 1 : Char(k) \in Digits

\* atoi of the digits from p to q.
atoi(p, q) ==
  LET value[from \in 0..received, to \in 0..received] ==
        IF from >= to THEN 0
        ELSE 10 * value[from, to - 1] + DigitValue[Char(to - 1)]
  IN value[p, q]

\* http11_http_version: "HTTP/", digits, ".", digits.
http11_http_version(p) ==
  LET word  == <<"h", "t", "t", "p", "/">>
      major == p + Matched(p, word)
      dot   == SkipDigits(major)
      minor == Next1(dot)
      end   == SkipDigits(minor)
  IN IF Matched(p, word) = Len(word) /\ dot > major /\ Char(dot) = "." /\ end > minor
     THEN [pos |-> end, major |-> atoi(major, dot), minor |-> atoi(minor, end)]
     ELSE [pos |-> No, major |-> 0, minor |-> 0]

\* http11_method: the methods of the array are tried in turn; the characters
\* that one of them has matched are not given back before the next is tried.
http11_method(p) ==
  LET try[i \in 0..Len(http11_method_array)] == [q \in 0..received |->
        IF i = Len(http11_method_array) THEN [i |-> 0, pos |-> p]
        ELSE LET k == Matched(q, http11_method_array[i + 1])
             IN IF k = Len(http11_method_array[i + 1]) THEN [i |-> i + 1, pos |-> q + k]
                ELSE try[i + 1][q + k]]
  IN try[0][p]

\* Mutant of Lookup: the ":" behind the name is not looked for.
Lookup_NoColon(array, p) ==
  LET named == {i \in 1..Len(array) : Matched(p, array[i]) = Len(array[i])}
  IN IF named = {} THEN 0 ELSE CHOOSE i \in named : \A k \in named : i <= k

\* The header of array whose name and ":" are at p, 0 when none is: here the
\* position is put back before the next name is tried.
Lookup(array, p) ==
  LET named == {i \in 1..Len(array) : /\ Matched(p, array[i]) = Len(array[i])
                                      /\ Char(p + Len(array[i])) = ":"}
  IN IF named = {} THEN 0 ELSE CHOOSE i \in named : \A k \in named : i <= k

\* The slot of the table that begins behind start which the line at p fills (0:
\* none), and where the ":" is.
Filled(start, array, p) ==
  LET i == Lookup(array, p)
  IN IF i > 0 THEN [slot |-> start + i, at |-> p + Len(array[i])]
     ELSE [slot |-> 0, at |-> p]
http11_general_header(p) == Filled(general_start, general_header_array, p)
http11_request_header(p) == Filled(request_start, request_header_array, p)
http11_entity_header(p) == Filled(entity_start, entity_header_array, p)

\* http11_request asks the three tables in this order.
HeaderLine(p) ==
  LET g == http11_general_header(p)
      r == http11_request_header(p)
  IN IF g.slot > 0 THEN g ELSE IF r.slot > 0 THEN r ELSE http11_entity_header(p)

-----------------------------------------------------------------------------
Init ==
  /\ request \in Requests
  /\ received = 0 /\ pc = "idle" /\ read_pos = 0
  /\ http = Cleared /\ uri = << >>

\* The attempt is over: httpaa_parse_request_headers puts read_pos back.
GiveUp == pc' = "idle" /\ read_pos' = 0

\* Another piece arrives, and workeraa_http_header calls the parser.
Receive ==
  /\ pc = "idle"
  /\ \E m \in received + 1..Len(request) : received' = m
  /\ pc' = "check"
  /\ UNCHANGED <<request, read_pos, http, uri>>

\* Mutant of Check: stringaa_begin_read_pos is missing.
Check_NoRewind ==
  LET first == http11_find_crlf(read_pos)
      again == IF first = No THEN No ELSE http11_find_crlf(http11_crlf(first))
  IN /\ pc = "check"
     /\ IF again = No THEN GiveUp ELSE pc' = "line" /\ read_pos' = again
     /\ UNCHANGED <<request, received, http, uri>>

\* httpaa_parse_request_headers: two line ends start an attempt.
Check ==
  LET first == http11_find_crlf(read_pos)
      again == IF first = No THEN No ELSE http11_find_crlf(http11_crlf(first))
  IN /\ pc = "check"
     /\ IF again = No THEN GiveUp ELSE pc' = "line" /\ read_pos' = 0
     /\ UNCHANGED <<request, received, http, uri>>

\* http11_request_line up to the target: the method is stored before the
\* space is looked for, and http11_request_uri links the rest of the text.
RequestLine ==
  LET m == http11_method(read_pos)
      target == Next1(m.pos)
  IN /\ pc = "line"
     /\ http' = [http EXCEPT !.method = IF m.i = 0 THEN @ ELSE m.i - 1,
                             !.target = IF m.i = 0 \/ Char(m.pos) # "SP" THEN @
                                        ELSE [at |-> target, len |-> received - target]]
     /\ IF m.i = 0 \/ Char(m.pos) # "SP" THEN GiveUp /\ UNCHANGED uri
        ELSE /\ pc' = "uri" /\ read_pos' = target
             /\ uri' = SubSeq(request, target + 1, received)
     /\ UNCHANGED <<request, received>>

\* The rest of http11_request_line.  The components are parsed over those of
\* an earlier attempt, and every part is stored before the next is parsed.
RequestUri ==
  /\ pc = "uri"
  /\ \E u \in {Uri!uriaa_check_url(http.fields)} :
     \E v \in {http11_http_version(Next1(read_pos + u.pos))} :
       LET with_target == IF u.ok THEN [http EXCEPT !.fields = u.f, !.target.len = u.pos]
                          ELSE [http EXCEPT !.fields = u.f]
       IN IF ~u.ok \/ Char(read_pos + u.pos) # "SP" \/ v.pos = No
          THEN GiveUp /\ http' = with_target
          ELSE /\ http' = [with_target EXCEPT !.major = v.major, !.minor = v.minor]
               /\ IF http11_crlf(v.pos) = No THEN GiveUp
                  ELSE pc' = "headers" /\ read_pos' = http11_crlf(v.pos)
  /\ uri' = SubSeq(uri, 1, http'.target.len)
  /\ UNCHANGED <<request, received>>

\* A line with a known header: its value is from the ":" to the line end, and
\* to the end of the text when there is none, which ends the attempt.
KnownHeader ==
  /\ pc = "headers"
  /\ \E h \in {HeaderLine(read_pos)} : \E end \in {http11_find_crlf(h.at)} :
       LET to == IF end = No THEN received ELSE end
       IN /\ h.slot > 0
          /\ http' = [http EXCEPT !.header[h.slot] = [at |-> h.at, len |-> to - h.at]]
          /\ IF end = No THEN GiveUp ELSE read_pos' = http11_crlf(end) /\ UNCHANGED pc
  /\ UNCHANGED <<request, received, uri>>

\* The empty line: the headers are complete (http11_message_body does nothing).
EmptyLine ==
  /\ pc = "headers" /\ HeaderLine(read_pos).slot = 0
  /\ http11_crlf(read_pos) # No
  /\ pc' = "done" /\ read_pos' = http11_crlf(read_pos)
  /\ UNCHANGED <<request, received, http, uri>>

\* Mutant of UnknownHeader: back to the start of the line.
UnknownHeader_Stays ==
  /\ pc = "headers" /\ HeaderLine(read_pos).slot = 0 /\ http11_crlf(read_pos) = No
  /\ \E end \in {http11_find_crlf(read_pos)} :
       IF end = No THEN GiveUp ELSE UNCHANGED <<read_pos, pc>>
  /\ UNCHANGED <<request, received, http, uri>>

\* Any other line is passed over, if it is complete.
UnknownHeader ==
  /\ pc = "headers" /\ HeaderLine(read_pos).slot = 0 /\ http11_crlf(read_pos) = No
  /\ \E end \in {http11_find_crlf(read_pos)} :
       IF end = No THEN GiveUp ELSE read_pos' = http11_crlf(end) /\ UNCHANGED pc
  /\ UNCHANGED <<request, received, http, uri>>

LineSteps == Check \/ RequestLine \/ KnownHeader \/ EmptyLine \/ UnknownHeader
Next == Receive \/ LineSteps \/ RequestUri

\* A client may stop sending; the parser runs to its end without waiting.  The
\* target's part of it is possible whenever pc = "uri", and leaves there: it is
\* named by that, which spares TLC the grammar when it asks what is enabled.
UriReturns == pc = "uri" /\ pc' \in {"idle", "headers"}
Spec == Init /\ [][Next]_vars /\ WF_vars(LineSteps) /\ WF_pc(UriReturns)
-----------------------------------------------------------------------------
\* What a client has written, read off the whole text without a parser: the
\* lines from the second to the empty one, by their first positions.
IsCrlf(q) == q + 1 < Len(request) /\ request[q + 1] = "CR" /\ request[q + 2] = "LF"
LineStarts == {0} \cup {q + 2 : q \in {x \in 0..Len(request) : IsCrlf(x)}}
BlankLines == {q \in LineStarts \ {0} : IsCrlf(q)}
Blank == CHOOSE q \in BlankLines : \A k \in BlankLines : q <= k
LineEnd(p) == CHOOSE q \in p..Len(request) : IsCrlf(q) /\ \A k \in p..q - 1 : ~IsCrlf(k)
Holds(p, word) ==
  p + Len(word) <= Len(request) /\ SubSeq(request, p + 1, p + Len(word)) = word
LinesOf(i) ==
  {p \in LineStarts \ {0} : p < Blank /\ Holds(p, Append(AllNames[i], ":"))}
Value(i) ==
  IF LinesOf(i) = {} THEN NoHeader
  ELSE LET p == CHOOSE q \in LinesOf(i) : \A k \in LinesOf(i) : k <= q
           colon == p + Len(AllNames[i])
       IN [at |-> colon, len |-> LineEnd(p) - colon]
Spaces == {p \in 0..Len(request) - 1 : request[p + 1] = "SP"}

\* A request of the form the parser is for: a method, a target, "HTTP/1.1"
\* and an empty line somewhere.  An escape in the target is left out: the
\* character behind it is lost (see UriParser).
Proper(methods) ==
  \E i \in methods, space \in Spaces :
    LET word == http11_method_array[i] \o <<"SP", "/">>
    IN /\ Holds(0, word)
       /\ \A x \in Len(word) + 1..space : request[x] \in Uri!PCHAR \cup {"/"}
       /\ Len(word) <= space
       /\ Holds(space, <<"SP", "h", "t", "t", "p", "/", "1", ".", "1", "CR", "LF">>)
       /\ BlankLines # {}

\* Positions stay in what has arrived, also when a line end is cut in two; so
\* do headers and components that an attempt on an earlier piece has left.
TypeOK ==
  /\ received \in 0..Len(request) /\ read_pos \in 0..received
  /\ pc \in {"idle", "check", "line", "uri", "headers", "done"}
  /\ \A i \in Slots : http.header[i].len >= 0
                      /\ http.header[i].at + http.header[i].len <= received
  /\ \A x \in Uri!Fields :
       http.fields[x].len >= 0
         /\ http.target.at + http.fields[x].at + http.fields[x].len <= received

\* Is the character at position p behind an escape that begins at from or later?
BehindEscape(from, p) ==
  /\ p - 3 >= from /\ request[p - 2] = "%"
  /\ request[p - 1] \in Uri!HEX /\ request[p] \in Uri!HEX

\* However the request was cut into pieces, and whatever the attempts on
\* incomplete text have left in the struct, a parsed request has the target
\* between the spaces of its first line (the character behind an escape, which
\* nobody looks at, may be a space too), for each header the value of its
\* last line (none for a header without a line), and the read position is
\* behind the first empty line.
RightRequest ==
  pc = "done" =>
    /\ http.target.at - 1 \in Spaces /\ http.target.at + http.target.len \in Spaces
    /\ \A p \in Spaces \cap (http.target.at..http.target.at + http.target.len - 1) :
         BehindEscape(http.target.at, p)
    /\ \A i \in Slots : http.header[i] = Value(i)
    /\ BlankLines # {} /\ read_pos = Blank + 2

\* No call of httpaa_parse_request_headers runs for ever.
ParserStops == pc \in {"check", "line", "uri", "headers"} ~> pc \in {"idle", "done"}

\* A proper request that has arrived is parsed, be it in one piece or after
\* failed attempts on its beginning.  PUT is left out.
ParsesProper ==
  received = Len(request) /\ Proper({1, 2, 3, 4, 6, 7, 8}) ~> pc = "done"

\* "The HTTP library can parse HTTP/1.1 request": with any method of its array.
ParsesEveryMethod == received = Len(request) /\ Proper(1..8) ~> pc = "done"
=============================================================================
