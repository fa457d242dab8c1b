--------------------------- MODULE MCHttpRequest ---------------------------
(* The requests TLC sends: request lines, up to MaxLines header lines, the *)
(* empty line and a body that looks like a header.                         *)
EXTENDS HttpRequest

CONSTANTS Methods, Targets, MaxLines

Crlf == <<"CR", "LF">>
Get == <<"g", "e", "t">>
Put == <<"p", "u", "t">>
Words == {Get, <<"p", "o", "s", "t">>, <<"g", "x">>}
Puts == {Put}
AllTargets == {<<"/">>, <<"/", "a">>, <<"/", "%", "4", "1">>,
               <<"/", "%", "4", "1", "SP", "a">>, <<"SP">>}
Plain == {<<"/">>, <<"/", "a">>}
Versions == {<<"h", "t", "t", "p", "/", "1", ".", "1">>, <<"h", "t", "t", "p", "/", "1">>}

MCGeneral == << <<"v", "i", "a">> >>
MCEntity == << <<"a", "l", "l", "o", "w">> >>
MCRequest == << <<"t", "e">>, <<"f", "r", "o", "m">> >>

Lines == {<<"v", "i", "a", ":", "1">>, <<"t", "e", ":", "1">>, <<"t", "e", ":">>,
          <<"t", "e", "a", ":", "1">>, <<"a", "l", "l", "o", "w", ":", "CR", "x">>,
          <<"x">>}
Blocks == UNION {[1..k -> Lines] : k \in 0..MaxLines}
Text(lines) ==
  LET cat[i \in 0..Len(lines)] == IF i = 0 THEN << >> ELSE cat[i - 1] \o lines[i] \o Crlf
  IN cat[Len(lines)]

Request(m, t, v, b, body) ==
  m \o <<"SP">> \o t \o <<"SP">> \o v \o Crlf \o Text(b) \o Crlf \o body

\* Every request line with few headers, and one line with every header block.
MCRequests ==
  {Request(m, t, v, b, << >>) : m \in Methods, t \in Targets, v \in Versions,
                                b \in {<< >>, << <<"t", "e", ":", "1">> >>}}
    \cup
  {Request(m, <<"/">>, <<"h", "t", "t", "p", "/", "1", ".", "1">>, b, body) :
     m \in Methods \cap {Get}, b \in Blocks,
     body \in {<< >>, <<"t", "e", ":", "2", "CR", "LF">>}}
=============================================================================
