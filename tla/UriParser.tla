----------------------------- MODULE UriParser ------------------------------
(* One call of uriaa_check_url on a cleared uriaa struct, for every text of  *)
(* Inputs, against the grammar of RFC 2396 as a reference definition.        *)
EXTENDS UriGrammar

CONSTANT Inputs      \* the texts to parse

ASSUME InputsAssumption == \A text \in Inputs : text \in Seq(STRING)

VARIABLE result      \* what the call gives; NotRun before it
vars == <<uri, result>>

NotRun == [ok |-> FALSE, pos |-> 0, f |-> NoFields, run |-> FALSE]

Init == uri \in Inputs /\ result = NotRun

Parse ==
  /\ ~result.run
  /\ LET a == uriaa_check_url(NoFields)
     IN result' = [ok |-> a.ok, pos |-> a.pos, f |-> a.f, run |-> TRUE]
  /\ UNCHANGED uri

Spec == Init /\ [][Parse]_vars

-----------------------------------------------------------------------------
\* The reference grammar.  A rule maps the positions where it may begin to the
\* positions where it may end.
One(S, C) == {p + 1 : p \in {x \in S : Char(x) \in C}}
Many(S, C) ==
  {q \in 0..Len(uri) :
     \E p \in S : p <= q /\ \A k \in p..q - 1 :
       \/ Char(k) \in C
       \/ Char(k) = "%" /\ k + 2 < q /\ Char(k + 1) \in HEX /\ Char(k + 2) \in HEX}
Maybe(S, c, Rule(_)) == S \cup Rule(One(S, {c}))

RefEscape(S) == {p + 3 : p \in {x \in S : /\ Char(x) = "%"
                                          /\ Char(x + 1) \in HEX
                                          /\ Char(x + 2) \in HEX}}
RefUric(S) == Many(S, URIC)
RefAbsPath(S) == Many(One(S, {"/"}), PCHAR \cup {";", "/"})
RefRelPath(S) ==
  LET seg == Many(One(S, REL_SEGMENT) \cup RefEscape(S), REL_SEGMENT)
  IN seg \cup RefAbsPath(seg)
\* authority = server | reg_name: an empty server, or any of their characters.
RefNetPath(S) ==
  LET auth == Many(One(One(S, {"/"}), {"/"}), USERINFO \cup {"@"})
  IN auth \cup RefAbsPath(auth)
RefOpaque(S) ==
  Many(One(S, URIC_NO_SLASH) \cup RefEscape(S), URIC)
RefHier(S) == Maybe(RefNetPath(S) \cup RefAbsPath(S), "?", RefUric)
RefScheme(S) ==
  {q \in 1..Len(uri) : \E p \in S : /\ p < q /\ Char(p) \in LOWALPHA
                                    /\ \A k \in p..q - 1 : Char(k) \in SCHEME}
RefAbsolute(S) ==
  LET after == One(RefScheme(S), {":"}) IN RefHier(after) \cup RefOpaque(after)
RefRelative(S) ==
  Maybe(RefNetPath(S) \cup RefAbsPath(S) \cup RefRelPath(S), "?", RefUric)

\* The ends of the URI references that begin with the text.
References ==
  Maybe(RefAbsolute({0}) \cup RefRelative({0}) \cup {0}, "#", RefUric)

\* Does the text hold a host name or an IPv4 address from p to q?
HostChars(p, q) == \A k \in p..q - 1 : Char(k) \in ALPHANUM \cup {"-", "."}
IsHostname(p, q) ==
  \E e \in {q} \cup {k \in {q - 1} : Char(k) = "."} :
    /\ p < e /\ HostChars(p, e)
    /\ \A k \in p..e - 1 :
         (k = p \/ k = e - 1 \/ Char(k - 1) = "." \/ Char(k + 1) = ".") =>
           Char(k) \in ALPHANUM \cup (IF p < k /\ k < e - 1 THEN {"."} ELSE {})
    /\ \A k \in p + 1..e - 1 : Char(k) = "." => Char(k - 1) # "."
    /\ \E k \in p..e - 1 : /\ Char(k) \in LOWALPHA
                           /\ k = p \/ Char(k - 1) = "."
                           /\ \A m \in k..e - 1 : Char(m) # "."
IsIPv4(p, q) ==
  \E a, b, c \in p..q - 1 :
    /\ p < a /\ a + 1 < b /\ b + 1 < c /\ c + 1 < q
    /\ \A k \in p..q - 1 : Char(k) \in (IF k \in {a, b, c} THEN {"."} ELSE DIGIT)

-----------------------------------------------------------------------------
\* The read position stays in the text and every component inside of it.
TypeOK ==
  /\ uri \in Seq(STRING)
  /\ result.pos \in 0..Len(uri)
  /\ \A x \in Fields : result.f[x].len >= 0
                       /\ result.f[x].at + result.f[x].len <= Len(uri)

FieldEnd(x) == result.f[x].at + result.f[x].len
FieldSet(x) == result.f[x].init
Accepted == result.run /\ result.ok
HasDoubleSlash == \E k \in 0..Len(uri) - 2 : Char(k) = "/" /\ Char(k + 1) = "/"

\* escaped() moves behind the escape and its callers move on by one more, so
\* what follows an escape is not looked at: in these texts it is a character
\* that may stand anywhere, and every "%" begins an escape.
EscapesClean ==
  \A k \in 0..Len(uri) - 1 :
    Char(k) = "%" => /\ RefEscape({k}) # {}
                     /\ k + 3 = Len(uri) \/ Char(k + 3) \in UNRESERVED

\* What is accepted in such a text is a URI reference of RFC 2396, be it that
\* functions gave up alternatives and others took over in the middle of it.  In
\* any text, what is accepted holds no character that no reference has, but
\* directly behind an escape ("/%41 x" is accepted), however many escapes were
\* passed before.
AcceptsReferences ==
  Accepted =>
    /\ EscapesClean => result.pos \in References
    /\ \A k \in 0..result.pos - 1 : Char(k) \in UriChars \/ BehindEscape(k)

\* A text without "//" (where server() hides reg_name) is read as far as any
\* reference reaches, and refused when none but the empty one begins it.
AcceptsLongest ==
  result.run /\ ~HasDoubleSlash /\ EscapesClean =>
    /\ \A q \in References : q <= result.pos
    /\ result.ok <=> References # {0}

\* The components that were accepted cover the accepted text without gap or
\* overlap: scheme ":" path "?" query "#" fragment; and a scheme that is set,
\* by an alternative that was given up too, has its ":".
ComponentsTile ==
  Accepted =>
    /\ FieldSet("scheme") => Char(FieldEnd("scheme")) = ":"
    /\ \E a \in {0} \cup {k \in {FieldEnd("scheme") + 1} : FieldSet("scheme")} :
       \E b \in {a} \cup {FieldEnd(x) : x \in {y \in {"net_path", "abs_path", "rel_path",
                                                "opaque_part"} :
                                         FieldSet(y) /\ result.f[y].at = a}} :
         LET c == IF Char(b) = "?" /\ FieldSet("query") /\ result.f["query"].at = b + 1
                  THEN FieldEnd("query") ELSE b
             d == IF Char(c) = "#" THEN FieldEnd("fragment") ELSE c
         IN /\ d = result.pos
            /\ Char(c) = "#" => FieldSet("fragment") /\ result.f["fragment"].at = c + 1

\* The parts of an authority are where they should be in it, and the authority
\* in its net_path.
AuthorityTiles ==
  Accepted /\ FieldSet("net_path") =>
    LET f == result.f
        from == IF FieldSet("userinfo") THEN FieldEnd("userinfo") + 1
                ELSE f["authority"].at
        to == IF FieldSet("port") THEN FieldEnd("port") ELSE FieldEnd("host")
    IN /\ f["authority"].at = f["net_path"].at + 2
       /\ \/ FieldEnd("authority") = FieldEnd("net_path")
          \/ /\ FieldEnd("authority") = f["abs_path"].at
             /\ FieldEnd("abs_path") = FieldEnd("net_path")
       /\ FieldSet("userinfo") => FieldSet("host") /\ Char(FieldEnd("userinfo")) = "@"
       /\ FieldSet("port") => FieldSet("host") /\ f["port"].at = FieldEnd("host") + 1
       /\ FieldSet("host") => /\ f["host"].at = from
                              /\ FieldEnd("authority") \in {to, to + 1}

\* A host that the text goes on behind, as it does in a request line, is a
\* host name or an IPv4 address.
HostsAreHosts ==
  FieldSet("host") /\ FieldEnd("host") < Len(uri) =>
    \/ IsHostname(result.f["host"].at, FieldEnd("host"))
    \/ IsIPv4(result.f["host"].at, FieldEnd("host"))
=============================================================================
