---------------------------- MODULE UriGrammar -----------------------------
(* The URI parser (url/uriaa_rfc2396.h): one operator per parsing function. *)
(* A function of the code moves the read position of the text and fills     *)
(* components of the uriaa struct; its operator takes the position p and    *)
(* the components f and gives the record of its return value (ok), the      *)
(* position and the components after it.  Characters are strings, a letter  *)
(* standing for its two cases.                                              *)
EXTENDS StringPos, Sequences

VARIABLE uri    \* the text that is parsed

Size == Len(uri)

\* stringaa_get_char and stringaa_next_read_pos at position p.
Char(p) == IF p < Size THEN uri[p + 1] ELSE "nul"
Next1(p) == next_read_pos(p, Size)

LOWALPHA == {"a", "b", "c", "d", "e", "f", "g", "h", "i", "j", "k", "l", "m",
             "n", "o", "p", "q", "r", "s", "t", "u", "v", "w", "x", "y", "z"}
DIGIT == {"0", "1", "2", "3", "4", "5", "6", "7", "8", "9"}
HEX == DIGIT \cup {"a", "b", "c", "d", "e", "f"}
ALPHANUM == LOWALPHA \cup DIGIT
MARK == {"-", "_", ".", "!", "~", "*", "'", "(", ")"}
UNRESERVED == ALPHANUM \cup MARK
RESERVED == {";", "/", "?", ":", "@", "&", "=", "+", "$", ","}
URIC == RESERVED \cup UNRESERVED
PCHAR == UNRESERVED \cup {":", "@", "&", "=", "+", "$", ","}
USERINFO == UNRESERVED \cup {";", ":", "&", "=", "+", "$", ","}
SCHEME == ALPHANUM \cup {"+", "-", "."}
REL_SEGMENT == UNRESERVED \cup {";", "@", "&", "=", "+", "$", ","}
URIC_NO_SLASH == UNRESERVED \cup {";", "?", ":", "@", "&", "=", "+", "$", ","}

\* The components: where in the text they begin and how long they are.
Fields == {"scheme", "authority", "userinfo", "host", "port", "net_path",
           "abs_path", "rel_path", "opaque_part", "query", "fragment"}
Unset == [at |-> 0, len |-> 0, init |-> FALSE]
NoFields == [x \in Fields |-> Unset]
\* Mutant of Set: the character at the read position is part of it.
Set_OneMore(f, name, from, to) ==
  [f EXCEPT ![name] = [at |-> from, len |-> to - from + 1, init |-> TRUE]]

Set(f, name, from, to) ==
  [f EXCEPT ![name] = [at |-> from, len |-> to - from, init |-> TRUE]]

Ok(p, f) == [ok |-> TRUE, pos |-> p, f |-> f]
Fail(p, f) == [ok |-> FALSE, pos |-> p, f |-> f]
\* The component name is what is between p and q.
Took(name, p, q, f) == Ok(q, Set(f, name, p, q))

-----------------------------------------------------------------------------
\* escaped: "%" and two hexadecimal digits.  A "%" that ends the text fails,
\* but leaves the position at the end.
escaped(p) ==
  IF Char(p) # "%" THEN [ok |-> FALSE, pos |-> p]
  ELSE IF ~has_next(p, Size) THEN [ok |-> FALSE, pos |-> Size]
  ELSE IF Char(p + 1) \in HEX /\ Char(p + 2) \in HEX
  THEN [ok |-> TRUE, pos |-> Next1(p + 2)]
  ELSE [ok |-> FALSE, pos |-> p]

\* The loop over characters of C: where it stops.
SkipOver(p, C) ==
  CHOOSE q \in p..Size : (q = Size \/ Char(q) \notin C) /\ \A k \in p..q - 1 : Char(k) \in C

\* Mutant of SkipEscaped: a class character is not stepped over at the end.
SkipEscaped_StopsEarly(p, C) ==
  LET skip[q \in 0..Size] ==
        IF Char(q) \in C /\ q + 1 < Size THEN skip[q + 1]
        ELSE LET e == escaped(q) IN IF e.ok THEN skip[Next1(e.pos)] ELSE e.pos
  IN skip[p]

\* The loop over characters of C and escapes.  escaped() has moved behind the
\* escape when the loop body moves on by one: the character after an escape
\* is stepped over without being looked at.
SkipEscaped(p, C) ==
  LET skip[q \in 0..Size] ==
        IF Char(q) \in C THEN skip[Next1(q)]
        ELSE LET e == escaped(q) IN IF e.ok THEN skip[Next1(e.pos)] ELSE e.pos
  IN skip[p]

\* One character of First or an escape, then the loop.
Leading(p, First, C) ==
  LET e == escaped(p)
  IN IF Char(p) \in First THEN [ok |-> TRUE, pos |-> SkipEscaped(Next1(p), C)]
     ELSE IF e.ok THEN [ok |-> TRUE, pos |-> SkipEscaped(Next1(e.pos), C)]
     ELSE e

\* Try P, and Q when it fails: components P has set stay set.
OrElse(P(_, _), Q(_, _), p, f) ==
  LET Retry(a) == IF a.ok THEN a ELSE Q(a.pos, a.f) IN Retry(P(p, f))

\* When character c follows the result, P parses what is behind it.
Then(r, c, P(_, _)) ==
  LET Rest(a) ==
        IF Char(a.pos) # c THEN a
        ELSE LET b == P(Next1(a.pos), a.f) IN [ok |-> a.ok, pos |-> b.pos, f |-> b.f]
  IN Rest(r)

\* A failure puts the position back to p.
Restore(r, p) == LET Back(a) == IF a.ok THEN a ELSE Fail(p, a.f) IN Back(r)

-----------------------------------------------------------------------------
scheme(p, f) ==
  IF Char(p) \in LOWALPHA THEN Took("scheme", p, SkipOver(Next1(p), SCHEME), f)
  ELSE Fail(p, f)

port(p, f) ==
  IF Char(p) \in DIGIT THEN Took("port", p, SkipOver(p, DIGIT), f) ELSE Fail(p, f)

\* Mutant of Label: the last character is not looked at.
Label_NoHyphen(p, First) ==
  LET q == SkipOver(Next1(p), ALPHANUM \cup {"-"})
  IN IF Char(p) \in First THEN [ok |-> TRUE, pos |-> q] ELSE [ok |-> FALSE, pos |-> p]

\* domainlabel and toplabel: a label that ends in "-" is only refused when a
\* character follows it.
Label(p, First) ==
  LET q == SkipOver(Next1(p), ALPHANUM \cup {"-"})
  IN IF Char(p) \in First /\ ~(q < Size /\ uri[q] = "-")
     THEN [ok |-> TRUE, pos |-> q] ELSE [ok |-> FALSE, pos |-> p]
domainlabel(p) == Label(p, ALPHANUM)
toplabel(p) == Label(p, LOWALPHA)

\* hostname: labels as long as there are any; the last one is read again as
\* the toplabel, and a "." may follow.
hostname(p) ==
  LET last[q \in 0..Size] ==
        LET l == domainlabel(q)
            next == Next1(l.pos)
        IN IF l.ok /\ Char(l.pos) = "." /\ domainlabel(next).ok THEN last[next] ELSE q
      top == toplabel(last[p])
  IN IF ~top.ok THEN [ok |-> FALSE, pos |-> p]
     ELSE [top EXCEPT !.pos = IF Char(@) = "." THEN Next1(@) ELSE @]

\* One number of an IPv4address (a digit that ends the text is not one), and
\* the "." after the first three.
Octet(a, dot) ==
  LET q == SkipOver(Next1(a.pos), DIGIT)
  IN IF a.ok /\ Char(a.pos) \in DIGIT /\ has_next(a.pos, Size) /\ (dot => Char(q) = ".")
     THEN [ok |-> TRUE, pos |-> IF dot THEN Next1(q) ELSE q]
     ELSE [ok |-> FALSE, pos |-> a.pos]
IPv4address(p) ==
  Octet(Octet(Octet(Octet([ok |-> TRUE, pos |-> p], TRUE), TRUE), TRUE), FALSE)

host(p, f) ==
  LET Name(a) == IF a.ok THEN a ELSE IPv4address(p)
      Whole(b) == IF b.ok THEN Took("host", p, b.pos, f) ELSE Fail(p, f)
  IN Whole(Name(hostname(p)))

hostport(p, f) ==
  LET Port(a) == IF a.ok THEN Then(a, ":", port) ELSE a IN Port(host(p, f))

\* The host and port, behind a userinfo if an "@" ends one.
UserAndHost(p, f) ==
  LET Behind(u) == IF Char(u) = "@" THEN hostport(Next1(u), Set(f, "userinfo", p, u))
                   ELSE hostport(p, f)
  IN Behind(SkipEscaped(p, USERINFO))

\* Mutant of server: userinfo stays when no host follows it.
server_KeepsUserinfo(p, f) ==
  LET Any(a) == IF a.ok THEN a ELSE Ok(p, a.f) IN Any(UserAndHost(p, f))

\* server returns 1 whatever it has found, so reg_name is never tried.
server(p, f) ==
  LET Any(a) == IF a.ok THEN a ELSE Ok(p, [a.f EXCEPT !["userinfo"] = Unset])
  IN Any(UserAndHost(p, f))

authority(p, f) ==
  LET Whole(a) == Took("authority", p, a.pos, a.f) IN Whole(server(p, f))

\* A segment with its params; path_segments.
segment(p) ==
  LET params[q \in 0..Size] ==
        IF Char(q) = ";" THEN params[SkipEscaped(Next1(q), PCHAR)] ELSE q
  IN params[SkipEscaped(p, PCHAR)]
path_segments(p) ==
  LET segments[q \in 0..Size] ==
        LET e == segment(q) IN IF Char(e) = "/" THEN segments[Next1(e)] ELSE e
  IN segments[p]

abs_path(p, f) ==
  IF Char(p) = "/" THEN Took("abs_path", p, path_segments(Next1(p)), f) ELSE Fail(p, f)

net_path(p, f) ==
  LET Path(a) == abs_path(a.pos, a.f)
      Whole(b) == Took("net_path", p, b.pos, b.f)
  IN IF Char(p) = "/" /\ Char(Next1(p)) = "/"
     THEN Whole(Path(authority(Next1(Next1(p)), f))) ELSE Fail(p, f)

rel_segment(p) == Leading(p, REL_SEGMENT, REL_SEGMENT)
rel_path(p, f) ==
  LET Whole(b) == Took("rel_path", p, b.pos, b.f)
      Path(a) == IF a.ok THEN Whole(abs_path(a.pos, f)) ELSE Fail(p, f)
  IN Path(rel_segment(p))

opaque_part(p, f) ==
  LET Whole(a) == IF a.ok THEN Took("opaque_part", p, a.pos, f) ELSE Fail(a.pos, f)
  IN Whole(Leading(p, URIC_NO_SLASH, URIC))

query(p, f) == Took("query", p, SkipEscaped(p, URIC), f)
fragment(p, f) == Took("fragment", p, SkipEscaped(p, URIC), f)

\* A "?" and a query are taken even when there is no path before them.
hier_part(p, f) == Restore(Then(OrElse(net_path, abs_path, p, f), "?", query), p)

net_or_abs(p, f) == OrElse(net_path, abs_path, p, f)
relativeURI(p, f) == Restore(Then(OrElse(net_or_abs, rel_path, p, f), "?", query), p)

\* Mutant of absoluteURI: the scheme of a failed absoluteURI is left set.
absoluteURI_KeepsScheme(p, f) ==
  LET s == scheme(p, f)
  IN IF s.ok /\ Char(s.pos) = ":"
     THEN Restore(OrElse(hier_part, opaque_part, Next1(s.pos), s.f), p)
     ELSE Fail(p, s.f)

\* Mutant of absoluteURI: nothing need follow the ":".
absoluteURI_EmptyRest(p, f) ==
  LET s == scheme(p, f)
  IN IF s.ok /\ Char(s.pos) = ":"
     THEN [OrElse(hier_part, opaque_part, Next1(s.pos), s.f) EXCEPT !.ok = TRUE]
     ELSE Fail(p, IF s.ok THEN [s.f EXCEPT !["scheme"] = Unset] ELSE s.f)

\* absoluteURI: the scheme is unset when no ":" follows it, but not when
\* nothing follows the ":".
absoluteURI(p, f) ==
  LET s == scheme(p, f)
  IN IF s.ok /\ Char(s.pos) = ":"
     THEN Restore(OrElse(hier_part, opaque_part, Next1(s.pos), s.f), p)
     ELSE Fail(p, IF s.ok THEN [s.f EXCEPT !["scheme"] = Unset] ELSE s.f)

\* URI_reference: a fragment alone is a reference too.
URI_reference(p, f) ==
  LET End(a) ==
        [Then(a, "#", fragment) EXCEPT !.ok = a.ok \/ Char(a.pos) = "#"]
  IN Restore(End(OrElse(absoluteURI, relativeURI, p, f)), p)

\* uriaa_check_url on a struct whose components are f.
uriaa_check_url(f) == IF Size > 0 THEN URI_reference(0, f) ELSE Fail(0, f)

-----------------------------------------------------------------------------
\* The characters of a URI reference, with the one that begins an escape.
UriChars == URIC \cup {"%", "#"}
\* Is the character at p directly behind an escape?
BehindEscape(p) ==
  p >= 3 /\ Char(p - 3) = "%" /\ Char(p - 2) \in HEX /\ Char(p - 1) \in HEX
=============================================================================
