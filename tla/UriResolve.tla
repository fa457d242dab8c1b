---------------------------- MODULE UriResolve -----------------------------
(* uriaa_resolve_uri (url/uriaa_rfc2396_resolve.h): a relative reference is *)
(* made absolute against a base, both parsed by uriaa_check_url before.     *)
(* The operators of the two loops that remove "." and ".." segments have    *)
(* the names of uriaa_remove_segment_point and uriaa_remove_segment_points, *)
(* which hold a copy of each loop for the file names of httpaa_work.h:      *)
(* modelled are the loops in uriaa_resolve_uri.                             *)
EXTENDS Integers, Sequences

CONSTANTS
  BaseTexts, RelTexts,     \* the texts of the base and of the reference
  Abandon                  \* "none", or "malloc" when an allocation may fail

ASSUME TextsAssumption == \A t \in BaseTexts \cup RelTexts : t \in Seq(STRING)

VARIABLES
  pc,          \* where the caller and uriaa_resolve_uri are
  text,        \* the text of the reference
  base_uri, relative_uri,  \* their components: [init, text]
  merged,      \* the path before the loops
  loop,        \* the loops' variables: buf (buf_size is its length), i_s, segment_s
  answer,      \* the return value, -1 before it is known
  uri          \* the text that is parsed, and the one that is composed

vars == <<pc, text, base_uri, relative_uri, merged, loop, answer, uri>>

\* The URI parser (with what is proved of it), and the components it leaves of
\* the text uri.
Grammar == INSTANCE UriGrammar_proofs
Components(f) ==
  [x \in DOMAIN f |-> [init |-> f[x].init,
                       text |-> SubSeq(uri, f[x].at + 1, f[x].at + f[x].len)]]
Nothing == [x \in Grammar!Fields |-> [init |-> FALSE, text |-> << >>]]

IsSet(u, x) == u[x].init
Slash == <<"/">>
DotDot == <<".", ".">>
\* Is word at position k of s?
Holds(s, k, word) ==
  k + Len(word) <= Len(s) /\ SubSeq(s, k + 1, k + Len(word)) = word
FromStart(s) == [buf |-> s, i_s |-> 0, segment_s |-> 0]

Init ==
  /\ pc = "base" /\ answer = -1 /\ merged = << >>
  /\ loop = FromStart(<< >>)
  /\ base_uri = Nothing /\ relative_uri = Nothing
  /\ uri \in BaseTexts /\ text \in RelTexts

\* uriaa_check_url on the base and on the reference, which are not resolved
\* when it refuses one of them.
CheckBase ==
  /\ pc = "base"
  /\ \E u \in {Grammar!uriaa_check_url(Grammar!NoFields)} :
       /\ base_uri' = Components(u.f)
       /\ pc' = IF u.ok THEN "reference" ELSE "done"
  /\ uri' = text
  /\ UNCHANGED <<text, relative_uri, merged, loop, answer>>
CheckReference ==
  /\ pc = "reference"
  /\ \E u \in {Grammar!uriaa_check_url(Grammar!NoFields)} :
       /\ relative_uri' = Components(u.f)
       /\ pc' = IF u.ok THEN "start" ELSE "done"
  /\ uri' = << >>
  /\ UNCHANGED <<text, base_uri, merged, loop, answer>>

Return(n) == answer' = n /\ pc' = "done"

-----------------------------------------------------------------------------
\* Nothing but a fragment refers to the current document, a scheme makes the
\* reference absolute: neither is resolved.
Start ==
  LET Bare == \A x \in {"net_path", "abs_path", "rel_path", "opaque_part",
                        "scheme", "authority", "query"} : ~IsSet(relative_uri, x)
      is_network_path == IsSet(relative_uri, "authority")
      is_absolute_path ==
        \/ IsSet(relative_uri, "abs_path") /\ ~IsSet(relative_uri, "rel_path")
        \/ /\ ~(IsSet(relative_uri, "abs_path") /\ ~IsSet(relative_uri, "rel_path"))
           /\ IsSet(relative_uri, "opaque_part")
           /\ Holds(relative_uri["opaque_part"].text, 0, Slash)
  IN /\ pc = "start"
     /\ \/ Bare /\ Return(2) /\ UNCHANGED relative_uri
        \/ IsSet(relative_uri, "scheme") /\ Return(3) /\ UNCHANGED relative_uri
        \/ /\ ~Bare /\ ~IsSet(relative_uri, "scheme")
           /\ relative_uri' =
                [relative_uri EXCEPT !["scheme"] = base_uri["scheme"],
                                     !["authority"] = IF @.init THEN @
                                                      ELSE base_uri["authority"]]
           /\ pc' = IF is_network_path \/ is_absolute_path THEN "direct" ELSE "merge"
           /\ UNCHANGED answer
     /\ UNCHANGED <<text, base_uri, merged, loop, uri>>

\* Up to and with the last "/" of the base's path; the whole without one.
Directory(s) ==
  IF \A k \in 1..Len(s) : s[k] # "/" THEN s
  ELSE SubSeq(s, 1, CHOOSE k \in 1..Len(s) :
                      s[k] = "/" /\ \A j \in k + 1..Len(s) : s[j] # "/")

\* The base's directory and the reference's path in a new buffer.
Merge ==
  LET dir == IF IsSet(base_uri, "abs_path") THEN Directory(base_uri["abs_path"].text) ELSE << >>
      rel == IF IsSet(relative_uri, "rel_path") THEN relative_uri["rel_path"].text ELSE << >>
  IN /\ pc = "merge"
     /\ merged' = dir \o rel
     /\ loop' = FromStart(merged')
     /\ pc' = "point"
     /\ UNCHANGED <<text, base_uri, relative_uri, answer, uri>>

\* malloc of the path or of the composed text fails.
NoMemory ==
  /\ Abandon = "malloc" /\ pc \in {"merge", "direct", "compose"}
  /\ Return(0)
  /\ UNCHANGED <<text, base_uri, relative_uri, merged, loop, uri>>

-----------------------------------------------------------------------------
\* buf without the characters from position p to position q - 1.
Cut(buf, p, q) == SubSeq(buf, 1, p) \o SubSeq(buf, q + 1, Len(buf))
At(l, k) == l.buf[k + 1]
Segment(l) == SubSeq(l.buf, l.segment_s + 1, l.i_s)
Onward(l) == [l EXCEPT !.i_s = @ + 1]

\* Mutant of uriaa_remove_segment_point: the position is not set back.
uriaa_remove_segment_point_NoReset(l) ==
  IF At(l, l.i_s) # "/" THEN Onward(l)
  ELSE IF Segment(l) = <<".">>
       THEN [l EXCEPT !.buf = Cut(@, l.segment_s, l.i_s + 1)]
       ELSE [Onward(l) EXCEPT !.segment_s = l.i_s + 1]

\* One pass of the first loop: at the end of a segment "." its two characters
\* are cut out and the position is set back.
uriaa_remove_segment_point(l) ==
  IF At(l, l.i_s) # "/" THEN Onward(l)
  ELSE IF Segment(l) = <<".">>
       THEN [l EXCEPT !.buf = Cut(@, l.segment_s, l.i_s + 1), !.i_s = l.segment_s]
       ELSE [Onward(l) EXCEPT !.segment_s = l.i_s + 1]

\* Mutant of EndPoint: a last segment "." is left.
EndPoint_Kept(l) == l.buf

\* A last segment "." becomes the terminating character.
EndPoint(l) ==
  IF SubSeq(l.buf, l.segment_s + 1, Len(l.buf)) = <<".">>
  THEN [l.buf EXCEPT ![l.segment_s + 1] = "nul"] ELSE l.buf

\* Mutant of uriaa_remove_segment_points: the scan is not set back to the start.
uriaa_remove_segment_points_NoReset(l) ==
  LET next == SubSeq(l.buf, l.i_s + 2, Len(l.buf))
  IN IF At(l, l.i_s) # "/" THEN Onward(l)
     ELSE IF Segment(l) = DotDot THEN [Onward(l) EXCEPT !.segment_s = l.i_s + 1]
     ELSE IF Holds(next, 0, DotDot)
     THEN IF Holds(next, 2, Slash)
          THEN [l EXCEPT !.buf = Cut(@, l.segment_s, l.i_s + 4)]
          ELSE IF next = DotDot
          THEN [l EXCEPT !.buf = Cut(@, l.segment_s, l.i_s + 3)]
          ELSE Onward(l)
     ELSE [Onward(l) EXCEPT !.segment_s = l.i_s + 1]

\* One pass of the second loop: "<segment>/../" and, at the end, "<segment>/.."
\* are cut out and the scan begins again; before anything else that begins with
\* ".." the start of the segment is not moved.
uriaa_remove_segment_points(l) ==
  LET next == SubSeq(l.buf, l.i_s + 2, Len(l.buf))
  IN IF At(l, l.i_s) # "/" THEN Onward(l)
     ELSE IF Segment(l) = DotDot THEN [Onward(l) EXCEPT !.segment_s = l.i_s + 1]
     ELSE IF Holds(next, 0, DotDot)
     THEN IF Holds(next, 2, Slash)
          THEN FromStart(Cut(l.buf, l.segment_s, l.i_s + 4))
          ELSE IF next = DotDot
          THEN FromStart(Cut(l.buf, l.segment_s, l.i_s + 3))
          ELSE Onward(l)
     ELSE [Onward(l) EXCEPT !.segment_s = l.i_s + 1]

\* Mutant of RemovePoint: the position stays on the "/" of a "." segment.
RemovePoint_Stays ==
  /\ pc = "point" /\ loop.i_s < Len(loop.buf)
  /\ loop' = IF At(loop, loop.i_s) = "/" /\ Segment(loop) = <<".">> THEN loop
             ELSE uriaa_remove_segment_point(loop)
  /\ UNCHANGED <<pc, text, base_uri, relative_uri, merged, answer, uri>>

RemovePoint ==
  /\ pc = "point" /\ loop.i_s < Len(loop.buf)
  /\ loop' = uriaa_remove_segment_point(loop)
  /\ UNCHANGED <<pc, text, base_uri, relative_uri, merged, answer, uri>>

PointsRemoved ==
  /\ pc = "point" /\ loop.i_s >= Len(loop.buf)
  /\ loop' = FromStart(EndPoint(loop))
  /\ pc' = "points"
  /\ UNCHANGED <<text, base_uri, relative_uri, merged, answer, uri>>

RemovePoints ==
  /\ pc = "points" /\ loop.i_s < Len(loop.buf)
  /\ loop' = uriaa_remove_segment_points(loop)
  /\ UNCHANGED <<pc, text, base_uri, relative_uri, merged, answer, uri>>

\* Does the path begin with a segment "..", behind any number of "/"?
Climbs(buf) ==
  \E k \in 0..Len(buf) :
    /\ \A j \in 1..k : buf[j] = "/"
    /\ Holds(buf, k, DotDot)
    /\ k + 2 = Len(buf) \/ buf[k + 3] = "/"

\* Such a path is an error.
Verdict ==
  /\ pc = "points" /\ loop.i_s >= Len(loop.buf)
  /\ IF Climbs(loop.buf) THEN Return(0) ELSE pc' = "compose" /\ UNCHANGED answer
  /\ UNCHANGED <<text, base_uri, relative_uri, merged, loop, uri>>

\* The path that is composed from the buffer: the buffer is marked as
\* null-terminated, so one character less is copied.
ComposedPath == SubSeq(loop.buf, 1, Len(loop.buf) - 1)

\* scheme ":" "//" authority path "?" query "#" fragment.
Part(before, x) ==
  IF IsSet(relative_uri, x) THEN before \o relative_uri[x].text ELSE << >>
Compose ==
  LET path == IF pc = "direct" THEN relative_uri["abs_path"].text ELSE ComposedPath
      scheme == IF IsSet(relative_uri, "scheme")
                THEN Append(relative_uri["scheme"].text, ":") ELSE << >>
  IN /\ pc \in {"direct", "compose"}
     /\ uri' = scheme \o Part(<<"/", "/">>, "authority") \o path
               \o Part(<<"?">>, "query") \o Part(<<"#">>, "fragment")
     /\ Return(1)
     /\ UNCHANGED <<text, base_uri, relative_uri, merged, loop>>

Loops == RemovePoint \/ PointsRemoved \/ RemovePoints \/ Verdict
Next == CheckBase \/ CheckReference \/ Start \/ Merge \/ NoMemory \/ Loops \/ Compose
Spec == Init /\ [][Next]_vars /\ WF_vars(Loops)

-----------------------------------------------------------------------------
\* The reference: RFC 2396, section 5.2, step 6, over the segments of a path.
Segments(s) ==
  LET split[k \in 0..Len(s)] ==
        IF k = 0 THEN << << >> >>
        ELSE IF s[k] = "/" THEN Append(split[k - 1], << >>)
        ELSE LET w == split[k - 1] IN [w EXCEPT ![Len(w)] = Append(@, s[k])]
  IN split[Len(s)]
CanDrop(w) == w # << >> /\ w[Len(w)] # DotDot /\ w # << << >> >>
Kept(segs) ==
  LET keep[k \in 0..Len(segs)] ==
        IF k = 0 THEN << >>
        ELSE LET w == keep[k - 1]
                 end == IF k = Len(segs) THEN << << >> >> ELSE << >>
             IN IF segs[k] = <<".">> THEN w \o end
                ELSE IF segs[k] = DotDot /\ CanDrop(w) THEN SubSeq(w, 1, Len(w) - 1) \o end
                ELSE Append(w, segs[k])
  IN keep[Len(segs)]
Joined(segs) ==
  LET join[k \in 0..Len(segs)] ==
        IF k = 0 THEN << >> ELSE IF k = 1 THEN segs[1] ELSE join[k - 1] \o Slash \o segs[k]
  IN join[Len(segs)]

\* A segment "." or ".." begins at position k of s.
PointAt(s, k) ==
  /\ k \in 0..Len(s) - 1 /\ s[k + 1] = "."
  /\ k = 0 \/ s[k] = "/"
  /\ k + 1 = Len(s) \/ s[k + 2] = "/"
PointsAt(s, k) ==
  /\ k \in 0..Len(s) - 2 /\ s[k + 1] = "." /\ s[k + 2] = "."
  /\ k = 0 \/ s[k] = "/"
  /\ k + 2 = Len(s) \/ s[k + 3] = "/"
\* No segment of s is "." or "..".
NoDots(s) == \A k \in 0..Len(s) : ~PointAt(s, k) /\ ~PointsAt(s, k)

Merged == merged # << >>
Clean == \A k \in 1..Len(Segments(merged)) :
           LET x == Segments(merged)[k] IN Holds(x, 0, DotDot) => x = DotDot
LastIsPoint == Segments(merged)[Len(Segments(merged))] = <<".">>
InTree == \A k \in 1..Len(Kept(Segments(merged))) : Kept(Segments(merged))[k] # DotDot

-----------------------------------------------------------------------------
\* The loops' indexes stay in the buffer, however much was cut out of it.
TypeOK ==
  /\ pc \in {"base", "reference", "start", "merge", "direct", "point", "points", "compose", "done"}
  /\ answer \in -1..3
  /\ 0 <= loop.segment_s /\ loop.segment_s <= loop.i_s /\ loop.i_s <= Len(loop.buf)

\* Both loops together do what RFC 2396 says: a path that stays below its
\* root, with no segment but ".." beginning with "..", is normalised and not
\* refused.  Behind it the terminating character that a last segment "." became
\* is left in the buffer.
PathIsReference ==
  pc \in {"compose", "done"} /\ Merged /\ Clean /\ InTree =>
    LET path == Joined(Kept(Segments(merged)))
    IN /\ loop.buf = IF LastIsPoint THEN Append(path, "nul") ELSE path
       /\ ~Climbs(loop.buf)

\* Clean or not: of a reference whose path is merged with the base's (an
\* absolute path is composed as it is, dots and all), what the loops leave and
\* Verdict does not refuse has no segment "." or "..", although a cut may bring
\* new ones together behind the place the scan has passed.  The path that is
\* composed from it is a character short: it may end in such a segment ("a:/"
\* and ".c" give "a:/."), but has none before its end.
LoopsLeaveNoDots ==
  pc = "compose" \/ (answer = 1 /\ Merged) =>
    /\ NoDots(loop.buf)
    /\ \A k \in 0..Len(ComposedPath) :
         /\ PointAt(ComposedPath, k) => k + 1 = Len(ComposedPath)
         /\ PointsAt(ComposedPath, k) => k + 2 = Len(ComposedPath)

\* The scans that start again after each cut come to an end.
ResolveEnds == pc = "point" ~> pc \in {"compose", "done"}
=============================================================================
