----------------------------- MODULE StringFind -----------------------------
(* stringaa_find: the search for one string in another, a state per round   *)
(* of its loop.  A mismatch in a partial match sends the search back to the *)
(* character after the one the partial match began with.                    *)
EXTENDS StringPos, Sequences

CONSTANTS
  Chars,     \* the characters of strings; the null character is not one
  Inputs     \* the pairs <<s_text, s_search>> of texts to search

ASSUME InputsAssumption == Inputs \subseteq Seq(Chars) \X Seq(Chars)

VARIABLES
  s_text, s_search,      \* the texts of the two strings
  read_pos, search_pos,       \* their read positions
  pos, is_follow,   \* start of the partial match, and whether there is one
  is_find,          \* the result
  running

findVars == <<s_text, s_search, read_pos, search_pos, pos, is_follow, is_find, running>>

FindInit ==
  /\ \E in \in Inputs : s_text = in[1] /\ s_search = in[2]
  /\ read_pos = 0 /\ search_pos = 0 /\ pos = 0
  /\ is_follow = FALSE /\ is_find = -1 /\ running = TRUE

\* The characters at the read positions are equal (there is one in s_text).
CharsEqual == read_pos < Len(s_text) /\ s_text[read_pos + 1] = s_search[search_pos + 1]

\* Mutant of Advance: the read position may pass the end of s_text.
Advance_NoStop(p) == read_pos' = p + 1 /\ running' = (p < Len(s_text))

\* stringaa_next_read_pos from position p, which ends the loop at the end.
Advance(p) ==
  /\ read_pos' = next_read_pos(p, Len(s_text))
  /\ running' = has_next(p, Len(s_text))

\* There is nothing to search for.
Empty ==
  /\ running /\ s_search = << >>
  /\ running' = FALSE
  /\ UNCHANGED <<s_text, s_search, read_pos, search_pos, pos, is_follow, is_find>>

\* The characters agree: the match is complete, or goes on.
Match ==
  /\ running /\ s_search # << >> /\ CharsEqual
  /\ pos' = IF is_follow THEN pos ELSE read_pos
  /\ is_follow' = TRUE
  /\ search_pos' = next_read_pos(search_pos, Len(s_search))
  /\ IF has_next(search_pos, Len(s_search))
     THEN Advance(read_pos) /\ UNCHANGED is_find
     ELSE is_find' = pos' /\ running' = FALSE /\ UNCHANGED read_pos
  /\ UNCHANGED <<s_text, s_search>>

\* Mutant of Mismatch: the search goes on behind the mismatch.
Mismatch_NoReturn ==
  /\ running /\ s_search # << >> /\ ~CharsEqual
  /\ is_follow' = FALSE
  /\ search_pos' = IF is_follow THEN 0 ELSE search_pos
  /\ Advance(read_pos)
  /\ UNCHANGED <<s_text, s_search, pos, is_find>>

\* Mutant of Mismatch: the search starts again where it started.
Mismatch_NoAdvance ==
  /\ running /\ s_search # << >> /\ ~CharsEqual
  /\ is_follow' = FALSE
  /\ search_pos' = IF is_follow THEN 0 ELSE search_pos
  /\ IF is_follow THEN read_pos' = pos /\ UNCHANGED running ELSE Advance(read_pos)
  /\ UNCHANGED <<s_text, s_search, pos, is_find>>

\* The characters differ: a partial match is given up.
Mismatch ==
  /\ running /\ s_search # << >> /\ ~CharsEqual
  /\ is_follow' = FALSE
  /\ search_pos' = IF is_follow THEN 0 ELSE search_pos
  /\ Advance(IF is_follow THEN pos ELSE read_pos)
  /\ UNCHANGED <<s_text, s_search, pos, is_find>>

FindNext == Empty \/ Match \/ Mismatch

\* The loop runs without waiting for anything, so it takes its next round.
FindSpec == FindInit /\ [][FindNext]_findVars /\ WF_findVars(FindNext)

-----------------------------------------------------------------------------
\* s_search is in s_text at position p.
OccursAt(p) ==
  /\ p + Len(s_search) <= Len(s_text)
  /\ \A i \in 1..Len(s_search) : s_text[p + i] = s_search[i]

\* Where the search stands: all before it has been searched.
Start == IF is_follow THEN pos ELSE read_pos

\* The positions in range; everything else the loop relies on is in FindInv.
FindTypeOK ==
  /\ <<s_text, s_search>> \in Inputs
  /\ read_pos \in Nat /\ search_pos \in Nat /\ pos \in Nat
  /\ read_pos <= Len(s_text) /\ search_pos <= Len(s_search)
  /\ is_follow \in BOOLEAN /\ running \in BOOLEAN
  /\ is_find \in Int

\* The loop invariant: the partial match that is followed is one, and no
\* occurrence begins before the place where the search stands.
FindInv ==
  /\ running => \A p \in 0..Len(s_text) :
                  OccursAt(p) /\ s_search # << >> => p >= Start
  /\ running /\ s_text # << >> => read_pos < Len(s_text)
  /\ running /\ is_follow =>
       /\ search_pos > 0 /\ search_pos < Len(s_search) /\ read_pos = pos + search_pos
       /\ \A i \in 1..search_pos : s_text[pos + i] = s_search[i]
  /\ running /\ ~is_follow => search_pos = 0
  /\ running => is_find = -1

\* "Return position of s_search in s, otherwise return -1": the position is
\* that of the first occurrence.  Nothing is found for an empty s_search.
FindsFirst ==
  ~running =>
    IF s_search # << >> /\ \E p \in 0..Len(s_text) : OccursAt(p)
    THEN /\ is_find >= 0 /\ OccursAt(is_find)
         /\ \A p \in 0..Len(s_text) : OccursAt(p) => p >= is_find
    ELSE is_find = -1

\* The search ends, although it goes back in s again and again.
Terminates == <>~running
=============================================================================
