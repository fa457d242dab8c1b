----------------------------- MODULE UriEscape ------------------------------
(* uriaa_escape and uriaa_unescape (url/uriaa_utils.h): one call on a text  *)
(* of bytes, into a string that has no buffer yet.  A step reads one        *)
(* character, or one escape.                                                *)
EXTENDS StringPos, Sequences, FiniteSets

CONSTANT Texts           \* the texts, sequences of bytes

ASSUME TextsAssumption == Texts \subseteq Seq(0..255) \ {<< >>}

VARIABLES
  op, flag,      \* the function, and whether its flag is given:
                 \* URIAA_ESCAPE_RESERVED or URIAA_ESCAPE_UNRESERVED
  text, read_pos,
  out, size,     \* the characters written, and the size of the buffer
  result, pc     \* is_unescape or is_escape; "loop" or "done"

vars == <<op, flag, text, read_pos, out, size, result, pc>>

Percent == 37
Alphanum(c) == c \in 48..57 \cup 65..90 \cup 97..122
Mark(c) == c \in {45, 95, 46, 33, 126, 42, 39, 40, 41}           \* -_.!~*'()
Unreserved(c) == Alphanum(c) \/ Mark(c)
Reserved(c) == c \in {59, 47, 63, 58, 64, 38, 61, 43, 36, 44}    \* ;/?:@&=+$,
\* Control characters, space, <>#%" and {}|\^[]`.
Excluded(c) ==
  c \in 0..32 \cup {127} \/ c \in {60, 62, 35, 37, 34, 123, 125, 124, 92, 94, 91, 93, 96}

\* Mutant of uriaa_escape_char: the letters are not moved up.
uriaa_escape_char_NoLetters(c) ==
  LET digit(v) == v + 48 IN <<digit(c \div 16), digit(c % 16)>>

\* uriaa_escape_char: the two hexadecimal digits, the high one first.
uriaa_escape_char(c) ==
  LET digit(v) == IF v + 48 > 57 THEN v + 55 ELSE v + 48
  IN <<digit(c \div 16), digit(c % 16)>>

\* uriaa_unescape_char: what a digit stands for, -1 for none.  The characters
\* between "9" and "A" are taken for digits too.
HexValue(c) ==
  LET upper  == IF c \in 97..102 THEN c - 32 ELSE c
      packed == IF upper \in 65..70 THEN upper - 7 ELSE upper
  IN IF packed \in 48..63 THEN packed - 48 ELSE -1
uriaa_unescape_char(high, low) ==
  IF HexValue(high) >= 0 /\ HexValue(low) >= 0
  THEN 16 * HexValue(high) + HexValue(low) ELSE -1

\* Mutant of Put: the place of the terminating character is written too.
Put_NoNul(o, s) == SubSeq(o \o s, 1, IF Len(o) + Len(s) <= size THEN Len(o) + Len(s) ELSE size)

\* stringaa_set_char and stringaa_next_write_pos for the characters of s in
\* turn: the buffer is null-terminated, so its last place is never written.
Put(o, s) == SubSeq(o \o s, 1, IF Len(o) + Len(s) < size THEN Len(o) + Len(s) ELSE size - 1)

Char(p) == IF p < Len(text) THEN text[p + 1] ELSE 0

Init ==
  /\ text \in Texts /\ op \in {"escape", "unescape"} /\ flag \in BOOLEAN
  /\ size = IF op = "escape" THEN 3 * Len(text) ELSE Len(text)
  /\ read_pos = 0 /\ out = << >> /\ result = 0 /\ pc = "loop"

\* stringaa_next_read_pos from p: the loop ends with the text.
Advance(p) ==
  /\ read_pos' = next_read_pos(p, Len(text))
  /\ pc' = IF has_next(p, Len(text)) THEN "loop" ELSE "done"

\* The characters uriaa_escape replaces.
MustEscape(c) == Excluded(c) \/ (flag /\ Reserved(c))

\* One pass of uriaa_escape.
Escape ==
  LET c == Char(read_pos)
  IN /\ pc = "loop" /\ op = "escape"
     /\ out' = Put(out, IF MustEscape(c) THEN <<Percent>> \o uriaa_escape_char(c)
                                         ELSE <<c>>)
     /\ Advance(read_pos) /\ result' = IF pc' = "done" THEN 1 ELSE 0
     /\ UNCHANGED <<op, flag, text, size>>

\* One pass of uriaa_unescape over a character.
Copy ==
  /\ pc = "loop" /\ op = "unescape" /\ Char(read_pos) # Percent
  /\ out' = Put(out, <<Char(read_pos)>>)
  /\ Advance(read_pos) /\ result' = IF pc' = "done" THEN 1 ELSE result
  /\ UNCHANGED <<op, flag, text, size>>

\* The text ends inside an escape: the call returns what the escape before
\* this one has left in is_unescape.
CutShort ==
  /\ pc = "loop" /\ op = "unescape" /\ Char(read_pos) = Percent
  /\ ~has_next(read_pos, Len(text)) \/ ~has_next(read_pos + 1, Len(text))
  /\ read_pos' = Len(text) /\ pc' = "done"
  /\ UNCHANGED <<op, flag, text, out, size, result>>

\* Mutant of Unescape: every escape is undone.
Unescape_All ==
  LET high == Char(read_pos + 1)
      low  == Char(read_pos + 2)
      c    == uriaa_unescape_char(high, low)
  IN /\ pc = "loop" /\ op = "unescape" /\ Char(read_pos) = Percent
     /\ has_next(read_pos, Len(text)) /\ has_next(read_pos + 1, Len(text))
     /\ IF c = -1 THEN result' = 0 /\ pc' = "done" /\ UNCHANGED <<read_pos, out>>
        ELSE /\ out' = Put(out, <<c>>)
             /\ Advance(read_pos + 2) /\ result' = 1
     /\ UNCHANGED <<op, flag, text, size>>

\* One pass of uriaa_unescape over an escape.  With the flag an unreserved
\* character takes its place and any other stays escaped; without it the
\* code writes the second digit, not the character.
Unescape ==
  LET high == Char(read_pos + 1)
      low  == Char(read_pos + 2)
      c    == uriaa_unescape_char(high, low)
  IN /\ pc = "loop" /\ op = "unescape" /\ Char(read_pos) = Percent
     /\ has_next(read_pos, Len(text)) /\ has_next(read_pos + 1, Len(text))
     /\ IF c = -1
        THEN result' = 0 /\ pc' = "done" /\ read_pos' = read_pos + 2 /\ UNCHANGED out
        ELSE /\ out' = Put(out, IF ~flag THEN <<low>>
                                ELSE IF Unreserved(c) THEN <<c>>
                                ELSE <<Percent, high, low>>)
             /\ Advance(read_pos + 2) /\ result' = 1
     /\ UNCHANGED <<op, flag, text, size>>

Next == Escape \/ Copy \/ CutShort \/ Unescape
Spec == Init /\ [][Next]_vars

-----------------------------------------------------------------------------
\* The reference: the units of a text are its characters and its escapes.
Hex(c) == IF c \in 48..57 THEN c - 48 ELSE IF c \in 65..70 THEN c - 55
          ELSE IF c \in 97..102 THEN c - 87 ELSE -1
IsEscape(s, k) ==
  /\ k + 2 <= Len(s) /\ s[k] = Percent
  /\ Hex(s[k + 1]) >= 0 /\ Hex(s[k + 2]) >= 0
EscapeValue(s, k) == 16 * Hex(s[k + 1]) + Hex(s[k + 2])
\* Every "%" of the text begins an escape.
WellFormed(s) == \A k \in 1..Len(s) : s[k] = Percent => IsEscape(s, k)

\* Where in out the k-th character of the text, or its escape, begins: every
\* escape before it has added two characters.
EscapedPlace(k) == k + 2 * Cardinality({j \in 1..k - 1 : MustEscape(text[j])})

\* The escape at the k-th character of the text is to be undone, the k-th
\* character is a digit of such an escape, and where in out any other
\* character belongs: every escape undone before it has taken two away.
Undone(k) == IsEscape(text, k) /\ Unreserved(EscapeValue(text, k))
UndoneDigit(k) == \E j \in 1..k - 1 : j >= k - 2 /\ Undone(j)
UndonePlace(k) == k - 2 * Cardinality({j \in 1..k - 1 : Undone(j)})

\* The write position stays in the buffer, the read position in the text.
TypeOK ==
  /\ read_pos \in 0..Len(text) /\ Len(out) < size
  /\ out \in Seq(0..255) /\ result \in {0, 1} /\ pc \in {"loop", "done"}

\* An escaped text that fits holds no excluded character, no reserved one when
\* the flag asks for that, and stands for the text it was made from: character
\* by character, in order, with nothing between.
EscapeDecodes ==
  op = "escape" /\ pc = "done" /\ Len(out) < size - 1 =>
    /\ EscapedPlace(Len(text) + 1) = Len(out) + 1
    /\ \A k \in 1..Len(text) :
         LET p == EscapedPlace(k)
         IN IF MustEscape(text[k]) THEN IsEscape(out, p) /\ EscapeValue(out, p) = text[k]
            ELSE out[p] = text[k]
    /\ \A k \in 1..Len(out) : MustEscape(out[k]) => IsEscape(out, k)

\* With the flag the escapes of unreserved characters are undone and no
\* other, be it that the result looks like an escape again; what does not
\* fit into the buffer is missing at the end.
UnescapesUnreserved ==
  op = "unescape" /\ flag /\ pc = "done" /\ WellFormed(text) =>
    /\ result = 1
    /\ Len(out) + 1 = IF UndonePlace(Len(text) + 1) < size
                        THEN UndonePlace(Len(text) + 1) ELSE size
    /\ \A k \in 1..Len(text) : ~UndoneDigit(k) /\ UndonePlace(k) < size =>
         out[UndonePlace(k)] = IF Undone(k) THEN EscapeValue(text, k) ELSE text[k]
=============================================================================
