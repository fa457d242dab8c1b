---------------------------- MODULE StringPos -----------------------------
(* Positions of a stringaa: the read position runs from 0 to the write     *)
(* position, which stands for "end of read".  The parsers of the URI and   *)
(* of the HTTP library move through their input with these operators only. *)
EXTENDS Integers

\* stringaa_next_read_pos: one further, or to the end of read.
next_read_pos(r, w) == IF r + 1 < w THEN r + 1 ELSE w

\* Its return value: there is a character at the new position.
has_next(r, w) == r + 1 < w

\* stringaa_prev_read_pos: one back; from the first position, or from beyond
\* the write position, it goes to the end of read.
prev_read_pos(r, w) == IF r > 0 /\ r <= w THEN r - 1 ELSE w

\* stringaa_end_read_pos.
end_read_pos(w) == IF w > 0 THEN w - 1 ELSE 0

\* stringaa_next_write_pos: nt is 1 when the string is null-terminated.
next_write_pos(w, nt, size) ==
  IF w + nt + 1 < size THEN w + 1 ELSE IF size > 0 THEN size - nt ELSE 0

\* Mutant of prev_write_pos: the first position is not looked at.
prev_write_pos_NoStop(w, nt, size) ==
  IF w + nt <= size THEN w - 1 ELSE size - nt

\* stringaa_prev_write_pos: from the first position it goes to the end.
prev_write_pos(w, nt, size) ==
  IF w > 0 /\ w + nt <= size THEN w - 1 ELSE IF size > 0 THEN size - nt ELSE 0

\* stringaa_end_write_pos: the last character of the buffer.
end_write_pos(nt, size) ==
  LET w == IF size > 0 THEN size - nt ELSE 0 IN IF w > 0 THEN w - 1 ELSE w
=============================================================================
