----------------------------- MODULE RingIndex -----------------------------
(* Index arithmetic of the works array of the Worker library               *)
(* (worker/workeraa_index_utils.h).  r and w are work_read_index and       *)
(* work_write_index, c is work_count and n is work_size.  The four C       *)
(* functions first clamp their local copies of the indices to n; they      *)
(* store an index back only in the branches that compute a new one.        *)
EXTENDS Integers

Clamp(i, n) == IF i > n THEN n ELSE i

\* Mutant of CheckWriteAt: equal indices are taken for an empty array.
CheckWriteAt_NoCountTest(r, w, c, n) ==
  \/ w = r /\ w < n
  \/ w > r /\ (w < n \/ r > 0)
  \/ w < r

\* workeraa_work_check_write_index: may a work be stored?  When w has
\* reached n and r > 0 the C code sets its LOCAL write_index to 0 and says
\* yes; the stored index stays n.
CheckWriteAt(r, w, c, n) ==
  \/ w = r /\ c = 0 /\ w < n
  \/ w > r /\ (w < n \/ r > 0)
  \/ w < r

CheckWrite(r, w, c, n) == CheckWriteAt(Clamp(r, n), Clamp(w, n), c, n)

\* Mutant of CheckReadAt: equal indices are taken for an empty array.
CheckReadAt_EqualIsEmpty(r, w, c, n) ==
  \/ r < w
  \/ r > w /\ (r < n \/ w > 0)

\* workeraa_work_check_read_index: may a work be taken?
CheckReadAt(r, w, c, n) ==
  \/ r = w /\ c > 0 /\ r < n
  \/ r < w
  \/ r > w /\ (r < n \/ w > 0)

CheckRead(r, w, c, n) == CheckReadAt(Clamp(r, n), Clamp(w, n), c, n)

\* The step of an index that runs ahead of the other one: up, or to the
\* start of the array if the other index has left it, or to n ("full").
Ahead(i, other, n) == IF i + 1 < n THEN i + 1 ELSE IF other > 0 THEN 0 ELSE n

\* The step of an index that runs behind the other one, up to meeting it.
Behind(i, other) == IF i + 1 < other THEN i + 1 ELSE other

\* Mutant of NextRead: the new index is computed and not stored.
NextRead_NotStored(r, w, c, n) == r

\* workeraa_work_set_next_read_index, called before work_count--.
NextRead(r, w, c, n) ==
  LET cr == Clamp(r, n)
      cw == Clamp(w, n)
  IN  IF cr < cw THEN Behind(cr, cw)
      ELSE IF cr > cw \/ c > 0 THEN Ahead(cr, cw, n)
      ELSE r

\* workeraa_work_set_next_write_index, called before work_count++.  The
\* second test is a plain `if' on the index the first one has just moved.
NextWrite(r, w, c, n) ==
  LET cr     == Clamp(r, n)
      cw     == Clamp(w, n)
      leads  == cw > cr \/ (cw = cr /\ c = 0)
      moved  == IF leads THEN Ahead(cw, cr, n) ELSE cw
  IN  IF moved < cr THEN Behind(moved, cr)
      ELSE IF leads THEN moved ELSE w

\* What the index functions maintain: c never exceeds the number of slots
\* from the read index on to the write index (around the end of the array if
\* the writer is behind), the read index stops at n only with the writer and
\* with nothing left, and the writer is at slot 0 only before the first work.
RingOK(r, w, c, n) ==
  /\ c <= n
  /\ r < w => c <= w - r
  /\ r > w => c <= n - r + w
  /\ r = n => w = n /\ c = 0
  /\ w = 0 => r = 0 /\ c = 0
=============================================================================
