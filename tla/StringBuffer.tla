--------------------------- MODULE StringBuffer ----------------------------
(* The String library (string/stringaa.h): strings that own an allocated   *)
(* buffer or link into a buffer of someone else, and the heap below them.  *)
(* One action per operation; memory exhaustion is a failing malloc,        *)
(* whose result stringaa_copy_chars_size and stringaa_add_chars_size ignore. *)
EXTENDS StringPos, Sequences, FiniteSets

CONSTANTS
  Strings,        \* the stringaa structs
  Blocks,         \* the blocks malloc can return
  Literal,        \* the block of a C string literal, never freed
  LiteralText,    \* its characters
  NoBlock,        \* NULL
  Zero, Junk,     \* the null character, an uninitialized byte
  MaxSize,        \* bound on buf_size, and on the positions
  MaxRead         \* bound on the read position

ASSUME BlocksAssumption ==
  Literal \notin Blocks /\ NoBlock \notin Blocks /\ NoBlock # Literal
ASSUME SizeAssumption == MaxSize \in Nat /\ MaxRead \in Nat
ASSUME TextAssumption ==
  /\ LiteralText \in Seq(STRING) /\ LiteralText # << >>
  /\ Zero \in STRING /\ Junk \in STRING

VARIABLES
  str,    \* the structs
  mem,    \* the bytes of every block, none of a block that is not allocated
  overrun \* history: did characters go past a buffer?  "exhausted": a malloc had failed

vars == <<str, mem, overrun>>

AllBlocks == Blocks \cup {Literal}

\* struct string_struct; off is the distance of buf from its block's start.
\* buf_original, prev_link and next_link are never set by any operation.
Struct == [buf: AllBlocks \cup {NoBlock}, off: Nat, size: Nat, r: Nat, w: Nat,
           init: {0, 1}, alloc: {0, 1}, nt: {0, 1}]

Cleared == [buf |-> NoBlock, off |-> 0, size |-> 0, r |-> 0, w |-> 0,
            init |-> 0, alloc |-> 0, nt |-> 0]

\* The bytes after free(s->buf) of a struct that owns its buffer.
Freed(x) == IF x.alloc = 1 THEN [mem EXCEPT ![x.buf] = << >>] ELSE mem

\* Byte i (from 1) of struct x; what a freed block holds is undefined.
ByteAt(x, i) ==
  IF x.buf # NoBlock /\ x.off + i \in DOMAIN mem[x.buf]
  THEN mem[x.buf][x.off + i] ELSE Junk

\* The bytes of struct x from position from (included) to to (excluded).
Bytes(x, from, to) == [i \in 1..to - from |-> ByteAt(x, from + i)]

\* The characters a reader of x sees.
Text(x) == Bytes(x, 0, x.w)

\* Every byte of x lies in its block.
Readable(x) == x.size = 0 \/ (x.buf # NoBlock /\ x.off + x.size <= Len(mem[x.buf]))

\* Store data into block bytes from offset at; bytes that do not exist are
\* not stored (the invariant InBounds says when that happens).
Store(bytes, at, data) ==
  [i \in 1..Len(bytes) |->
     IF i > at /\ i <= at + Len(data) THEN data[i - at] ELSE bytes[i]]

-----------------------------------------------------------------------------
\* The memory operations: the struct x and the bytes after them, when malloc
\* returns b, and the position behind the last byte stored into the buffer.

Same(x) == [x |-> x, mem |-> mem, end |-> 0]

\* stringaa_malloc: a larger, zeroed buffer; the contents are lost.
NeedsMalloc(x, n) == n > 0 /\ (x.alloc = 0 \/ x.size < n)

stringaa_malloc(x, n, b) ==
  IF NeedsMalloc(x, n) /\ b # NoBlock
  THEN [x    |-> [Cleared EXCEPT !.buf = b, !.size = n, !.alloc = 1, !.nt = 1],
        mem  |-> [Freed(x) EXCEPT ![b] = [i \in 1..n |-> Zero]], end |-> 0]
  ELSE Same(x)

\* Mutant of stringaa_realloc: the contents are not copied.
stringaa_realloc_NoCopy(x, n, b) ==
  IF n > 0 /\ n >= x.size /\ b # NoBlock
  THEN [x    |-> [x EXCEPT !.buf = b, !.off = 0, !.size = n + 1 - x.nt, !.r = 0,
                           !.alloc = 1],
        mem  |-> [mem EXCEPT ![b] = [i \in 1..n + 1 - x.nt |-> Junk]], end |-> 0]
  ELSE Same(x)

\* stringaa_realloc: a buffer of at least n bytes with the old contents; the
\* old buffer is not freed.  A write position at the end of the buffer moves
\* back by one, whether or not the string is null-terminated.
NeedsRealloc(x, n) == n > 0 /\ n >= x.size

stringaa_realloc(x, n, b) ==
  LET size == n + 1 - x.nt
      w    == IF x.init = 0 \/ x.size = 0 THEN 0
              ELSE IF x.w >= x.size THEN x.size - 1 ELSE x.w
      byte(i) == IF i <= w THEN ByteAt(x, i)
                 ELSE IF i = w + 1 /\ x.nt = 1 /\ x.init = 1 THEN Zero ELSE Junk
  IN IF NeedsRealloc(x, n) /\ b # NoBlock
     THEN [x    |-> [x EXCEPT !.buf = b, !.off = 0, !.size = size, !.r = 0,
                              !.w = w, !.alloc = 1],
           mem  |-> [mem EXCEPT ![b] = [i \in 1..size |-> byte(i)]], end |-> 0]
     ELSE Same(x)

\* memcpy(s->buf + at, data) in a memory result, then write_pos behind it, the
\* null character when the string is null-terminated, read_pos 0 and is_init.
Fill(res, at, data) ==
  LET x    == res.x
      tail == IF x.nt = 1 THEN Append(data, Zero) ELSE data
  IN [x    |-> [x EXCEPT !.w = at + Len(data), !.r = 0, !.init = 1],
      mem  |-> IF x.buf = NoBlock THEN res.mem
               ELSE [res.mem EXCEPT ![x.buf] = Store(@, x.off + at, tail)],
      end  |-> at + Len(tail)]

\* What a call of malloc can return: a free block, NULL when there is none.
Fresh(needed) ==
  LET free == {b \in Blocks : mem[b] = << >>}
  IN IF needed /\ free # {} THEN free ELSE {NoBlock}

\* The text and the null character behind it fit the buffer.
Fits(x) == x.w + x.nt <= x.size

\* Struct s becomes the result; a store to NULL, or one that changes a
\* literal, would have ended the process.
Becomes(s, res) ==
  /\ res.x.size <= MaxSize /\ res.x.w <= MaxSize
  /\ res.x.buf = NoBlock => res.end = 0
  /\ res.mem[Literal] = mem[Literal]
  /\ str' = [str EXCEPT ![s] = res.x]
  /\ mem' = res.mem

\* An operation that calls malloc when needed, with what it makes of a block.
Allocates(s, needed, Result(_)) ==
  \E b \in Fresh(needed) : \E res \in {Result(b)} :
    /\ Becomes(s, res)
    /\ overrun' = IF res.end <= res.x.size THEN "no"
                  ELSE IF needed /\ b = NoBlock THEN "exhausted" ELSE "yes"

\* An operation that does not.
Sets(s, res) == Becomes(s, res) /\ UNCHANGED overrun

-----------------------------------------------------------------------------
\* stringaa_copy_chars_size: replace the text by data.
CopyNeeds(x, n) == (x.alloc = 0 \/ x.size <= n + 1) /\ NeedsMalloc(x, n + 1)

CopyInto(x, data, b) ==
  LET n == Len(data)
  IN Fill(IF x.alloc = 0 \/ x.size <= n + 1 THEN stringaa_malloc(x, n + 1, b)
          ELSE Same(x), 0, data)

\* Mutant of AddNeeds: room for the characters only.
AddNeeds_NoRoom(x, n) == x.alloc = 0 \/ x.size < x.w + n

\* stringaa_add_chars_size: put data behind the text.
AddNeeds(x, n) == x.alloc = 0 \/ x.size <= x.w + n + 1

AddInto(x, data, b) ==
  LET n   == Len(data)
      res == IF AddNeeds(x, n) THEN stringaa_realloc(x, x.w + n + 1, b) ELSE Same(x)
  IN Fill(res, res.x.w, data)

-----------------------------------------------------------------------------
Init ==
  /\ str = [s \in Strings |-> Cleared]
  /\ mem = [b \in AllBlocks |-> IF b = Literal THEN Append(LiteralText, Zero) ELSE << >>]
  /\ overrun = "no"

\* stringaa_init: the struct is cleared (an allocated buffer is lost), and a
\* buffer of n bytes allocated when n > 0.
stringaa_init(s, n) ==
  LET Result(b) == [stringaa_malloc(Cleared, n, b) EXCEPT
                      !.x.init = IF n = 0 \/ b # NoBlock THEN 1 ELSE 0]
  IN Allocates(s, n > 0, Result)

\* stringaa_set_chars: link to the whole literal.
stringaa_set_chars(s) ==
  Sets(s, [x    |-> [Cleared EXCEPT !.buf = Literal, !.size = Len(LiteralText) + 1,
                                    !.w = Len(LiteralText), !.init = 1, !.nt = 1],
           mem  |-> Freed(str[s]), end |-> 0])

\* Link x to positions pos1..pos2-1 of y: not null-terminated.
Link(x, y, pos1, pos2) ==
  [x    |-> [Cleared EXCEPT !.buf = y.buf, !.off = y.off + pos1,
                            !.size = pos2 - pos1, !.w = pos2 - pos1, !.init = 1],
   mem  |-> Freed(x), end |-> 0]

\* stringaa_set_chars_size: link to the first n characters of the literal.
stringaa_set_chars_size(s, n) ==
  /\ n > 0
  /\ Sets(s, Link(str[s], [Cleared EXCEPT !.buf = Literal], 0, n))

\* stringaa_set_substring(s1, s2): the callers pass positions of s2.
stringaa_set_substring(s1, s2, pos1, pos2) ==
  /\ s1 # s2
  /\ pos1 < pos2 /\ pos2 <= str[s2].w
  /\ Sets(s1, Link(str[s1], str[s2], pos1, pos2))

\* stringaa_copy_chars (and _size): data is not in any buffer of a string.
stringaa_copy_chars(s, data) ==
  LET Result(b) == CopyInto(str[s], data, b)
  IN Allocates(s, CopyNeeds(str[s], Len(data)), Result)

\* stringaa_copy: all of s2's buffer is copied, then s2's write position is
\* taken.  When s2 links into the buffer that stringaa_malloc frees, the bytes
\* are read after the free.
stringaa_copy(s1, s2) ==
  LET y == str[s2]
      n == y.size - y.nt
      lost(b) == /\ CopyNeeds(str[s1], n) /\ b # NoBlock
                 /\ str[s1].alloc = 1 /\ y.buf = str[s1].buf
      data(b) == IF lost(b) THEN [i \in 1..n |-> Junk] ELSE Bytes(y, 0, n)
      Result(b) == [CopyInto(str[s1], data(b), b) EXCEPT !.x.w = y.w]
  IN /\ s1 # s2
     /\ y.buf # NoBlock /\ y.init = 1
     /\ Allocates(s1, CopyNeeds(str[s1], n), Result)

\* stringaa_add_chars (and _size).
stringaa_add_chars(s, data) ==
  LET Result(b) == AddInto(str[s], data, b)
  IN /\ data # << >>
     /\ Allocates(s, /\ AddNeeds(str[s], Len(data))
                     /\ NeedsRealloc(str[s], str[s].w + Len(data) + 1), Result)

\* stringaa_add: what is left to read of s2 is put behind s1.
stringaa_add(s1, s2) ==
  LET y == str[s2]
  IN /\ s1 # s2
     /\ y.buf # NoBlock /\ y.init = 1
     /\ y.r < y.w /\ y.w + y.nt <= y.size
     /\ stringaa_add_chars(s1, Bytes(y, y.r, y.w))

\* stringaa_set_char: a link is written through, as stringaa_realloc(s, 0)
\* never allocates.
stringaa_set_char(s, c) ==
  LET x == str[s]
  IN /\ x.w + x.nt < x.size
     /\ x.buf # Literal
     /\ mem' = [mem EXCEPT ![x.buf] = Store(@, x.off + x.w, <<c>>)]
     /\ UNCHANGED <<str, overrun>>

\* stringaa_is_chari, unlike stringaa_is_char, compares and moves on without
\* looking at the write position.
stringaa_is_chari(s) ==
  /\ str[s].r < MaxRead
  /\ str' = [str EXCEPT ![s].r = @ + 1]
  /\ UNCHANGED <<mem, overrun>>

\* The position operations; a match of stringaa_is_char moves like the first.
\* MaxRead bounds the read position.
Moves(x) ==
  { [x EXCEPT !.r = next_read_pos(x.r, x.w)],
    [x EXCEPT !.r = prev_read_pos(x.r, x.w)],
    [x EXCEPT !.r = 0],
    [x EXCEPT !.r = end_read_pos(x.w)],
    [x EXCEPT !.w = next_write_pos(x.w, x.nt, x.size)],
    [x EXCEPT !.w = prev_write_pos(x.w, x.nt, x.size)],
    [x EXCEPT !.w = 0],
    [x EXCEPT !.w = end_write_pos(x.nt, x.size)],
    [x EXCEPT !.r = 0, !.w = 0] }

Move(s) ==
  /\ \E x \in Moves(str[s]) : x.r <= MaxRead /\ str' = [str EXCEPT ![s] = x]
  /\ UNCHANGED <<mem, overrun>>

\* Mutant of stringaa_free: flags stay, so the block can be freed again.
stringaa_free_KeepsFlags(s) ==
  Sets(s, [x |-> [str[s] EXCEPT !.r = 0, !.w = 0], mem |-> Freed(str[s]),
           end |-> 0])

\* stringaa_free.
stringaa_free(s) ==
  Sets(s, [x |-> Cleared, mem |-> Freed(str[s]), end |-> 0])

\* A store past a buffer is undefined behaviour: nothing is said of what follows.
Next ==
  /\ overrun = "no"
  /\ \E s \in Strings :
       \/ \E n \in {0, MaxSize} : stringaa_init(s, n)
       \/ stringaa_set_chars(s)
       \/ \E n \in 1..Len(LiteralText) : stringaa_set_chars_size(s, n)
       \/ \E n \in 0..Len(LiteralText) : stringaa_copy_chars(s, SubSeq(LiteralText, 1, n))
       \/ \E n \in 1..Len(LiteralText) : stringaa_add_chars(s, SubSeq(LiteralText, 1, n))
       \/ \E s2 \in Strings :
            \/ \E pos1 \in 0..MaxSize, pos2 \in 0..MaxSize :
                 stringaa_set_substring(s, s2, pos1, pos2)
            \/ stringaa_copy(s, s2)
            \/ stringaa_add(s, s2)
       \/ stringaa_set_char(s, LiteralText[1])
       \/ stringaa_is_chari(s)
       \/ Move(s)
       \/ stringaa_free(s)

Spec == Init /\ [][Next]_vars

-----------------------------------------------------------------------------
TypeOK ==
  /\ str \in [Strings -> Struct]
  /\ mem \in [AllBlocks -> Seq(STRING)]
  /\ overrun \in {"no", "exhausted", "yes"}

\* Until an allocation fails, which the copying operations do not notice, a
\* string's text and, when it is null-terminated, the null character behind it
\* fit its buffer: what stringaa_get_char, the memcpy of the copying operations
\* and stringaa_set_char rely on instead of checking.  No character goes past
\* a buffer but after a malloc that failed.
InBounds ==
  /\ overrun # "yes"
  /\ overrun = "no" => \A s \in Strings : Fits(str[s])

\* A string that owns its buffer owns all of a block that is allocated, and no
\* other string owns it: every free() in the library frees a block once, also
\* after an allocation that failed.
OwnersApart ==
  \A s \in Strings :
    str[s].alloc = 1 =>
      /\ str[s].buf \in Blocks /\ str[s].off = 0 /\ str[s].size > 0
      /\ Len(mem[str[s].buf]) = str[s].size
      /\ \A t \in Strings \ {s} : str[t].alloc = 1 => str[t].buf # str[s].buf

\* The write position that stringaa_add_chars_size goes on from: the text's end,
\* but in a full string without a null character, for which stringaa_realloc
\* sets it back by one, it is the last character.
Kept(x) == IF x.size > 0 /\ x.w = x.size THEN x.w - 1 ELSE x.w

\* stringaa_add_chars_size puts the characters behind the text of every
\* readable string, over a reallocation too, unless memory ran out and they
\* went past the buffer.  Nothing of the text is lost but the last character
\* of a full string without a null character, which the first new one replaces.
AddAppends ==
  [][\A s \in Strings, n \in 1..Len(LiteralText) :
       LET data == SubSeq(LiteralText, 1, n)
       IN /\ str'[s] # str[s] /\ str'[s].r = 0 /\ overrun' = "no"
          /\ Readable(str[s])
          /\ stringaa_add_chars(s, data)
          => Text(str[s])' = Bytes(str[s], 0, Kept(str[s])) \o data]_vars
=============================================================================
