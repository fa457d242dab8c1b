---------------------------- MODULE String_proofs ----------------------------
(* Proofs about the String library: the buffers, for any number of strings, *)
(* any heap, any literal and any bound, and stringaa_find, for any texts.   *)
EXTENDS StringBuffer, StringFind, SequenceTheorems, TLAPS

\* The bytes of the heap's blocks.
Heap == [AllBlocks -> Seq(STRING)]

\* Struct x in the place of str[s], with the bytes m: x owns all of a block
\* that no other string owns, and the other owners' blocks have their sizes.
Sound(s, x, m) ==
  /\ x \in Struct
  /\ m \in Heap
  /\ x.alloc = 1 => /\ x.buf \in Blocks /\ x.off = 0 /\ x.size > 0
                    /\ Len(m[x.buf]) = x.size
  /\ \A t \in Strings \ {s} :
       str[t].alloc = 1 => /\ str[t].buf \in Blocks /\ str[t].size > 0
                           /\ Len(m[str[t].buf]) = str[t].size
                           /\ x.alloc = 1 => str[t].buf # x.buf

\* What the operations rely on: the types, the bounds, the owners, and that
\* only a struct without a buffer can be uninitialised.
StringInv ==
  /\ TypeOK
  /\ InBounds
  /\ OwnersApart
  /\ \A s \in Strings : str[s].init = 0 => str[s].size = 0

\* What malloc can return: an unallocated block or NULL.
IsFresh(b) == b = NoBlock \/ (b \in Blocks /\ mem[b] = << >>)

\* A function on 1..n is a sequence.
LEMMA TableIsSeq ==
  ASSUME NEW S, NEW n \in Nat, NEW f \in [1..n -> S]
  PROVE  f \in Seq(S) /\ Len(f) = n
  BY SeqDef

\* Storing changes neither the length nor the kind of a block's bytes.
LEMMA StoreKeeps ==
  ASSUME NEW bytes \in Seq(STRING), NEW at \in Nat, NEW data \in Seq(STRING)
  PROVE  /\ Store(bytes, at, data) \in Seq(STRING)
         /\ Len(Store(bytes, at, data)) = Len(bytes)
<1>1. \A i \in 1..Len(bytes) : i > at /\ i <= at + Len(data) => i - at \in 1..Len(data)
  OBVIOUS
<1>2. Store(bytes, at, data) \in [1..Len(bytes) -> STRING]
  BY <1>1, ElementOfSeq DEF Store
<1>3. Len(bytes) \in Nat
  OBVIOUS
<1> QED
  BY <1>2, <1>3, TableIsSeq

\* Freeing an owner's buffer leaves the other owners their blocks.
LEMMA FreedSound ==
  ASSUME NEW s \in Strings, NEW x, Sound(s, x, mem)
  PROVE  /\ Freed(x) \in Heap
         /\ \A t \in Strings \ {s} : str[t].alloc = 1 =>
              Len(Freed(x)[str[t].buf]) = str[t].size
<1>1. << >> \in Seq(STRING)
  OBVIOUS
<1> QED
  BY <1>1 DEF Freed, Sound, Heap, AllBlocks

\* A clear struct is sound in any place.
LEMMA ClearedSound ==
  ASSUME NEW s \in Strings, NEW x, Sound(s, x, mem)
  PROVE  Sound(s, Cleared, mem) /\ Sound(s, Cleared, Freed(x))
<1>1. Cleared \in Struct /\ Cleared.alloc = 0
  BY DEF Cleared, Struct
<1> QED
  BY <1>1, FreedSound DEF Sound

\* stringaa_malloc: the new block is nobody's, and large enough.
LEMMA MallocSound ==
  ASSUME NEW s \in Strings, NEW x, Sound(s, x, mem), NEW n \in Nat,
         NEW b, IsFresh(b)
  PROVE  /\ Sound(s, stringaa_malloc(x, n, b).x, stringaa_malloc(x, n, b).mem)
         /\ NeedsMalloc(x, n) /\ b # NoBlock =>
              /\ stringaa_malloc(x, n, b).x.size = n
              /\ stringaa_malloc(x, n, b).x.nt = 1
         /\ ~(NeedsMalloc(x, n) /\ b # NoBlock) => stringaa_malloc(x, n, b) = Same(x)
<1>1. CASE NeedsMalloc(x, n) /\ b # NoBlock
  <2> DEFINE bytes == [i \in 1..n |-> Zero]
             y == [Cleared EXCEPT !.buf = b, !.size = n, !.alloc = 1, !.nt = 1]
             m == [Freed(x) EXCEPT ![b] = bytes]
  <2>1. stringaa_malloc(x, n, b) = [x |-> y, mem |-> m, end |-> 0]
    BY <1>1 DEF stringaa_malloc
  <2>2. b \in Blocks /\ mem[b] = << >> /\ n > 0
    BY <1>1 DEF IsFresh, NeedsMalloc
  <2>3. bytes \in Seq(STRING) /\ Len(bytes) = n
    BY TextAssumption, TableIsSeq
  <2>4. y \in Struct /\ y.buf = b /\ y.size = n /\ y.alloc = 1 /\ y.off = 0 /\ y.nt = 1
    BY <2>2 DEF Cleared, Struct, AllBlocks
  <2>5. m \in Heap /\ m[b] = bytes /\ \A c \in AllBlocks \ {b} : m[c] = Freed(x)[c]
    BY <2>2, <2>3, FreedSound DEF Heap, AllBlocks
  <2>6. ASSUME NEW t \in Strings \ {s}, str[t].alloc = 1
        PROVE  str[t].buf # b /\ Len(m[str[t].buf]) = str[t].size
    <3>1. str[t].buf # b
      BY <2>2, <2>6 DEF Sound
    <3> QED
      BY <2>5, <2>6, <3>1, FreedSound DEF Sound, AllBlocks
  <2> HIDE DEF y, m, bytes
  <2>7. Sound(s, y, m)
    BY <2>2, <2>3, <2>4, <2>5, <2>6 DEF Sound
  <2> QED
    BY <1>1, <2>1, <2>4, <2>7
<1>2. CASE ~(NeedsMalloc(x, n) /\ b # NoBlock)
  BY <1>2 DEF stringaa_malloc, Same
<1> QED
  BY <1>1, <1>2

\* A byte that is read is a byte, whatever the block holds by then.
LEMMA ByteIsByte ==
  ASSUME NEW s \in Strings, NEW x, Sound(s, x, mem), NEW i \in Nat
  PROVE  ByteAt(x, i) \in STRING
<1>1. CASE x.buf # NoBlock /\ x.off + i \in DOMAIN mem[x.buf]
  <2>1. mem[x.buf] \in Seq(STRING)
    BY <1>1 DEF Sound, Struct, Heap
  <2> QED
    BY <1>1, <2>1, ElementOfSeq DEF ByteAt
<1>2. CASE ~(x.buf # NoBlock /\ x.off + i \in DOMAIN mem[x.buf])
  BY <1>2, TextAssumption DEF ByteAt
<1> QED
  BY <1>1, <1>2

\* The write position after stringaa_realloc, and the bytes of the new buffer.
ReallocW(x) ==
  IF x.init = 0 \/ x.size = 0 THEN 0
  ELSE IF x.w >= x.size THEN x.size - 1 ELSE x.w

ReallocByte(x, i) ==
  IF i <= ReallocW(x) THEN ByteAt(x, i)
  ELSE IF i = ReallocW(x) + 1 /\ x.nt = 1 /\ x.init = 1 THEN Zero ELSE Junk

Grown(x, n, b) ==
  [x EXCEPT !.buf = b, !.off = 0, !.size = n + 1 - x.nt, !.r = 0,
            !.w = ReallocW(x), !.alloc = 1]

GrownMem(x, n, b) ==
  [mem EXCEPT ![b] = [i \in 1..n + 1 - x.nt |-> ReallocByte(x, i)]]

\* stringaa_realloc: the new block is nobody's, and holds n bytes.
LEMMA ReallocSound ==
  ASSUME NEW s \in Strings, NEW x, Sound(s, x, mem), NEW n \in Nat,
         NEW b, IsFresh(b)
  PROVE  /\ Sound(s, stringaa_realloc(x, n, b).x, stringaa_realloc(x, n, b).mem)
         /\ NeedsRealloc(x, n) /\ b # NoBlock =>
              /\ stringaa_realloc(x, n, b).x = Grown(x, n, b)
              /\ stringaa_realloc(x, n, b).mem = GrownMem(x, n, b)
         /\ ~(NeedsRealloc(x, n) /\ b # NoBlock) => stringaa_realloc(x, n, b) = Same(x)
         /\ ReallocW(x) \in Nat /\ ReallocW(x) <= x.w
<1>0. x \in Struct /\ x.nt \in {0, 1} /\ x.size \in Nat /\ x.w \in Nat
  BY DEF Sound, Struct
<1>3. ReallocW(x) \in Nat /\ ReallocW(x) <= x.w
  BY <1>0 DEF ReallocW
<1>1. CASE NeedsRealloc(x, n) /\ b # NoBlock
  <2> DEFINE size == n + 1 - x.nt
             bytes == [i \in 1..size |-> ReallocByte(x, i)]
             y == [x EXCEPT !.buf = b, !.off = 0, !.size = size, !.r = 0,
                            !.w = ReallocW(x), !.alloc = 1]
             m == [mem EXCEPT ![b] = bytes]
  <2>1. stringaa_realloc(x, n, b) = [x |-> y, mem |-> m, end |-> 0]
    BY <1>1 DEF stringaa_realloc, ReallocByte, ReallocW
  <2>2. b \in Blocks /\ mem[b] = << >> /\ size \in Nat /\ size > 0
    BY <1>0, <1>1 DEF IsFresh, NeedsRealloc
  <2>3. bytes \in Seq(STRING) /\ Len(bytes) = size
    <3>1. \A i \in 1..size : ReallocByte(x, i) \in STRING
      BY ByteIsByte, TextAssumption DEF ReallocByte
    <3>2. bytes \in [1..size -> STRING]
      BY <3>1
    <3> HIDE DEF bytes, size
    <3> QED
      BY <2>2, <3>2, TableIsSeq
  <2>4. y \in Struct /\ y.buf = b /\ y.size = size /\ y.alloc = 1 /\ y.off = 0
    BY <1>0, <1>3, <2>2 DEF Struct, AllBlocks
  <2>5. m \in Heap /\ m[b] = bytes /\ \A c \in AllBlocks \ {b} : m[c] = mem[c]
    <3> HIDE DEF bytes
    <3> QED
      BY <2>2, <2>3 DEF Heap, AllBlocks, Sound
  <2>6. ASSUME NEW t \in Strings \ {s}, str[t].alloc = 1
        PROVE  str[t].buf # b /\ Len(m[str[t].buf]) = str[t].size
    <3>1. str[t].buf # b
      BY <2>2, <2>6 DEF Sound
    <3> QED
      BY <2>5, <2>6, <3>1 DEF Sound, AllBlocks
  <2>7. Sound(s, y, m)
    <3> HIDE DEF y, m, bytes, size
    <3> QED
      BY <2>2, <2>3, <2>4, <2>5, <2>6 DEF Sound
  <2> QED
    BY <1>1, <1>3, <2>1, <2>7 DEF Grown, GrownMem
<1>2. CASE ~(NeedsRealloc(x, n) /\ b # NoBlock)
  BY <1>2, <1>3 DEF stringaa_realloc, Same
<1> QED
  BY <1>1, <1>2

\* The struct after a memcpy that ends at position w.
WithText(x, w) == [x EXCEPT !.w = w, !.r = 0, !.init = 1]

\* The memcpy behind it keeps every block's length.
LEMMA FillSound ==
  ASSUME NEW s \in Strings, NEW res, Sound(s, res.x, res.mem),
         NEW at \in Nat, NEW data \in Seq(STRING)
  PROVE  LET out == Fill(res, at, data)
         IN /\ Sound(s, out.x, out.mem)
            /\ out.x = WithText(res.x, at + Len(data))
            /\ out.end = at + Len(data) + res.x.nt
<1> DEFINE x == res.x
           tail == IF x.nt = 1 THEN Append(data, Zero) ELSE data
           y == [x EXCEPT !.w = at + Len(data), !.r = 0, !.init = 1]
           m == IF x.buf = NoBlock THEN res.mem
                ELSE [res.mem EXCEPT ![x.buf] = Store(@, x.off + at, tail)]
<1>1. Fill(res, at, data) = [x |-> y, mem |-> m, end |-> at + Len(tail)]
  BY DEF Fill
<1>2. x \in Struct /\ res.mem \in Heap /\ x.nt \in {0, 1} /\ x.off \in Nat /\ Len(data) \in Nat
  BY DEF Sound, Struct
<1>3. tail \in Seq(STRING) /\ Len(tail) = Len(data) + x.nt
  <2>1. CASE x.nt = 1
    BY <2>1, TextAssumption, AppendProperties
  <2>2. CASE x.nt = 0
    BY <2>2, <1>2
  <2> QED
    BY <1>2, <2>1, <2>2
<1>4. y \in Struct /\ y.buf = x.buf /\ y.size = x.size /\ y.alloc = x.alloc /\ y.off = x.off
  <2>1. at + Len(data) \in Nat
    BY <1>2
  <2> HIDE DEF x
  <2> QED
    BY <1>2, <2>1 DEF Struct
<1>5. m \in Heap /\ \A c \in AllBlocks : Len(m[c]) = Len(res.mem[c])
  <2> HIDE DEF tail
  <2>1. CASE x.buf = NoBlock
    BY <1>2, <2>1
  <2>2. CASE x.buf # NoBlock
    <3>1. x.buf \in AllBlocks /\ res.mem[x.buf] \in Seq(STRING)
      BY <1>2, <2>2 DEF Struct, Heap
    <3> DEFINE new == Store(res.mem[x.buf], x.off + at, tail)
    <3>2. new \in Seq(STRING) /\ Len(new) = Len(res.mem[x.buf])
      BY <1>2, <1>3, <3>1, StoreKeeps
    <3>3. m = [res.mem EXCEPT ![x.buf] = new]
      BY <2>2
    <3> HIDE DEF new, m
    <3> QED
      BY <1>2, <3>1, <3>2, <3>3 DEF Heap
  <2> QED
    BY <2>1, <2>2
<1>6. Sound(s, y, m)
  <2> HIDE DEF y, m
  <2> QED
    BY <1>4, <1>5 DEF Sound, AllBlocks
<1> QED
  BY <1>1, <1>2, <1>3, <1>6 DEF WithText

\* Every struct is sound where it is.
LEMMA OwnSound ==
  ASSUME StringInv, NEW s \in Strings
  PROVE  Sound(s, str[s], mem)
  BY DEF StringInv, TypeOK, OwnersApart, Sound, Heap

\* Blocks that malloc returns are fresh.
LEMMA FreshIsFresh ==
  ASSUME NEW needed, NEW b \in Fresh(needed)
  PROVE  IsFresh(b) /\ (~needed => b = NoBlock)
  BY DEF Fresh, IsFresh

\* An operation whose result is sound, and fits unless a malloc failed, keeps
\* the invariant.
LEMMA BecomesInv ==
  ASSUME StringInv, overrun = "no", NEW s \in Strings, NEW res, Becomes(s, res),
         Sound(s, res.x, res.mem), res.x.init = 0 => res.x.size = 0,
         overrun' \in {"no", "exhausted"}, overrun' = "no" => Fits(res.x)
  PROVE  StringInv'
<1>1. /\ str \in [Strings -> Struct] /\ res.x \in Struct
      /\ str' = [str EXCEPT ![s] = res.x] /\ mem' = res.mem
  BY DEF StringInv, TypeOK, Becomes, Sound
<1>2. /\ str'[s] = res.x
      /\ \A t \in Strings \ {s} : str'[t] = str[t]
  BY <1>1
<1>3. TypeOK'
  BY <1>1 DEF TypeOK, Sound, Heap
<1>4. InBounds'
  BY <1>2 DEF StringInv, InBounds, Fits
<1>5. OwnersApart'
  <2>1. OwnersApart
    BY DEF StringInv
  <2>2. ASSUME NEW t \in Strings, str'[t].alloc = 1
        PROVE  /\ str'[t].buf \in Blocks /\ str'[t].off = 0 /\ str'[t].size > 0
               /\ Len(mem'[str'[t].buf]) = str'[t].size
    BY <1>1, <1>2, <2>1, <2>2 DEF OwnersApart, Sound
  <2>3. ASSUME NEW t \in Strings, NEW u \in Strings \ {t},
               str'[t].alloc = 1, str'[u].alloc = 1
        PROVE  str'[u].buf # str'[t].buf
    BY <1>2, <2>1, <2>3 DEF OwnersApart, Sound
  <2> QED
    BY <2>2, <2>3 DEF OwnersApart
<1>6. (\A t \in Strings : str[t].init = 0 => str[t].size = 0)'
  BY <1>2 DEF StringInv
<1> QED
  BY <1>3, <1>4, <1>5, <1>6 DEF StringInv

\* The same for an operation that may call malloc, whose characters go past
\* the buffer only when malloc was needed and failed.
LEMMA AllocatesInv ==
  ASSUME StringInv, overrun = "no", NEW s \in Strings, NEW needed, NEW b, NEW res,
         Becomes(s, res), Sound(s, res.x, res.mem), res.x.init = 0 => res.x.size = 0,
         overrun' = IF res.end <= res.x.size THEN "no"
                    ELSE IF needed /\ b = NoBlock THEN "exhausted" ELSE "yes",
         res.end <= res.x.size => Fits(res.x),
         res.end > res.x.size => needed /\ b = NoBlock,
         res.end \in Nat
  PROVE  StringInv'
<1>1. res.x.size \in Nat
  BY DEF Sound, Struct
<1>2. overrun' \in {"no", "exhausted"} /\ (overrun' = "no" => Fits(res.x))
  BY <1>1
<1> QED
  BY <1>2, BecomesInv

\* stringaa_copy_chars_size: sound, and past the buffer only without memory.
LEMMA CopySound ==
  ASSUME NEW s \in Strings, NEW x, Sound(s, x, mem), NEW data \in Seq(STRING),
         NEW b, IsFresh(b)
  PROVE  LET res == CopyInto(x, data, b)
         IN /\ Sound(s, res.x, res.mem)
            /\ res.x.w = Len(data) /\ res.x.init = 1
            /\ res.end = Len(data) + res.x.nt
            /\ res.end > res.x.size => CopyNeeds(x, Len(data)) /\ b = NoBlock
<1> DEFINE n == Len(data)
           mid == IF x.alloc = 0 \/ x.size <= n + 1 THEN stringaa_malloc(x, n + 1, b)
                  ELSE Same(x)
           res == CopyInto(x, data, b)
<1>1. n \in Nat /\ n + 1 \in Nat
  OBVIOUS
<1>2. res = Fill(mid, 0, data)
  BY DEF CopyInto
<1>3. x \in Struct /\ x.size \in Nat /\ x.nt \in {0, 1} /\ x.alloc \in {0, 1}
  BY DEF Sound, Struct
<1>4. /\ Sound(s, mid.x, mid.mem)
      /\ n + mid.x.nt > mid.x.size => CopyNeeds(x, n) /\ b = NoBlock
  <2>1. CASE CopyNeeds(x, n) /\ b # NoBlock
    <3>1. mid = stringaa_malloc(x, n + 1, b) /\ NeedsMalloc(x, n + 1)
      BY <2>1 DEF CopyNeeds
    <3> HIDE DEF n, mid
    <3>2. Sound(s, mid.x, mid.mem) /\ mid.x.size = n + 1 /\ mid.x.nt = 1
      BY <1>1, <2>1, <3>1, MallocSound
    <3> QED
      BY <1>1, <3>2
  <2>2. CASE ~(CopyNeeds(x, n) /\ b # NoBlock)
    <3>1. mid = Same(x)
      BY <1>1, <2>2, MallocSound DEF CopyNeeds
    <3>2. mid.x = x /\ mid.mem = mem
      BY <3>1 DEF Same
    <3>3. ~CopyNeeds(x, n) => n + 1 <= x.size
      BY <1>1, <1>3 DEF CopyNeeds, NeedsMalloc
    <3> HIDE DEF n, mid
    <3> QED
      BY <1>1, <1>3, <2>2, <3>2, <3>3
  <2> QED
    BY <2>1, <2>2
<1> HIDE DEF mid, res
<1>5. /\ Sound(s, res.x, res.mem)
      /\ res.x = WithText(mid.x, 0 + n)
      /\ res.end = 0 + n + mid.x.nt
  <2>1. 0 \in Nat /\ data \in Seq(STRING)
    OBVIOUS
  <2> QED
    BY <1>2, <1>4, <2>1, FillSound
<1>6. mid.x \in Struct
  BY <1>4 DEF Sound
<1>7. res.x.w = n /\ res.x.init = 1 /\ res.x.nt = mid.x.nt /\ res.x.size = mid.x.size
  BY <1>1, <1>5, <1>6 DEF Struct, WithText
<1> QED
  BY <1>1, <1>4, <1>5, <1>6, <1>7 DEF res, Struct

\* stringaa_add_chars_size: likewise.
LEMMA AddSound ==
  ASSUME NEW s \in Strings, NEW x, Sound(s, x, mem), Fits(x),
         NEW data \in Seq(STRING), NEW b, IsFresh(b)
  PROVE  LET res == AddInto(x, data, b)
         IN /\ Sound(s, res.x, res.mem)
            /\ res.x.init = 1
            /\ res.end = res.x.w + res.x.nt /\ res.end \in Nat /\ res.end >= Len(data)
            /\ res.end > res.x.size =>
                 AddNeeds(x, Len(data)) /\ NeedsRealloc(x, x.w + Len(data) + 1) /\ b = NoBlock
<1> DEFINE n == Len(data)
           mid == IF AddNeeds(x, n) THEN stringaa_realloc(x, x.w + n + 1, b) ELSE Same(x)
           res == AddInto(x, data, b)
<1>1. n \in Nat
  OBVIOUS
<1>2. res = Fill(mid, mid.x.w, data)
  BY DEF AddInto
<1>3. /\ x \in Struct /\ x.size \in Nat /\ x.nt \in {0, 1} /\ x.alloc \in {0, 1}
      /\ x.w \in Nat /\ x.w + n + 1 \in Nat /\ x.w + x.nt <= x.size
  BY DEF Sound, Struct, Fits
<1>4. /\ Sound(s, mid.x, mid.mem)
      /\ mid.x.w + n + mid.x.nt > mid.x.size =>
           AddNeeds(x, n) /\ NeedsRealloc(x, x.w + n + 1) /\ b = NoBlock
  <2>1. CASE AddNeeds(x, n) /\ NeedsRealloc(x, x.w + n + 1) /\ b # NoBlock
    <3> DEFINE k == x.w + n + 1
    <3>1. mid = stringaa_realloc(x, k, b) /\ k \in Nat
      BY <1>3, <2>1
    <3>a. NeedsRealloc(x, k) /\ b # NoBlock
      BY <2>1
    <3> HIDE DEF n, mid, k
    <3>2. /\ Sound(s, mid.x, mid.mem)
          /\ mid.x = Grown(x, k, b)
          /\ ReallocW(x) \in Nat /\ ReallocW(x) <= x.w
      BY <3>1, <3>a, ReallocSound
    <3>3. mid.x.w = ReallocW(x) /\ mid.x.nt = x.nt /\ mid.x.size = k + 1 - x.nt
      BY <1>3, <3>2 DEF Struct, Grown
    <3> QED
      BY <1>1, <1>3, <3>2, <3>3 DEF k
  <2>2. CASE ~(AddNeeds(x, n) /\ NeedsRealloc(x, x.w + n + 1) /\ b # NoBlock)
    <3>1. mid = Same(x)
      <4>1. CASE AddNeeds(x, n)
        <5>1. ~(NeedsRealloc(x, x.w + n + 1) /\ b # NoBlock)
          BY <2>2, <4>1
        <5>2. stringaa_realloc(x, x.w + n + 1, b) = Same(x)
          BY <1>3, <5>1, ReallocSound
        <5> QED
          BY <4>1, <5>2
      <4>2. CASE ~AddNeeds(x, n)
        BY <4>2
      <4> QED
        BY <4>1, <4>2
    <3>2. mid.x = x /\ mid.mem = mem
      BY <3>1 DEF Same
    <3>3. ~(AddNeeds(x, n) /\ NeedsRealloc(x, x.w + n + 1)) => x.w + n + 1 <= x.size
      BY <1>1, <1>3 DEF AddNeeds, NeedsRealloc
    <3> HIDE DEF n, mid
    <3> QED
      BY <1>1, <1>3, <2>2, <3>2, <3>3
  <2> QED
    BY <2>1, <2>2
<1> HIDE DEF mid, res
<1>6. mid.x \in Struct /\ mid.x.w \in Nat /\ mid.x.nt \in {0, 1}
  BY <1>4 DEF Sound, Struct
<1>5. /\ Sound(s, res.x, res.mem)
      /\ res.x = WithText(mid.x, mid.x.w + n)
      /\ res.end = mid.x.w + n + mid.x.nt
  BY <1>2, <1>4, <1>6, FillSound
<1>7. /\ res.x.w = mid.x.w + n /\ res.x.init = 1
      /\ res.x.nt = mid.x.nt /\ res.x.size = mid.x.size
  BY <1>1, <1>5, <1>6 DEF Struct, WithText
<1> QED
  BY <1>1, <1>4, <1>5, <1>6, <1>7 DEF res

\* The bytes that are read of a string are a sequence of bytes.
LEMMA BytesType ==
  ASSUME NEW s \in Strings, NEW x, Sound(s, x, mem), NEW from \in Nat, NEW to \in Nat,
         from <= to
  PROVE  Bytes(x, from, to) \in Seq(STRING) /\ Len(Bytes(x, from, to)) = to - from
<1>1. to - from \in Nat
  OBVIOUS
<1>2. \A i \in 1..to - from : ByteAt(x, from + i) \in STRING
  BY ByteIsByte
<1>3. Bytes(x, from, to) \in [1..to - from -> STRING]
  BY <1>2 DEF Bytes
<1> QED
  BY <1>1, <1>3, TableIsSeq

\* stringaa_init
LEMMA InitInv ==
  ASSUME StringInv, overrun = "no", NEW s \in Strings, NEW n \in Nat, stringaa_init(s, n)
  PROVE  StringInv'
<1> DEFINE Res(b) == [stringaa_malloc(Cleared, n, b) EXCEPT
                        !.x.init = IF n = 0 \/ b # NoBlock THEN 1 ELSE 0]
<1>1. PICK b \in Fresh(n > 0) :
        /\ Becomes(s, Res(b))
        /\ overrun' = IF Res(b).end <= Res(b).x.size THEN "no"
                      ELSE IF (n > 0) /\ b = NoBlock THEN "exhausted" ELSE "yes"
  BY DEF stringaa_init, Allocates
<1>2. IsFresh(b) /\ Sound(s, Cleared, mem)
  BY <1>1, FreshIsFresh, OwnSound, ClearedSound
<1> DEFINE mid == stringaa_malloc(Cleared, n, b)
<1>3. /\ Sound(s, mid.x, mid.mem)
      /\ Fits(mid.x) /\ mid.end = 0
      /\ b = NoBlock => mid.x.size = 0
      /\ mid = [x |-> mid.x, mem |-> mid.mem, end |-> mid.end]
  <2>1. CASE NeedsMalloc(Cleared, n) /\ b # NoBlock
    <3>1. mid = [x |-> [Cleared EXCEPT !.buf = b, !.size = n, !.alloc = 1, !.nt = 1],
                 mem |-> [Freed(Cleared) EXCEPT ![b] = [i \in 1..n |-> Zero]], end |-> 0]
      BY <2>1 DEF stringaa_malloc
    <3>2. Sound(s, mid.x, mid.mem)
      BY <1>2, MallocSound
    <3>3. mid.x.w = 0 /\ mid.x.nt = 1 /\ mid.x.size = n /\ n > 0
      <4>1. mid.x = [Cleared EXCEPT !.buf = b, !.size = n, !.alloc = 1, !.nt = 1]
        BY <3>1
      <4>2. Cleared \in Struct /\ Cleared.w = 0
        BY DEF Cleared, Struct
      <4> HIDE DEF mid
      <4> QED
        BY <2>1, <4>1, <4>2 DEF Struct, NeedsMalloc
    <3>4. mid = [x |-> mid.x, mem |-> mid.mem, end |-> mid.end] /\ mid.end = 0
      BY <3>1
    <3> HIDE DEF mid
    <3> QED
      BY <2>1, <3>2, <3>3, <3>4 DEF Fits
  <2>2. CASE ~(NeedsMalloc(Cleared, n) /\ b # NoBlock)
    <3>1. mid = [x |-> Cleared, mem |-> mem, end |-> 0]
      BY <2>2 DEF stringaa_malloc, Same
    <3> QED
      BY <1>2, <3>1 DEF Cleared, Fits
  <2> QED
    BY <2>1, <2>2
<1>4. mid.x \in Struct
  BY <1>3 DEF Sound
<1> DEFINE y == [mid.x EXCEPT !.init = IF n = 0 \/ b # NoBlock THEN 1 ELSE 0]
<1>5. Res(b).x = y /\ Res(b).mem = mid.mem /\ Res(b).end = 0
  BY <1>3, <1>4 DEF Struct
<1> HIDE DEF mid, Res
<1>6. /\ y \in Struct /\ y.alloc = mid.x.alloc /\ y.size = mid.x.size /\ y.buf = mid.x.buf
      /\ y.off = mid.x.off /\ y.w = mid.x.w /\ y.nt = mid.x.nt
      /\ y.init = IF n = 0 \/ b # NoBlock THEN 1 ELSE 0
  BY <1>4 DEF Struct
<1> HIDE DEF y
<1>7. Sound(s, y, mid.mem) /\ Fits(y) /\ (y.init = 0 => y.size = 0)
  BY <1>3, <1>6 DEF Sound, Fits
<1>8. y.size \in Nat /\ 0 <= y.size
  BY <1>6 DEF Struct
<1>9. overrun' = "no"
  BY <1>1, <1>5, <1>8
<1> QED
  BY <1>1, <1>5, <1>7, <1>9, BecomesInv

\* stringaa_copy_chars
LEMMA CopyCharsInv ==
  ASSUME StringInv, overrun = "no", NEW s \in Strings, NEW data \in Seq(STRING),
         stringaa_copy_chars(s, data)
  PROVE  StringInv'
<1> DEFINE x == str[s]
           needed == CopyNeeds(x, Len(data))
           Res(b) == CopyInto(x, data, b)
<1>1. PICK b \in Fresh(needed) :
        /\ Becomes(s, Res(b))
        /\ overrun' = IF Res(b).end <= Res(b).x.size THEN "no"
                      ELSE IF needed /\ b = NoBlock THEN "exhausted" ELSE "yes"
  BY DEF stringaa_copy_chars, Allocates
<1>2. IsFresh(b) /\ Sound(s, x, mem)
  BY <1>1, FreshIsFresh, OwnSound
<1> DEFINE res == Res(b)
<1>3. /\ Sound(s, res.x, res.mem)
      /\ res.x.w = Len(data) /\ res.x.init = 1
      /\ res.end = Len(data) + res.x.nt
      /\ res.end > res.x.size => needed /\ b = NoBlock
  BY <1>2, CopySound
<1> HIDE DEF Res, needed
<1>4. res.end \in Nat /\ (res.end <= res.x.size => Fits(res.x))
  BY <1>3 DEF Sound, Struct, Fits
<1>5. /\ Becomes(s, res)
      /\ overrun' = IF res.end <= res.x.size THEN "no"
                    ELSE IF needed /\ b = NoBlock THEN "exhausted" ELSE "yes"
  BY <1>1
<1>6. res.x.init = 0 => res.x.size = 0
  BY <1>3
<1> HIDE DEF res
<1> QED
  BY <1>3, <1>4, <1>5, <1>6, AllocatesInv

\* stringaa_copy: the write position of s2 is not behind what was copied.
LEMMA CopyInv ==
  ASSUME StringInv, overrun = "no", NEW s1 \in Strings, NEW s2 \in Strings,
         stringaa_copy(s1, s2)
  PROVE  StringInv'
<1> DEFINE x == str[s1]
           y == str[s2]
           n == y.size - y.nt
           lost(b) == CopyNeeds(x, n) /\ b # NoBlock /\ x.alloc = 1 /\ y.buf = x.buf
           data(b) == IF lost(b) THEN [i \in 1..n |-> Junk] ELSE Bytes(y, 0, n)
           Res(b) == [CopyInto(x, data(b), b) EXCEPT !.x.w = y.w]
           needed == CopyNeeds(x, n)
<1>1. PICK b \in Fresh(needed) :
        /\ Becomes(s1, Res(b))
        /\ overrun' = IF Res(b).end <= Res(b).x.size THEN "no"
                      ELSE IF needed /\ b = NoBlock THEN "exhausted" ELSE "yes"
  BY DEF stringaa_copy, Allocates
<1>2. IsFresh(b) /\ Sound(s1, x, mem) /\ Sound(s2, y, mem)
  BY <1>1, FreshIsFresh, OwnSound
<1>3. Fits(y) /\ y \in Struct
  BY <1>2 DEF StringInv, InBounds, Sound
<1>4. n \in Nat /\ y.w \in Nat /\ y.w <= n /\ y.nt \in {0, 1}
  BY <1>3 DEF Fits, Struct
<1>5. data(b) \in Seq(STRING) /\ Len(data(b)) = n
  <2>1. CASE lost(b)
    <3>1. [i \in 1..n |-> Junk] \in [1..n -> STRING]
      BY TextAssumption
    <3>2. [i \in 1..n |-> Junk] \in Seq(STRING) /\ Len([i \in 1..n |-> Junk]) = n
      BY <1>4, <3>1, TableIsSeq
    <3> QED
      BY <2>1, <3>2
  <2>2. CASE ~lost(b)
    <3>1. Bytes(y, 0, n) \in Seq(STRING) /\ Len(Bytes(y, 0, n)) = n - 0
      <4>1. 0 \in Nat /\ 0 <= n
        BY <1>4
      <4> HIDE DEF y, n
      <4> QED
        BY <1>2, <1>4, <4>1, BytesType
    <3> QED
      BY <1>4, <2>2, <3>1
  <2> QED
    BY <2>1, <2>2
<1> DEFINE d == data(b)
           mid == CopyInto(x, d, b)
<1>6. d \in Seq(STRING) /\ Len(d) = n /\ Res(b) = [mid EXCEPT !.x.w = y.w]
  BY <1>5
<1>7. mid = [x |-> mid.x, mem |-> mid.mem, end |-> mid.end]
  BY DEF CopyInto, Fill
<1> HIDE DEF d, mid
<1>8. /\ Sound(s1, mid.x, mid.mem)
      /\ mid.x.init = 1 /\ mid.end = n + mid.x.nt
      /\ mid.end > mid.x.size => needed /\ b = NoBlock
  BY <1>2, <1>6, CopySound DEF mid
<1> HIDE DEF Res, needed, x, y, n
<1> DEFINE z == [mid.x EXCEPT !.w = y.w]
<1>9. Res(b).x = z /\ Res(b).mem = mid.mem /\ Res(b).end = mid.end /\ mid.x \in Struct
  BY <1>6, <1>7, <1>8 DEF Sound, Struct
<1>10. /\ z \in Struct /\ z.alloc = mid.x.alloc /\ z.size = mid.x.size /\ z.buf = mid.x.buf
       /\ z.off = mid.x.off /\ z.w = y.w /\ z.nt = mid.x.nt /\ z.init = mid.x.init
  BY <1>4, <1>9 DEF Struct
<1> HIDE DEF z
<1>11. Sound(s1, z, mid.mem)
  BY <1>8, <1>10 DEF Sound
<1>12. /\ mid.end \in Nat /\ z.size \in Nat
       /\ mid.end <= z.size => Fits(z)
  BY <1>4, <1>8, <1>9, <1>10 DEF Struct, Fits
<1> DEFINE res == Res(b)
<1>13. /\ Becomes(s1, res) /\ Sound(s1, res.x, res.mem) /\ (res.x.init = 0 => res.x.size = 0)
       /\ overrun' = IF res.end <= res.x.size THEN "no"
                      ELSE IF needed /\ b = NoBlock THEN "exhausted" ELSE "yes"
       /\ res.end <= res.x.size => Fits(res.x)
       /\ res.end > res.x.size => needed /\ b = NoBlock
       /\ res.end \in Nat
  BY <1>1, <1>8, <1>9, <1>10, <1>11, <1>12
<1> HIDE DEF res
<1> QED
  BY <1>13, AllocatesInv

\* stringaa_add_chars
LEMMA AddCharsInv ==
  ASSUME StringInv, overrun = "no", NEW s \in Strings, NEW data \in Seq(STRING),
         stringaa_add_chars(s, data)
  PROVE  StringInv'
<1> DEFINE x == str[s]
           needed == AddNeeds(x, Len(data)) /\ NeedsRealloc(x, x.w + Len(data) + 1)
           Res(b) == AddInto(x, data, b)
<1>1. PICK b \in Fresh(needed) :
        /\ Becomes(s, Res(b))
        /\ overrun' = IF Res(b).end <= Res(b).x.size THEN "no"
                      ELSE IF needed /\ b = NoBlock THEN "exhausted" ELSE "yes"
  BY DEF stringaa_add_chars, Allocates
<1>2. IsFresh(b) /\ Sound(s, x, mem) /\ Fits(x)
  BY <1>1, FreshIsFresh, OwnSound DEF StringInv, InBounds
<1> DEFINE res == Res(b)
<1>3. /\ Sound(s, res.x, res.mem) /\ res.x.init = 1
      /\ res.end = res.x.w + res.x.nt /\ res.end \in Nat
      /\ res.end > res.x.size => needed /\ b = NoBlock
  BY <1>2, AddSound
<1> HIDE DEF Res, needed
<1>4. res.end <= res.x.size => Fits(res.x)
  BY <1>3 DEF Fits
<1>5. /\ Becomes(s, res)
      /\ overrun' = IF res.end <= res.x.size THEN "no"
                    ELSE IF needed /\ b = NoBlock THEN "exhausted" ELSE "yes"
  BY <1>1
<1>6. res.x.init = 0 => res.x.size = 0
  BY <1>3
<1> HIDE DEF res
<1> QED
  BY <1>3, <1>4, <1>5, <1>6, AllocatesInv

\* stringaa_add
LEMMA AddInv ==
  ASSUME StringInv, overrun = "no", NEW s1 \in Strings, NEW s2 \in Strings,
         stringaa_add(s1, s2)
  PROVE  StringInv'
<1> DEFINE y == str[s2]
<1>1. Sound(s2, y, mem) /\ y.r \in Nat /\ y.w \in Nat
  BY OwnSound DEF Sound, Struct
<1>2. y.r < y.w /\ stringaa_add_chars(s1, Bytes(y, y.r, y.w))
  BY DEF stringaa_add
<1>3. Bytes(y, y.r, y.w) \in Seq(STRING)
  BY <1>1, <1>2, BytesType
<1> QED
  BY <1>2, <1>3, AddCharsInv

\* A struct that owns nothing takes the place of one whose buffer is freed.
LEMMA UnownedInv ==
  ASSUME StringInv, overrun = "no", NEW s \in Strings, NEW x \in Struct,
         x.alloc = 0, Fits(x), x.init = 0 => x.size = 0,
         Sets(s, [x |-> x, mem |-> Freed(str[s]), end |-> 0])
  PROVE  StringInv'
<1> DEFINE res == [x |-> x, mem |-> Freed(str[s]), end |-> 0]
<1>1. res.x = x /\ res.mem = Freed(str[s])
  OBVIOUS
<1>2. Becomes(s, res) /\ overrun' = "no"
  BY DEF Sets
<1>3. Sound(s, str[s], mem)
  BY OwnSound
<1>4. Sound(s, x, Freed(str[s]))
  BY <1>3, FreedSound DEF Sound
<1> HIDE DEF res
<1> QED
  BY <1>1, <1>2, <1>4, BecomesInv

\* stringaa_set_chars and stringaa_free
LEMMA SetCharsInv ==
  ASSUME StringInv, overrun = "no", NEW s \in Strings, stringaa_set_chars(s)
  PROVE  StringInv'
<1> DEFINE x == [Cleared EXCEPT !.buf = Literal, !.size = Len(LiteralText) + 1,
                                !.w = Len(LiteralText), !.init = 1, !.nt = 1]
<1>1. Sets(s, [x |-> x, mem |-> Freed(str[s]), end |-> 0])
  BY DEF stringaa_set_chars
<1>2. Len(LiteralText) \in Nat
  BY TextAssumption
<1>3. Cleared \in Struct /\ Cleared.alloc = 0
  BY DEF Cleared, Struct
<1>4. /\ x \in Struct /\ x.alloc = 0 /\ x.init = 1
      /\ x.w = Len(LiteralText) /\ x.nt = 1 /\ x.size = Len(LiteralText) + 1
  <2> DEFINE n == Len(LiteralText)
             m == n + 1
  <2>1. n \in Nat /\ m \in Nat
    BY <1>2
  <2>2. x = [Cleared EXCEPT !.buf = Literal, !.size = m, !.w = n, !.init = 1, !.nt = 1]
    OBVIOUS
  <2> HIDE DEF n, m, x
  <2>3. /\ x \in Struct /\ x.alloc = 0 /\ x.init = 1
        /\ x.w = n /\ x.nt = 1 /\ x.size = m
    BY <1>3, <2>1, <2>2 DEF Struct, AllBlocks
  <2> QED
    BY <2>3 DEF n, m
<1> HIDE DEF x
<1>5. Fits(x)
  BY <1>2, <1>4 DEF Fits
<1> QED
  BY <1>1, <1>4, <1>5, UnownedInv

LEMMA FreeInv ==
  ASSUME StringInv, overrun = "no", NEW s \in Strings, stringaa_free(s)
  PROVE  StringInv'
<1>1. Cleared \in Struct /\ Cleared.alloc = 0 /\ Cleared.size = 0 /\ Fits(Cleared)
  BY DEF Cleared, Struct, Fits
<1> QED
  BY <1>1, UnownedInv DEF stringaa_free

\* stringaa_set_chars_size and stringaa_set_substring: a link owns nothing.
LEMMA LinkInv ==
  ASSUME StringInv, overrun = "no", NEW s \in Strings, NEW y \in Struct,
         NEW pos1 \in Nat, NEW pos2 \in Nat, pos1 <= pos2,
         Sets(s, Link(str[s], y, pos1, pos2))
  PROVE  StringInv'
<1> DEFINE x == [Cleared EXCEPT !.buf = y.buf, !.off = y.off + pos1,
                                !.size = pos2 - pos1, !.w = pos2 - pos1, !.init = 1]
<1>1. Sets(s, [x |-> x, mem |-> Freed(str[s]), end |-> 0])
  BY DEF Link
<1>2. pos2 - pos1 \in Nat /\ y.off + pos1 \in Nat /\ y.buf \in AllBlocks \cup {NoBlock}
  BY DEF Struct
<1>3. Cleared \in Struct /\ Cleared.alloc = 0 /\ Cleared.nt = 0
  BY DEF Cleared, Struct
<1>4. /\ x \in Struct /\ x.alloc = 0 /\ x.init = 1
      /\ x.w = pos2 - pos1 /\ x.nt = 0 /\ x.size = pos2 - pos1
  <2> DEFINE n == pos2 - pos1
             o == y.off + pos1
             c == y.buf
  <2>1. n \in Nat /\ o \in Nat /\ c \in AllBlocks \cup {NoBlock}
    BY <1>2
  <2>2. x = [Cleared EXCEPT !.buf = c, !.off = o, !.size = n, !.w = n, !.init = 1]
    OBVIOUS
  <2> HIDE DEF n, o, c, x
  <2>3. /\ x \in Struct /\ x.alloc = 0 /\ x.init = 1
        /\ x.w = n /\ x.nt = 0 /\ x.size = n
    BY <1>3, <2>1, <2>2 DEF Struct
  <2> QED
    BY <2>3 DEF n
<1> HIDE DEF x
<1>5. Fits(x)
  BY <1>2, <1>4 DEF Fits
<1> QED
  BY <1>1, <1>4, <1>5, UnownedInv

LEMMA LinksInv ==
  ASSUME StringInv, overrun = "no", NEW s \in Strings,
         \/ \E n \in 1..Len(LiteralText) : stringaa_set_chars_size(s, n)
         \/ \E s2 \in Strings, pos1 \in 0..MaxSize, pos2 \in 0..MaxSize :
              stringaa_set_substring(s, s2, pos1, pos2)
  PROVE  StringInv'
<1>1. CASE \E n \in 1..Len(LiteralText) : stringaa_set_chars_size(s, n)
  <2> DEFINE y == [Cleared EXCEPT !.buf = Literal]
  <2>1. PICK n \in 1..Len(LiteralText) : Sets(s, Link(str[s], y, 0, n))
    BY <1>1 DEF stringaa_set_chars_size
  <2>2. Cleared \in Struct
    BY DEF Cleared, Struct
  <2>3. y \in Struct
    BY <2>2 DEF Struct, AllBlocks
  <2>4. n \in Nat /\ 0 <= n /\ 0 \in Nat
    BY <2>1, TextAssumption
  <2> HIDE DEF y
  <2> QED
    BY <2>1, <2>3, <2>4, LinkInv
<1>2. CASE \E s2 \in Strings, pos1 \in 0..MaxSize, pos2 \in 0..MaxSize :
             stringaa_set_substring(s, s2, pos1, pos2)
  <2>1. PICK s2 \in Strings, pos1 \in 0..MaxSize, pos2 \in 0..MaxSize :
               pos1 < pos2 /\ Sets(s, Link(str[s], str[s2], pos1, pos2))
    BY <1>2 DEF stringaa_set_substring
  <2>2. str[s2] \in Struct /\ pos1 \in Nat /\ pos2 \in Nat /\ pos1 <= pos2
    BY <2>1, SizeAssumption DEF StringInv, TypeOK
  <2> QED
    BY <2>1, <2>2, LinkInv
<1> QED
  BY <1>1, <1>2

\* stringaa_set_char
LEMMA SetCharInv ==
  ASSUME StringInv, NEW s \in Strings, NEW c \in STRING, stringaa_set_char(s, c)
  PROVE  StringInv'
<1> DEFINE x == str[s]
           new == Store(mem[x.buf], x.off + x.w, <<c>>)
<1>1. UNCHANGED <<str, overrun>> /\ mem' = [mem EXCEPT ![x.buf] = new]
  BY DEF stringaa_set_char
<1>2. x \in Struct /\ mem \in Heap
  BY DEF StringInv, TypeOK, Heap
<1>3. mem' \in Heap /\ \A b \in AllBlocks : Len(mem'[b]) = Len(mem[b])
  <2>1. CASE x.buf \in AllBlocks
    <3>1. mem[x.buf] \in Seq(STRING) /\ x.off + x.w \in Nat /\ <<c>> \in Seq(STRING)
      BY <1>2, <2>1 DEF Heap, Struct
    <3>2. new \in Seq(STRING) /\ Len(new) = Len(mem[x.buf])
      BY <3>1, StoreKeeps
    <3> HIDE DEF new, x
    <3> QED
      BY <1>1, <1>2, <2>1, <3>2 DEF Heap
  <2>2. CASE x.buf \notin AllBlocks
    <3> HIDE DEF new, x
    <3> QED
      BY <1>1, <1>2, <2>2 DEF Heap
  <2> QED
    BY <2>1, <2>2
<1>4. TypeOK'
  BY <1>1, <1>3 DEF StringInv, TypeOK, Heap
<1>5. OwnersApart'
  BY <1>1, <1>3 DEF StringInv, OwnersApart, AllBlocks
<1> QED
  BY <1>1, <1>4, <1>5 DEF StringInv, InBounds, Fits

\* A struct whose positions move keeps its buffer.
LEMMA MovedInv ==
  ASSUME StringInv, overrun = "no", NEW s \in Strings, NEW r \in Nat, NEW w \in Nat,
         w + str[s].nt <= str[s].size,
         str' = [str EXCEPT ![s] = [str[s] EXCEPT !.r = r, !.w = w]],
         UNCHANGED <<mem, overrun>>
  PROVE  StringInv'
<1> DEFINE x == str[s]
           y == [x EXCEPT !.r = r, !.w = w]
<1>1. x \in Struct /\ str \in [Strings -> Struct]
  BY DEF StringInv, TypeOK
<1>2. /\ y \in Struct /\ y.alloc = x.alloc /\ y.size = x.size /\ y.buf = x.buf
      /\ y.off = x.off /\ y.w = w /\ y.nt = x.nt /\ y.init = x.init
  BY <1>1 DEF Struct
<1>3. str'[s] = y /\ \A t \in Strings \ {s} : str'[t] = str[t]
  BY <1>1
<1> HIDE DEF y
<1>4. TypeOK'
  BY <1>1, <1>2 DEF StringInv, TypeOK, y
<1>5. InBounds'
  BY <1>2, <1>3 DEF StringInv, InBounds, Fits
<1>6. OwnersApart'
  BY <1>2, <1>3 DEF StringInv, OwnersApart
<1> QED
  BY <1>2, <1>3, <1>4, <1>5, <1>6 DEF StringInv

\* The position operations and stringaa_is_chari
LEMMA MovesInv ==
  ASSUME StringInv, overrun = "no", NEW s \in Strings, Move(s) \/ stringaa_is_chari(s)
  PROVE  StringInv'
<1> DEFINE x == str[s]
<1>1. /\ x \in Struct /\ x.r \in Nat /\ x.w \in Nat /\ x.size \in Nat /\ x.nt \in {0, 1}
      /\ x.w + x.nt <= x.size /\ str \in [Strings -> Struct]
  BY DEF StringInv, TypeOK, InBounds, Fits, Struct
<1>2. \E r \in Nat, w \in Nat :
        w + x.nt <= x.size /\ str' = [str EXCEPT ![s] = [x EXCEPT !.r = r, !.w = w]]
  <2>1. CASE stringaa_is_chari(s)
    <3>1. str' = [str EXCEPT ![s] = [x EXCEPT !.r = x.r + 1]]
      BY <1>1, <2>1 DEF stringaa_is_chari
    <3>2. [x EXCEPT !.r = x.r + 1] = [x EXCEPT !.r = x.r + 1, !.w = x.w]
      BY <1>1 DEF Struct
    <3>3. x.r + 1 \in Nat
      BY <1>1
    <3> HIDE DEF x
    <3> QED
      BY <1>1, <3>1, <3>2, <3>3
  <2>2. CASE Move(s)
    <3>1. PICK y \in Moves(x) : str' = [str EXCEPT ![s] = y]
      BY <2>2 DEF Move
    <3> DEFINE Rs == {next_read_pos(x.r, x.w), prev_read_pos(x.r, x.w), 0, end_read_pos(x.w)}
               Ws == {next_write_pos(x.w, x.nt, x.size), prev_write_pos(x.w, x.nt, x.size),
                      0, end_write_pos(x.nt, x.size)}
    <3>2. \/ \E r \in Rs : y = [x EXCEPT !.r = r]
          \/ \E w \in Ws : y = [x EXCEPT !.w = w]
          \/ y = [x EXCEPT !.r = 0, !.w = 0]
      BY <3>1 DEF Moves
    <3>3. \A r \in Rs : r \in Nat
      BY <1>1 DEF next_read_pos, prev_read_pos, end_read_pos
    <3>4. \A w \in Ws : w \in Nat /\ w + x.nt <= x.size
      BY <1>1 DEF next_write_pos, prev_write_pos, end_write_pos
    <3>5. \A v : /\ [x EXCEPT !.r = v] = [x EXCEPT !.r = v, !.w = x.w]
                 /\ [x EXCEPT !.w = v] = [x EXCEPT !.r = x.r, !.w = v]
      BY <1>1 DEF Struct
    <3>6. \E r \in Nat, w \in Nat : w + x.nt <= x.size /\ y = [x EXCEPT !.r = r, !.w = w]
      <4> HIDE DEF x, Rs, Ws
      <4>1. CASE \E r \in Rs : y = [x EXCEPT !.r = r]
        <5>1. PICK r \in Rs : y = [x EXCEPT !.r = r]
          BY <4>1
        <5>2. y = [x EXCEPT !.r = r, !.w = x.w]
          BY <3>5, <5>1
        <5> QED
          BY <1>1, <3>3, <5>2
      <4>2. CASE \E w \in Ws : y = [x EXCEPT !.w = w]
        <5>1. PICK w \in Ws : y = [x EXCEPT !.w = w]
          BY <4>2
        <5>2. y = [x EXCEPT !.r = x.r, !.w = w]
          BY <3>5, <5>1
        <5> QED
          BY <1>1, <3>4, <5>2
      <4>3. CASE y = [x EXCEPT !.r = 0, !.w = 0]
        <5>1. 0 \in Nat /\ 0 + x.nt <= x.size
          BY <1>1
        <5> QED
          BY <4>3, <5>1
      <4> QED
        BY <3>2, <4>1, <4>2, <4>3
    <3> QED
      BY <3>1, <3>6
  <2> QED
    BY <2>1, <2>2
<1>3. UNCHANGED <<mem, overrun>>
  BY DEF Move, stringaa_is_chari
<1> QED
  BY <1>2, <1>3, MovedInv

\* The characters the environment passes to the library.
LEMMA LiteralData ==
  ASSUME NEW n \in 0..Len(LiteralText)
  PROVE  /\ SubSeq(LiteralText, 1, n) \in Seq(STRING)
         /\ Len(SubSeq(LiteralText, 1, n)) = n
<1>1. \A i \in 1..n : LiteralText[i] \in STRING
  BY TextAssumption, ElementOfSeq
<1>2. n \in Nat /\ 1 \in Int
  BY TextAssumption
<1> QED
  BY <1>1, <1>2, SubSeqProperties

\* Every operation keeps the invariant.
LEMMA NextStringInv == StringInv /\ Next => StringInv'
<1> SUFFICES ASSUME StringInv, Next PROVE StringInv'
  OBVIOUS
<1>1. overrun = "no"
  BY DEF Next
<1>2. PICK s \in Strings :
        \/ \E n \in {0, MaxSize} : stringaa_init(s, n)
        \/ stringaa_set_chars(s)
        \/ \E n \in 1..Len(LiteralText) : stringaa_set_chars_size(s, n)
        \/ \E n \in 0..Len(LiteralText) : stringaa_copy_chars(s, SubSeq(LiteralText, 1, n))
        \/ \E n \in 1..Len(LiteralText) : stringaa_add_chars(s, SubSeq(LiteralText, 1, n))
        \/ \E s2 \in Strings, pos1 \in 0..MaxSize, pos2 \in 0..MaxSize :
             stringaa_set_substring(s, s2, pos1, pos2)
        \/ \E s2 \in Strings : stringaa_copy(s, s2)
        \/ \E s2 \in Strings : stringaa_add(s, s2)
        \/ stringaa_set_char(s, LiteralText[1])
        \/ stringaa_is_chari(s)
        \/ Move(s)
        \/ stringaa_free(s)
  BY DEF Next
<1>3. CASE \E n \in {0, MaxSize} : stringaa_init(s, n)
  BY <1>1, <1>3, SizeAssumption, InitInv
<1>4. CASE stringaa_set_chars(s)
  BY <1>1, <1>4, SetCharsInv
<1>5. CASE \/ \E n \in 1..Len(LiteralText) : stringaa_set_chars_size(s, n)
           \/ \E s2 \in Strings, pos1 \in 0..MaxSize, pos2 \in 0..MaxSize :
                stringaa_set_substring(s, s2, pos1, pos2)
  BY <1>1, <1>5, LinksInv
<1>6. CASE \E n \in 0..Len(LiteralText) : stringaa_copy_chars(s, SubSeq(LiteralText, 1, n))
  BY <1>1, <1>6, LiteralData, CopyCharsInv
<1>7. CASE \E n \in 1..Len(LiteralText) : stringaa_add_chars(s, SubSeq(LiteralText, 1, n))
  <2>1. PICK n \in 1..Len(LiteralText) : stringaa_add_chars(s, SubSeq(LiteralText, 1, n))
    BY <1>7
  <2>2. n \in 0..Len(LiteralText)
    BY TextAssumption
  <2> QED
    BY <1>1, <2>1, <2>2, LiteralData, AddCharsInv
<1>8. CASE \E s2 \in Strings : stringaa_copy(s, s2)
  BY <1>1, <1>8, CopyInv
<1>9. CASE \E s2 \in Strings : stringaa_add(s, s2)
  BY <1>1, <1>9, AddInv
<1>10. CASE stringaa_set_char(s, LiteralText[1])
  <2>1. LiteralText[1] \in STRING
    BY TextAssumption, ElementOfSeq
  <2> QED
    BY <1>10, <2>1, SetCharInv
<1>11. CASE Move(s) \/ stringaa_is_chari(s)
  BY <1>1, <1>11, MovesInv
<1>12. CASE stringaa_free(s)
  BY <1>1, <1>12, FreeInv
<1> QED
  BY <1>2, <1>3, <1>4, <1>5, <1>6, <1>7, <1>8, <1>9, <1>10, <1>11, <1>12

\* Before any operation.
LEMMA InitStringInv == Init => StringInv
<1> SUFFICES ASSUME Init PROVE StringInv
  OBVIOUS
<1>1. /\ Cleared \in Struct /\ Cleared.alloc = 0 /\ Cleared.size = 0 /\ Fits(Cleared)
  BY DEF Cleared, Struct, Fits
<1>2. str \in [Strings -> Struct] /\ \A s \in Strings : str[s] = Cleared
  BY <1>1 DEF Init
<1>3. mem \in [AllBlocks -> Seq(STRING)]
  <2>1. Append(LiteralText, Zero) \in Seq(STRING)
    <3>1. LiteralText \in Seq(STRING) /\ Zero \in STRING
      BY TextAssumption
    <3> QED
      BY <3>1, AppendProperties
  <2>2. << >> \in Seq(STRING)
    BY EmptySeq
  <2> QED
    BY <2>1, <2>2 DEF Init
<1>4. overrun = "no"
  BY DEF Init
<1> QED
  BY <1>1, <1>2, <1>3, <1>4 DEF StringInv, TypeOK, InBounds, OwnersApart

LEMMA StringInvariant == Spec => []StringInv
<1>1. StringInv /\ UNCHANGED vars => StringInv'
  BY DEF StringInv, TypeOK, InBounds, OwnersApart, Fits, vars
<1> QED
  BY <1>1, InitStringInv, NextStringInv, PTL DEF Spec

\* Every reachable string is well formed: the type invariant of the library.
THEOREM StringTypeCorrect == Spec => []TypeOK
<1>1. StringInv => TypeOK
  BY DEF StringInv
<1> QED
  BY <1>1, StringInvariant, PTL

\* No operation of stringaa.h puts a character past a buffer unless a malloc
\* has failed, and until then every text and its null character fit.
THEOREM StringsInBounds == Spec => []InBounds
<1>1. StringInv => InBounds
  BY DEF StringInv
<1> QED
  BY <1>1, StringInvariant, PTL

\* A buffer has one owner, whatever was linked, copied, grown or freed: no
\* free() of the library is a double free.
THEOREM OwnersStayApart == Spec => []OwnersApart
<1>1. StringInv => OwnersApart
  BY DEF StringInv
<1> QED
  BY <1>1, StringInvariant, PTL

\* What memcpy has stored, byte by byte, when the block has the place for it.
LEMMA StoreBytes ==
  ASSUME NEW bytes \in Seq(STRING), NEW at \in Nat, NEW data \in Seq(STRING),
         NEW i \in 1..Len(bytes)
  PROVE  Store(bytes, at, data)[i] =
           IF i > at /\ i <= at + Len(data) THEN data[i - at] ELSE bytes[i]
  BY DEF Store

LEMMA FillBytes ==
  ASSUME NEW s \in Strings, NEW res, Sound(s, res.x, res.mem), res.x.buf # NoBlock,
         NEW at \in Nat, NEW data \in Seq(STRING),
         res.x.off + at + Len(data) <= Len(res.mem[res.x.buf]),
         NEW i \in 1..at + Len(data)
  PROVE  /\ res.x.off + i \in DOMAIN Fill(res, at, data).mem[res.x.buf]
         /\ Fill(res, at, data).mem[res.x.buf][res.x.off + i] =
              IF i <= at THEN res.mem[res.x.buf][res.x.off + i] ELSE data[i - at]
<1> DEFINE x == res.x
           bytes == res.mem[x.buf]
           tail == IF x.nt = 1 THEN Append(data, Zero) ELSE data
           new == Store(bytes, x.off + at, tail)
<1>1. x.buf \in AllBlocks /\ bytes \in Seq(STRING) /\ x.off \in Nat /\ Len(data) \in Nat
  BY DEF Sound, Struct, Heap
<1>2. /\ tail \in Seq(STRING) /\ Len(tail) >= Len(data)
      /\ \A k \in 1..Len(data) : tail[k] = data[k]
  <2>1. CASE x.nt = 1
    <3>1. tail = Append(data, Zero) /\ Zero \in STRING
      BY <2>1, TextAssumption
    <3>2. /\ Append(data, Zero) \in Seq(STRING) /\ Len(Append(data, Zero)) = Len(data) + 1
          /\ \A k \in 1..Len(data) : Append(data, Zero)[k] = data[k]
      BY <3>1, AppendProperties
    <3> HIDE DEF tail
    <3> QED
      BY <1>1, <3>1, <3>2
  <2>2. CASE x.nt # 1
    BY <1>1, <2>2
  <2> QED
    BY <2>1, <2>2
<1>3. Fill(res, at, data).mem[x.buf] = new
  <2>1. Fill(res, at, data).mem = [res.mem EXCEPT ![x.buf] = new]
    BY DEF Fill
  <2>2. x.buf \in DOMAIN res.mem
    BY <1>1 DEF Sound, Heap
  <2> HIDE DEF new
  <2> QED
    BY <2>1, <2>2
<1>4. Len(bytes) \in Nat /\ x.off + i \in 1..Len(bytes) /\ x.off + at \in Nat
  <2>1. x.off + at + Len(data) <= Len(bytes)
    OBVIOUS
  <2> HIDE DEF bytes, x
  <2>2. Len(bytes) \in Nat
    BY <1>1
  <2> QED
    BY <1>1, <2>1, <2>2
<1> HIDE DEF tail, bytes, x
<1>5. new[x.off + i] = IF x.off + i > x.off + at /\ x.off + i <= x.off + at + Len(tail)
                       THEN tail[(x.off + i) - (x.off + at)] ELSE bytes[x.off + i]
  <2> DEFINE p == x.off + i
             q == x.off + at
  <2>1. p \in 1..Len(bytes) /\ q \in Nat
    BY <1>4
  <2> HIDE DEF p, q
  <2>2. Store(bytes, q, tail)[p] =
          IF p > q /\ p <= q + Len(tail) THEN tail[p - q] ELSE bytes[p]
    BY <1>1, <1>2, <2>1, StoreBytes
  <2> QED
    BY <2>2 DEF p, q
<1>6. (x.off + i) - (x.off + at) = i - at
  BY <1>1
<1>7. new[x.off + i] = IF i <= at THEN bytes[x.off + i] ELSE data[i - at]
  <2>1. CASE i <= at
    BY <1>1, <1>5, <2>1
  <2>2. CASE i > at
    <3>1. i - at \in 1..Len(data)
      BY <1>1, <2>2
    <3>2. x.off + i <= x.off + at + Len(tail) /\ x.off + i > x.off + at
      BY <1>1, <1>2, <2>2
    <3> QED
      BY <1>2, <1>5, <1>6, <2>2, <3>1, <3>2
  <2> QED
    BY <2>1, <2>2
<1>8. new \in Seq(STRING) /\ Len(new) = Len(bytes)
  BY <1>1, <1>2, <1>4, StoreKeeps
<1>9. DOMAIN new = 1..Len(bytes)
  <2> HIDE DEF new
  <2> QED
    BY <1>8, LenProperties
<1> QED
  BY <1>3, <1>4, <1>7, <1>9 DEF x, bytes

\* stringaa_add_chars_size, byte by byte: what it keeps of the text it found
\* and the new characters, in the same buffer or in a new one.
LEMMA AddBytes ==
  ASSUME NEW s \in Strings, NEW x, Sound(s, x, mem), Fits(x), Readable(x),
         x.init = 0 => x.size = 0,
         NEW data \in Seq(STRING), Len(data) > 0, NEW b, IsFresh(b),
         AddInto(x, data, b).x.buf # NoBlock,
         AddInto(x, data, b).end <= AddInto(x, data, b).x.size
  PROVE  LET res == AddInto(x, data, b)
         IN /\ res.x.w = Kept(x) + Len(data)
            /\ \A i \in 1..Kept(x) + Len(data) :
                 /\ res.x.off + i \in DOMAIN res.mem[res.x.buf]
                 /\ res.mem[res.x.buf][res.x.off + i] =
                      IF i <= Kept(x) THEN ByteAt(x, i) ELSE data[i - Kept(x)]
<1> DEFINE n == Len(data)
           w == Kept(x)
           k == x.w + n + 1
           mid == IF AddNeeds(x, n) THEN stringaa_realloc(x, k, b) ELSE Same(x)
           res == AddInto(x, data, b)
<1>1. /\ x \in Struct /\ x.w \in Nat /\ x.off \in Nat /\ x.size \in Nat /\ x.nt \in {0, 1}
      /\ n \in Nat /\ k \in Nat /\ x.w + x.nt <= x.size /\ mem \in Heap
      /\ n > 0
  BY DEF Sound, Struct, Fits
<1>a. w \in Nat /\ w <= x.w /\ (w = x.w \/ (x.w = x.size /\ w = x.w - 1))
  BY <1>1 DEF Kept
<1>b. ReallocW(x) = w
  BY <1>1 DEF ReallocW, Kept
<1> HIDE DEF w
<1>2. res = Fill(mid, mid.x.w, data)
  BY DEF AddInto
<1>3. \/ mid = Same(x)
      \/ mid = stringaa_realloc(x, k, b) /\ NeedsRealloc(x, k) /\ b # NoBlock
  <2>1. ~(NeedsRealloc(x, k) /\ b # NoBlock) => stringaa_realloc(x, k, b) = Same(x)
    <3> HIDE DEF k
    <3> QED
      BY <1>1, ReallocSound
  <2> QED
    BY <2>1
<1>c. ASSUME mid = Same(x) PROVE w = x.w
  <2>1. mid.x = x /\ mid.mem = mem
    BY <1>c DEF Same
  <2>2. res = Fill(mid, x.w, data)
    BY <1>2, <2>1
  <2> HIDE DEF mid, res
  <2>3. res.x = WithText(x, x.w + n) /\ res.end = x.w + n + x.nt
    BY <1>1, <2>1, <2>2, FillSound
  <2>4. res.x.size = x.size
    BY <1>1, <2>3 DEF WithText, Struct
  <2>5. res.end <= res.x.size
    BY DEF res
  <2>6. x.w + n + x.nt <= x.size
    BY <2>3, <2>4, <2>5
  <2>7. x.w # x.size
    BY <1>1, <2>6
  <2> QED
    BY <1>a, <2>7
<1>4. /\ Sound(s, mid.x, mid.mem) /\ mid.x.w = w
      /\ \A i \in 1..w : mid.x.buf # NoBlock /\ mid.x.off + mid.x.size <= Len(mid.mem[mid.x.buf])
           => mid.mem[mid.x.buf][mid.x.off + i] = ByteAt(x, i)
      /\ mid.x.size > 0 /\ mid.x.buf # NoBlock =>
           mid.x.off + mid.x.size <= Len(mid.mem[mid.x.buf])
  <2>1. CASE mid = Same(x)
    <3>1. mid.x = x /\ mid.mem = mem /\ w = x.w
      BY <2>1, <1>c DEF Same
    <3> HIDE DEF mid
    <3>2. ASSUME NEW i \in 1..w, x.buf # NoBlock, x.off + x.size <= Len(mem[x.buf])
          PROVE  mem[x.buf][x.off + i] = ByteAt(x, i)
      <4>1. mem[x.buf] \in Seq(STRING)
        BY <1>1, <3>2 DEF Heap, Struct
      <4>2. x.off + i \in DOMAIN mem[x.buf]
        BY <1>1, <1>a, <3>2, <4>1, LenProperties
      <4> QED
        BY <3>2, <4>2 DEF ByteAt
    <3> QED
      BY <3>1, <3>2 DEF Readable
  <2>2. CASE mid = stringaa_realloc(x, k, b) /\ NeedsRealloc(x, k) /\ b # NoBlock
    <3> HIDE DEF mid, k
    <3>1. Sound(s, mid.x, mid.mem) /\ mid.x = Grown(x, k, b) /\ mid.mem = GrownMem(x, k, b)
      BY <1>1, <2>2, ReallocSound
    <3>2. ReallocW(x) = w
      BY <1>b
    <3>3. /\ mid.x.buf = b /\ mid.x.off = 0 /\ mid.x.w = w /\ mid.x.alloc = 1
          /\ mid.x.size = k + 1 - x.nt
      BY <1>1, <3>1, <3>2 DEF Grown, Struct
    <3>4. b \in AllBlocks
      BY <2>2 DEF IsFresh, AllBlocks
    <3> DEFINE bytes == [i \in 1..k + 1 - x.nt |-> ReallocByte(x, i)]
    <3>5. mid.mem[b] = bytes
      BY <1>1, <3>1, <3>4 DEF GrownMem, Heap
    <3>6. Len(mid.mem[b]) = mid.x.size
      BY <3>1, <3>3 DEF Sound
    <3>7. ASSUME NEW i \in 1..w PROVE bytes[i] = ByteAt(x, i)
      <4>1. i \in 1..k + 1 - x.nt
        BY <1>1, <1>a DEF k
      <4>2. ReallocByte(x, i) = ByteAt(x, i)
        BY <1>1, <3>2 DEF ReallocByte
      <4> QED
        BY <4>1, <4>2
    <3> HIDE DEF bytes
    <3>8. mid.x.size \in Nat
      BY <3>1 DEF Sound, Struct
    <3> QED
      BY <3>1, <3>3, <3>5, <3>6, <3>7, <3>8
  <2> QED
    BY <1>3, <2>1, <2>2
<1> HIDE DEF mid, res, k
<1>5. mid.x \in Struct /\ mid.x.off \in Nat /\ mid.x.size \in Nat /\ mid.x.nt \in {0, 1}
  BY <1>4 DEF Sound, Struct
<1>6. /\ res = Fill(mid, w, data)
      /\ res.x = WithText(mid.x, w + n) /\ res.end = w + n + mid.x.nt
  <2>1. res = Fill(mid, w, data)
    BY <1>2, <1>4
  <2> QED
    BY <1>1, <1>a, <1>4, <2>1, FillSound
<1>7. /\ res.x.w = w + n /\ res.x.buf = mid.x.buf /\ res.x.off = mid.x.off
      /\ res.x.size = mid.x.size
  BY <1>1, <1>5, <1>6 DEF WithText, Struct
<1>8. mid.x.buf # NoBlock /\ w + n + mid.x.nt <= mid.x.size
  BY <1>6, <1>7 DEF res
<1>9. ASSUME NEW i \in 1..w + n
      PROVE  /\ mid.x.off + i \in DOMAIN res.mem[mid.x.buf]
             /\ res.mem[mid.x.buf][mid.x.off + i] =
                  IF i <= w THEN ByteAt(x, i) ELSE data[i - w]
  <2>1. mid.x.size > 0
    BY <1>1, <1>a, <1>5, <1>8
  <2>2. mid.x.off + mid.x.size <= Len(mid.mem[mid.x.buf])
    BY <1>4, <1>8, <2>1
  <2>3. mid.mem[mid.x.buf] \in Seq(STRING)
    BY <1>4, <1>8 DEF Sound, Struct, Heap
  <2>4. mid.x.off + w + n <= Len(mid.mem[mid.x.buf])
    <3> DEFINE l == Len(mid.mem[mid.x.buf])
               o == mid.x.off
               z == mid.x.size
               nt == mid.x.nt
    <3>1. l \in Nat /\ o + z <= l
      BY <2>2, <2>3
    <3>2. o \in Nat /\ z \in Nat /\ nt \in {0, 1} /\ w \in Nat /\ w + n + nt <= z
      BY <1>1, <1>a, <1>5, <1>8
    <3> HIDE DEF l, o, z, w, n, nt
    <3>3. n \in Nat
      BY <1>1
    <3>4. o + w + n <= l
      BY <3>1, <3>2, <3>3
    <3> QED
      BY <3>4 DEF l, o, w
  <2>5. /\ mid.x.off + i \in DOMAIN res.mem[mid.x.buf]
        /\ res.mem[mid.x.buf][mid.x.off + i] =
             IF i <= w THEN mid.mem[mid.x.buf][mid.x.off + i] ELSE data[i - w]
    <3>1. /\ mid.x.off + i \in DOMAIN Fill(mid, w, data).mem[mid.x.buf]
          /\ Fill(mid, w, data).mem[mid.x.buf][mid.x.off + i] =
               IF i <= w THEN mid.mem[mid.x.buf][mid.x.off + i] ELSE data[i - w]
      <4> DEFINE at == w
      <4>1. /\ Sound(s, mid.x, mid.mem) /\ mid.x.buf # NoBlock /\ at \in Nat
            /\ mid.x.off + at + Len(data) <= Len(mid.mem[mid.x.buf])
            /\ i \in 1..at + Len(data)
        BY <1>1, <1>a, <1>4, <1>8, <2>4
      <4> HIDE DEF at, mid
      <4>a. data \in Seq(STRING)
        OBVIOUS
      <4>2. /\ mid.x.off + i \in DOMAIN Fill(mid, at, data).mem[mid.x.buf]
            /\ Fill(mid, at, data).mem[mid.x.buf][mid.x.off + i] =
                 IF i <= at THEN mid.mem[mid.x.buf][mid.x.off + i] ELSE data[i - at]
        BY <4>1, <4>a, FillBytes, SMTT(60)
      <4> QED
        BY <4>2 DEF at
    <3> QED
      BY <1>6, <3>1
  <2>6. i <= w => mid.mem[mid.x.buf][mid.x.off + i] = ByteAt(x, i)
    BY <1>1, <1>4, <1>8, <2>2
  <2> QED
    BY <2>5, <2>6
<1> QED
  BY <1>7, <1>9 DEF res, w

\* The characters of stringaa_add_chars_size come behind what is kept of the
\* text, over a reallocation too.
LEMMA AddAppendsStep ==
  ASSUME StringInv, overrun = "no", NEW s \in Strings, NEW data \in Seq(STRING),
         overrun' = "no", Readable(str[s]), stringaa_add_chars(s, data)
  PROVE  Text(str[s])' = Bytes(str[s], 0, Kept(str[s])) \o data
<1> DEFINE x == str[s]
           n == Len(data)
           needed == AddNeeds(x, n) /\ NeedsRealloc(x, x.w + n + 1)
           Res(b) == AddInto(x, data, b)
           w == Kept(x)
<1>1. PICK b \in Fresh(needed) :
        /\ Becomes(s, Res(b))
        /\ overrun' = IF Res(b).end <= Res(b).x.size THEN "no"
                      ELSE IF needed /\ b = NoBlock THEN "exhausted" ELSE "yes"
  BY DEF stringaa_add_chars, Allocates
<1>2. /\ IsFresh(b) /\ Sound(s, x, mem) /\ Fits(x) /\ (x.init = 0 => x.size = 0)
      /\ x.w \in Nat /\ n \in Nat /\ n > 0 /\ x.size \in Nat
  <2>1. data # << >>
    BY DEF stringaa_add_chars
  <2>2. n > 0
    BY <2>1, EmptySeq
  <2> QED
    BY <1>1, <2>2, FreshIsFresh, OwnSound DEF StringInv, InBounds, Sound, Struct
<1>z. w \in Nat
  BY <1>2 DEF Kept
<1> HIDE DEF w
<1> DEFINE res == Res(b)
<1>3. res.end \in Nat /\ res.end >= n /\ Sound(s, res.x, res.mem)
  BY <1>2, AddSound
<1>4. res.end <= res.x.size
  BY <1>1
<1>5. res.x.buf # NoBlock
  <2>1. res.x.buf = NoBlock => res.end = 0
    BY <1>1 DEF Becomes
  <2> HIDE DEF res, n
  <2> QED
    BY <1>2, <1>3, <2>1
<1>6. /\ res.x.w = w + n
      /\ \A i \in 1..w + n :
           /\ res.x.off + i \in DOMAIN res.mem[res.x.buf]
           /\ res.mem[res.x.buf][res.x.off + i] =
                IF i <= w THEN ByteAt(x, i) ELSE data[i - w]
  BY <1>2, <1>4, <1>5, AddBytes DEF w
<1>7. str'[s] = res.x /\ mem' = res.mem
  BY <1>1 DEF Becomes, StringInv, TypeOK
<1> HIDE DEF res
<1> DEFINE new == [i \in 1..w + n |-> IF i <= w THEN ByteAt(x, i) ELSE data[i - w]]
<1>8. Text(str[s])' = [i \in 1..str'[s].w - 0 |-> ByteAt(str[s], 0 + i)']
  BY DEF Text, Bytes
<1>9. ASSUME NEW i \in 1..w + n
      PROVE  ByteAt(str[s], 0 + i)' = new[i]
  <2>1. 0 + i = i
    OBVIOUS
  <2>2. ByteAt(str[s], 0 + i)' =
          IF str'[s].buf # NoBlock /\ str'[s].off + i \in DOMAIN mem'[str'[s].buf]
          THEN mem'[str'[s].buf][str'[s].off + i] ELSE Junk
    BY <2>1 DEF ByteAt
  <2> QED
    BY <1>5, <1>6, <1>7, <2>2
<1>10. Text(str[s])' = new
  <2>1. str'[s].w - 0 = w + n
    BY <1>2, <1>z, <1>6, <1>7
  <2> QED
    BY <1>8, <1>9, <2>1
<1> DEFINE kept == Bytes(x, 0, w)
<1>11. kept \in Seq(STRING) /\ Len(kept) = w /\ \A i \in 1..w : kept[i] = ByteAt(x, i)
  <2>1. Bytes(x, 0, w) \in Seq(STRING) /\ Len(Bytes(x, 0, w)) = w - 0
    <3>1. 0 \in Nat /\ 0 <= w
      BY <1>z
    <3> HIDE DEF x
    <3> QED
      BY <1>2, <1>z, <3>1, BytesType
  <2>2. \A i \in 1..w : Bytes(x, 0, w)[i] = ByteAt(x, i)
    BY <1>z DEF Bytes
  <2> QED
    BY <1>2, <1>z, <2>1, <2>2
<1> HIDE DEF x, kept
<1>y. w + n \in Nat /\ data \in Seq(STRING) /\ Len(data) = n
  BY <1>2, <1>z
<1>12. /\ kept \o data \in Seq(STRING) /\ Len(kept \o data) = w + n
       /\ \A i \in 1..w + n : (kept \o data)[i] = new[i]
  <2>1. /\ kept \o data \in Seq(STRING) /\ Len(kept \o data) = w + n
        /\ \A i \in 1..w + n :
             (kept \o data)[i] = IF i <= w THEN kept[i] ELSE data[i - w]
    <3> HIDE DEF n
    <3>1. Len(kept) = w /\ Len(data) = n
      BY <1>y, <1>11
    <3>2. kept \in Seq(STRING) /\ data \in Seq(STRING)
      BY <1>11
    <3> QED
      BY <3>1, <3>2, ConcatProperties
  <2>2. \A i \in 1..w + n :
          new[i] = IF i <= w THEN ByteAt(x, i) ELSE data[i - w]
    OBVIOUS
  <2> HIDE DEF new
  <2>3. ASSUME NEW i \in 1..w + n PROVE (kept \o data)[i] = new[i]
    <3>1. i <= w => i \in 1..w
      BY <1>z
    <3> QED
      BY <1>11, <2>1, <2>2, <3>1
  <2> QED
    BY <2>1, <2>3
<1>13. kept \o data = new
  <2> DEFINE cat == kept \o data
  <2>1. cat \in [1..w + n -> STRING] /\ \A i \in 1..w + n : cat[i] = new[i]
    BY <1>12, LenProperties
  <2> HIDE DEF cat
  <2>2. cat = [i \in 1..w + n |-> cat[i]]
    BY <2>1
  <2>3. cat = new
    BY <2>1, <2>2
  <2> QED
    BY <2>3 DEF cat
<1> QED
  BY <1>10, <1>13 DEF x, w, kept

\* stringaa_add_chars_size appends to every readable string, whatever links, leaks
\* and failures came before, and loses nothing but the last character of a full
\* one without a null character.
THEOREM AddCharsAppends == Spec => AddAppends
<1>1. ASSUME StringInv, Next, NEW s \in Strings, NEW n \in 1..Len(LiteralText),
             overrun' = "no", Readable(str[s]),
             stringaa_add_chars(s, SubSeq(LiteralText, 1, n))
      PROVE  Text(str[s])' = Bytes(str[s], 0, Kept(str[s])) \o SubSeq(LiteralText, 1, n)
  <2>1. overrun = "no"
    BY <1>1 DEF Next
  <2>2. n \in 0..Len(LiteralText)
    BY TextAssumption
  <2>3. SubSeq(LiteralText, 1, n) \in Seq(STRING)
    BY <2>2, LiteralData
  <2> QED
    BY <1>1, <2>1, <2>3, AddAppendsStep
<1>2. StringInv /\ [Next]_vars =>
        [\A s \in Strings, n \in 1..Len(LiteralText) :
           LET data == SubSeq(LiteralText, 1, n)
           IN /\ str'[s] # str[s] /\ str'[s].r = 0 /\ overrun' = "no"
              /\ Readable(str[s])
              /\ stringaa_add_chars(s, data)
              => Text(str[s])' = Bytes(str[s], 0, Kept(str[s])) \o data]_vars
  BY <1>1
<1> QED
  BY <1>2, StringInvariant, PTL DEF Spec, AddAppends

-----------------------------------------------------------------------------
(* stringaa_find finds the first occurrence.  The invariant is the loop's *)
(* own (FindInv), with the types and the result.                          *)
FindFacts == FindTypeOK /\ FindInv /\ FindsFirst

\* The texts are sequences: what the provers need of Seq(Chars).
LEMMA FindInputTypes ==
  ASSUME FindTypeOK
  PROVE  /\ s_text \in Seq(Chars) /\ s_search \in Seq(Chars)
         /\ Len(s_text) \in Nat /\ Len(s_search) \in Nat
         /\ s_search # << >> => Len(s_search) > 0
         /\ s_text # << >> => Len(s_text) > 0
<1>1. s_text \in Seq(Chars) /\ s_search \in Seq(Chars)
  BY InputsAssumption DEF FindTypeOK
<1> QED BY <1>1

\* Where the search stands, seen from the read positions.
LEMMA FindStartFacts ==
  ASSUME FindTypeOK, FindInv, running, s_search # << >>
  PROVE  /\ Start \in Nat /\ read_pos = Start + search_pos /\ Start <= Len(s_text)
         /\ search_pos < Len(s_search)
         /\ \A i \in 1..search_pos : s_text[Start + i] = s_search[i]
<1>1. CASE is_follow
  BY <1>1, FindInputTypes DEF FindInv, FindTypeOK, Start
<1>2. CASE ~is_follow
  BY <1>2, FindInputTypes DEF FindInv, FindTypeOK, Start
<1> QED BY <1>1, <1>2

\* A search starts at the first position, with no partial match.
LEMMA FindInitInv == FindInit => FindFacts
<1> SUFFICES ASSUME FindInit PROVE FindFacts
  OBVIOUS
<1>1. PICK in \in Inputs : s_text = in[1] /\ s_search = in[2]
  BY DEF FindInit
<1>2. <<s_text, s_search>> \in Inputs
  BY <1>1, InputsAssumption
<1>3. s_text \in Seq(Chars) /\ s_search \in Seq(Chars)
  BY <1>2, InputsAssumption
<1>4. FindTypeOK
  <2>1. Len(s_text) \in Nat /\ Len(s_search) \in Nat
    BY <1>3
  <2>2. is_follow \in BOOLEAN /\ running \in BOOLEAN
    BY DEF FindInit
  <2>3. /\ read_pos \in Nat /\ search_pos \in Nat /\ pos \in Nat
        /\ read_pos <= Len(s_text) /\ search_pos <= Len(s_search) /\ is_find \in Int
    BY <2>1 DEF FindInit
  <2> QED BY <1>2, <2>2, <2>3 DEF FindTypeOK
<1>5. FindInv
  BY <1>3, <1>4, FindInputTypes DEF FindInit, FindInv, Start
<1> QED BY <1>4, <1>5 DEF FindFacts, FindsFirst, FindInit

\* An empty s_search ends the search at once.
LEMMA FindEmptyInv == FindFacts /\ Empty => FindFacts'
BY DEF FindFacts, Empty, FindTypeOK, FindInv, FindsFirst, Start, OccursAt

\* A character that agrees extends the partial match or completes it.
LEMMA FindMatchInv == FindFacts /\ Match => FindFacts'
<1> SUFFICES ASSUME FindFacts, Match PROVE FindFacts'
  OBVIOUS
<1> USE DEF FindFacts
<1>1. /\ running /\ s_search # << >> /\ read_pos < Len(s_text)
      /\ s_text[read_pos + 1] = s_search[search_pos + 1]
      /\ s_text' = s_text /\ s_search' = s_search /\ is_follow' = TRUE /\ pos' = Start
  BY DEF Match, CharsEqual, Start
<1>2. /\ Len(s_text) \in Nat /\ Len(s_search) \in Nat /\ read_pos \in Nat /\ search_pos \in Nat
      /\ Start \in Nat /\ read_pos = Start + search_pos /\ search_pos < Len(s_search)
  BY <1>1, FindInputTypes, FindStartFacts DEF FindTypeOK
<1>3. \A i \in 1..search_pos + 1 : s_text[Start + i] = s_search[i]
  <2>1. \A i \in 1..search_pos : s_text[Start + i] = s_search[i]
    BY <1>1, FindStartFacts
  <2> QED BY <1>1, <1>2, <2>1
<1>4. \A p \in 0..Len(s_text) : OccursAt(p) => p >= Start
  BY <1>1 DEF FindInv
<1>5. \A p : OccursAt(p)' <=> OccursAt(p)
  BY <1>1 DEF OccursAt
<1>a. running' \in BOOLEAN
  <2>1. running' = has_next(read_pos, Len(s_text)) \/ running' = FALSE
    BY DEF Match, Advance
  <2>2. CASE running' = has_next(read_pos, Len(s_text))
    BY <2>2 DEF has_next
  <2>3. CASE running' = FALSE
    BY <2>3
  <2> QED BY <2>1, <2>2, <2>3
<1>6. CASE has_next(search_pos, Len(s_search)) /\ has_next(read_pos, Len(s_text))
  <2>1. search_pos' = search_pos + 1 /\ read_pos' = read_pos + 1 /\ running' /\ is_find' = is_find
    BY <1>6, <1>2 DEF Match, Advance, has_next, next_read_pos
  <2>2. FindTypeOK'
    BY <1>1, <1>2, <1>6, <1>a, <2>1 DEF FindTypeOK, has_next
  <2>3. Start' = Start
    BY <1>1 DEF Start
  <2>4. FindInv'
    BY <1>1, <1>2, <1>3, <1>4, <1>5, <1>6, <2>1, <2>3 DEF FindInv, has_next
  <2> QED BY <2>1, <2>2, <2>4 DEF FindsFirst
<1>7. CASE has_next(search_pos, Len(s_search)) /\ ~has_next(read_pos, Len(s_text))
  <2>1. search_pos' = search_pos + 1 /\ read_pos' = Len(s_text) /\ ~running' /\ is_find' = is_find
    BY <1>7, <1>2 DEF Match, Advance, has_next, next_read_pos
  <2>2. FindTypeOK'
    BY <1>1, <1>2, <1>7, <1>a, <2>1 DEF FindTypeOK, has_next
  <2>3. FindInv'
    BY <2>1 DEF FindInv
  <2>4. \A p \in 0..Len(s_text) : ~OccursAt(p)
    <3> SUFFICES ASSUME NEW p \in 0..Len(s_text), OccursAt(p) PROVE FALSE
      OBVIOUS
    <3>1. p >= Start
      BY <1>4
    <3>2. p + Len(s_search) <= Len(s_text)
      BY DEF OccursAt
    <3>3. search_pos + 1 < Len(s_search) /\ ~(read_pos + 1 < Len(s_text))
      BY <1>7 DEF has_next
    <3> HIDE DEF FindFacts
    <3> QED BY <1>2, <3>1, <3>2, <3>3
  <2>5. is_find = -1
    BY <1>1 DEF FindInv
  <2> QED BY <1>1, <1>5, <2>1, <2>2, <2>3, <2>4, <2>5 DEF FindsFirst
<1>8. CASE ~has_next(search_pos, Len(s_search))
  <2>1. /\ search_pos' = Len(s_search) /\ read_pos' = read_pos /\ ~running' /\ is_find' = Start
        /\ search_pos + 1 = Len(s_search)
    BY <1>1, <1>8, <1>2 DEF Match, has_next, next_read_pos
  <2>2. FindTypeOK'
    BY <1>1, <1>2, <1>a, <2>1 DEF FindTypeOK
  <2>3. FindInv'
    BY <2>1 DEF FindInv
  <2>4. OccursAt(Start)
    BY <1>1, <1>2, <1>3, <2>1 DEF OccursAt
  <2>5. Start \in 0..Len(s_text)
    BY <1>1, <1>2
  <2>6. (OccursAt(is_find))' /\ is_find' >= 0 /\ is_find' \in 0..Len(s_text)
    BY <1>1, <1>2, <2>1, <2>4, <2>5 DEF OccursAt
  <2>7. FindsFirst'
    BY <1>1, <1>4, <1>5, <2>1, <2>4, <2>5, <2>6 DEF FindsFirst
  <2> QED BY <2>2, <2>3, <2>7
<1> QED BY <1>6, <1>7, <1>8

\* A character that differs rules out the position where the match began.
LEMMA FindMismatchInv == FindFacts /\ Mismatch => FindFacts'
<1> SUFFICES ASSUME FindFacts, Mismatch PROVE FindFacts'
  OBVIOUS
<1> USE DEF FindFacts
<1>1. /\ running /\ s_search # << >> /\ ~CharsEqual
      /\ s_text' = s_text /\ s_search' = s_search /\ is_follow' = FALSE
      /\ is_find' = is_find /\ pos' = pos
      /\ read_pos' = next_read_pos(Start, Len(s_text)) /\ running' = has_next(Start, Len(s_text))
  BY DEF Mismatch, Advance, Start
<1>2. /\ Len(s_text) \in Nat /\ Len(s_search) \in Nat /\ read_pos \in Nat /\ search_pos \in Nat
      /\ Start \in Nat /\ read_pos = Start + search_pos
      /\ search_pos < Len(s_search) /\ Start <= Len(s_text)
  BY <1>1, FindInputTypes, FindStartFacts DEF FindTypeOK
<1>3. search_pos' = 0
  BY <1>1 DEF Mismatch, FindInv
<1>4. ~OccursAt(Start)
  BY <1>1, <1>2 DEF OccursAt, CharsEqual
<1>5. \A p \in 0..Len(s_text) : OccursAt(p) => p >= Start + 1
  <2>1. \A p \in 0..Len(s_text) : OccursAt(p) => p >= Start
    BY <1>1 DEF FindInv
  <2> QED BY <1>2, <1>4, <2>1
<1>6. \A p : OccursAt(p)' <=> OccursAt(p)
  BY <1>1 DEF OccursAt
<1>7. FindTypeOK'
  <2>1. running' \in BOOLEAN
    BY <1>1 DEF has_next
  <2>2. read_pos' \in Nat /\ read_pos' <= Len(s_text)
    BY <1>1, <1>2 DEF next_read_pos
  <2>3. is_follow' \in BOOLEAN
    BY <1>1
  <2>4. search_pos' \in Nat /\ search_pos' <= Len(s_search) /\ pos' \in Nat /\ is_find' \in Int
    BY <1>1, <1>2, <1>3 DEF FindTypeOK
  <2>5. <<s_text', s_search'>> \in Inputs
    BY <1>1 DEF FindTypeOK
  <2>6. read_pos' <= Len(s_text') /\ search_pos' <= Len(s_search')
    BY <1>1, <2>2, <2>4
  <2> QED BY <2>1, <2>2, <2>3, <2>4, <2>5, <2>6 DEF FindTypeOK
<1>8. Start' = read_pos' /\ is_find = -1
  BY <1>1 DEF Start, FindInv
<1>9. FindInv'
  BY <1>1, <1>2, <1>3, <1>5, <1>6, <1>8 DEF FindInv, has_next, next_read_pos
<1>10. CASE running'
  BY <1>7, <1>9, <1>10 DEF FindsFirst
<1>11. CASE ~running'
  <2>0. ~(Start + 1 < Len(s_text))
    BY <1>1, <1>11 DEF has_next
  <2>1. \A p \in 0..Len(s_text) : ~OccursAt(p)
    <3> SUFFICES ASSUME NEW p \in 0..Len(s_text), OccursAt(p) PROVE FALSE
      OBVIOUS
    <3>1. p >= Start + 1
      BY <1>5
    <3>2. p + Len(s_search) <= Len(s_text)
      BY DEF OccursAt
    <3> HIDE DEF FindFacts
    <3> QED BY <1>2, <2>0, <3>1, <3>2
  <2> QED BY <1>1, <1>6, <1>7, <1>8, <1>9, <2>1 DEF FindsFirst
<1> QED BY <1>10, <1>11

\* Every round of the loop keeps the invariant.
LEMMA FindNextInv == FindFacts /\ [FindNext]_findVars => FindFacts'
<1> SUFFICES ASSUME FindFacts, [FindNext]_findVars PROVE FindFacts'
  OBVIOUS
<1>1. CASE UNCHANGED findVars
  BY <1>1 DEF FindFacts, FindTypeOK, FindInv, FindsFirst, Start, OccursAt, findVars
<1> QED BY <1>1, FindEmptyInv, FindMatchInv, FindMismatchInv DEF FindNext

\* The types, the loop's_text invariant and the result hold throughout.
THEOREM FindInvariant == FindSpec => [](FindTypeOK /\ FindInv)
<1>1. FindFacts => FindTypeOK /\ FindInv
  BY DEF FindFacts
<1> QED BY <1>1, FindInitInv, FindNextInv, PTL DEF FindSpec

\* The read positions of both strings stay in their texts.
THEOREM FindTypeCorrect == FindSpec => []FindTypeOK
<1>1. FindFacts => FindTypeOK
  BY DEF FindFacts
<1> QED BY <1>1, FindInitInv, FindNextInv, PTL DEF FindSpec

\* "Return position of s_search in s, otherwise return -1": for any two
\* strings stringaa_find gives the first occurrence, and -1 without one.
THEOREM FindIsCorrect == FindSpec => []FindsFirst
<1>1. FindFacts => FindsFirst
  BY DEF FindFacts
<1> QED BY <1>1, FindInitInv, FindNextInv, PTL DEF FindSpec
=============================================================================
