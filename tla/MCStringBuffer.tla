-------------------------- MODULE MCStringBuffer ---------------------------
(* Instances of StringBuffer for TLC: two strings, a literal and blocks     *)
(* that run out, be it by leaking.                                         *)
EXTENDS StringBuffer, TLC

MCOneChar == <<"a">>

\* Bound: the bytes that two blocks have together, enough for a text of one
\* character to move from a buffer of two bytes to one of three.
HeapBound == \A b, c \in Blocks : b # c => Len(mem[b]) + Len(mem[c]) <= 5

\* The structs are alike, and so are the blocks of the heap.
Symmetry == Permutations(Strings) \cup Permutations(Blocks)
=============================================================================
