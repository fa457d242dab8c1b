--------------------------- MODULE MCDescriptors ---------------------------
(* The descriptors on small instances. *)
EXTENDS Descriptors, TLC

\* Worker threads run the same code.
WorkerSymmetry == Permutations(Workers)
=============================================================================
