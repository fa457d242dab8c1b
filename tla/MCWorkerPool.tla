---------------------------- MODULE MCWorkerPool ----------------------------
(* The Workers Pool on small instances. *)
EXTENDS WorkerPool, TLC

\* Worker threads run the same code (safety runs only).
WorkerSymmetry == Permutations(Workers)
=============================================================================
