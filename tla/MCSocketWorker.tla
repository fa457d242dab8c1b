--------------------------- MODULE MCSocketWorker ---------------------------
(* The socket worker on small instances. *)
EXTENDS SocketWorker
=============================================================================
