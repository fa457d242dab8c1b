----------------------------- MODULE WorkQueue -----------------------------
(* What the Workers Pool promises to the server: a connection that was     *)
(* posted is handed to exactly one worker, in the order of posting, stays  *)
(* with that worker while it is executed, and is executed once.            *)
EXTENDS Naturals, Sequences

CONSTANT Conns

VARIABLES
  queue,    \* posted connections that no worker has taken, oldest first
  serving,  \* connections taken by a worker and not finished
  done      \* connections whose execution has ended

queueVars == <<queue, serving, done>>

QueueInit == queue = <<>> /\ serving = {} /\ done = {}

Put(c) ==
  /\ c \notin serving \cup done
  /\ \A i \in 1..Len(queue) : queue[i] # c
  /\ queue' = Append(queue, c)
  /\ UNCHANGED <<serving, done>>

Take ==
  /\ queue # <<>>
  /\ serving' = serving \cup {Head(queue)}
  /\ queue' = Tail(queue)
  /\ UNCHANGED done

Finish(c) ==
  /\ c \in serving
  /\ serving' = serving \ {c}
  /\ done' = done \cup {c}
  /\ UNCHANGED queue

QueueNext == \/ Take
             \/ \E c \in Conns : Put(c) \/ Finish(c)

QueueSpec == QueueInit /\ [][QueueNext]_queueVars
=============================================================================
