---------------------------- MODULE Descriptors -----------------------------
(* The descriptors of accepted connections, shared by the server and all     *)
(* workers of WorkerPool: accept() hands out the lowest number that is free, *)
(* so a number that one thread has closed may mean another client a moment   *)
(* later.  work->conn is such a number: in WorkerPool it stands for the      *)
(* connection c, here for fd[c].  What a worker does between Begin and       *)
(* Finish is SocketWorker's matter; here only the ways it ends count.        *)
EXTENDS WorkerPool

CONSTANT MaxFds    \* descriptors left to connections
ASSUME MaxFdsAssumption == MaxFds \in Nat

VARIABLES
  fd,      \* the number accept() gave each connection, 0 before
  file,    \* the connection each number refers to, NoConn when it is free
  after,   \* per worker: "open", "closed", or "late": closed, the shutdown to come
  closed,  \* history: connections closed
  failed,  \* history: connections whose send() failed
  cut      \* history: connections shut down by the shutdown after the close

fdVars == <<fd, file, after, closed, failed, cut>>
allVars == <<vars, fdVars>>

Fds == 1..MaxFds
Free == {f \in Fds : file[f] = NoConn}

FdInit ==
  /\ fd = [c \in Conns |-> 0] /\ file = [f \in Fds |-> NoConn]
  /\ after = [t \in Workers |-> "open"]
  /\ closed = {} /\ failed = {} /\ cut = {}

\* accept() succeeds; with no number left it fails and ServerReturns follows.
AcceptFd ==
  /\ Server /\ accepts' # accepts
  /\ \E f \in Free :
       /\ \A g \in Free : f <= g
       /\ fd' = [fd EXCEPT ![accepts'] = f]
       /\ file' = [file EXCEPT ![f] = accepts']
  /\ UNCHANGED <<after, closed, failed, cut>>

\* closesocket(s_conn).
CloseConn(t) ==
  /\ file' = [file EXCEPT ![fd[conn[t]]] = NoConn]
  /\ closed' = closed \cup {conn[t]}

\* The socket worker closes the connection and its loop ends: the response
\* was sent, recv failed, the buffer is full, or select timed out.
Close(t) ==
  /\ Running(t, "serve") /\ after[t] = "open"
  /\ CloseConn(t)
  /\ after' = [after EXCEPT ![t] = "closed"]
  /\ UNCHANGED <<vars, fd, failed, cut>>

\* send() failed: the connection is closed, and the code goes on to ...
CloseFailed(t) ==
  /\ Running(t, "serve") /\ after[t] = "open"
  /\ CloseConn(t)
  /\ failed' = failed \cup {conn[t]}
  /\ after' = [after EXCEPT ![t] = "late"]
  /\ UNCHANGED <<vars, fd, cut>>

\* Mutant of LateShutdown: a second close in the place of the shutdown.
LateShutdown_Closes(t) ==
  /\ Running(t, "serve") /\ after[t] = "late"
  /\ file' = [file EXCEPT ![fd[conn[t]]] = NoConn]
  /\ after' = [after EXCEPT ![t] = "closed"]
  /\ UNCHANGED <<vars, fd, closed, failed, cut>>

\* ... shut the same number down, whatever it refers to by now.
LateShutdown(t) ==
  /\ Running(t, "serve") /\ after[t] = "late"
  /\ cut' = cut \cup ({file[fd[conn[t]]]} \ {NoConn})
  /\ after' = [after EXCEPT ![t] = "closed"]
  /\ UNCHANGED <<vars, fd, file, closed, failed>>

\* socketaa_worker returns.
Leave(t) ==
  /\ after[t] = "closed" /\ Finish(t)
  /\ after' = [after EXCEPT ![t] = "open"]
  /\ UNCHANGED <<fd, file, closed, failed, cut>>

\* It returns without a close: select() or malloc failed.
GiveUp(t) ==
  /\ after[t] = "open" /\ Finish(t)
  /\ UNCHANGED fdVars

ServeFd(t) == Close(t) \/ CloseFailed(t) \/ LateShutdown(t) \/ Leave(t) \/ GiveUp(t)

Other ==
  /\ \/ Server /\ accepts' = accepts
     \/ \E t \in Workers : \/ Spawn(t) \/ GetWorkWait(t) \/ SpuriousWakeup(t)
                           \/ GetWork(t) \/ Begin(t) \/ Killed(t)
  /\ UNCHANGED fdVars

FdNext == AcceptFd \/ Other \/ \E t \in Workers : ServeFd(t)
FdSpec == Init /\ FdInit /\ [][FdNext]_allVars

\* As in WorkerPool: threads run, and the socket worker comes to an end.
FdLiveSpec ==
  FdSpec /\ \A t \in Workers : /\ WF_allVars(GetWork(t) /\ UNCHANGED fdVars)
                               /\ WF_allVars(Begin(t) /\ UNCHANGED fdVars)
                               /\ WF_allVars(ServeFd(t))

-----------------------------------------------------------------------------
\* On the first lap of the works array a worker's descriptor refers to the
\* connection it has taken until it closes it itself, no other worker uses
\* the number meanwhile, and no connection that waits in the array or was
\* given up has lost its number: an early or a second close, by whichever
\* thread, would give it to another client.  The shutdown that follows the
\* close of a failed send hits another connection only where accept() has
\* handed the number out again in between.
OwnDescriptor ==
  /\ \A c \in 1..accepts : c \notin closed => fd[c] \in Fds /\ file[fd[c]] = c
  /\ \A f \in Fds : file[f] \notin closed
  /\ \A t, u \in Workers :
       pc[t] = "serve" /\ after[t] = "open" =>
         /\ file[fd[conn[t]]] = conn[t]
         /\ pc[u] = "serve" /\ after[u] = "open" /\ fd[conn[u]] = fd[conn[t]] => u = t
  /\ \A c \in cut \ failed : \E d \in failed : d < c /\ fd[d] = fd[c]
=============================================================================
