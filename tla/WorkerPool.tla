----------------------------- MODULE WorkerPool -----------------------------
(* The Workers Pool of the Worker library (worker/workeraa_utils.h): the    *)
(* server thread posts accepted connections with workeraa_set_work, the     *)
(* worker threads take them with workeraa_get_work and execute them in      *)
(* socketaa_worker.  Both functions run under sync->mutex from their first  *)
(* to their last access of the sync struct, so each is one action, split    *)
(* only where pthread_cond_wait gives the mutex up.                         *)
(*                                                                          *)
(* A connection is the number of its accept().  work[i] is the content of   *)
(* the socketaa_work struct that slot i of the works array points to        *)
(* (NoConn while the slot's pointer is NULL): the struct is allocated by    *)
(* the first post to the slot and reused by the later ones, so a worker's   *)
(* p_work pointer is the number of a slot.  work[WorkSize] stands for the   *)
(* memory just past the array.                                              *)
EXTENDS RingIndex, Sequences, FiniteSets

CONSTANTS
  Workers,    \* threads the pool is configured to start (worker_count)
  WorkSize,   \* work_size_max, the size of the works array
  MaxAccepts  \* bound: connections the server accepts in a behaviour

ASSUME WorkersAssumption == IsFiniteSet(Workers)
ASSUME WorkSizeAssumption == WorkSize \in Nat \ {0}
ASSUME MaxAcceptsAssumption == MaxAccepts \in Nat

VARIABLES
  phase,        \* progress of socketaa_server: pool_init, then the accept loop
  read_index,   \* sync->work_read_index
  write_index,  \* sync->work_write_index
  work_count,   \* sync->work_count
  work,         \* sync->work
  pc,           \* where each worker thread is
  p_work,       \* worker->work.p_work: a slot number
  conn,         \* s_conn, the worker's own copy of work->conn
  accepts,      \* number of accept() calls so far
  queued,       \* history: connections stored by workeraa_set_work, in order
  taken,        \* history: connections handed out by workeraa_get_work
  done          \* history: connections whose socketaa_worker has returned

syncVars == <<read_index, write_index, work_count, work>>
threadVars == <<pc, p_work, conn>>
historyVars == <<accepts, queued, taken, done>>
vars == <<phase, syncVars, threadVars, historyVars>>

NoConn == 0
NoSlot == -1
Conns == 1..MaxAccepts
Slots == 0..WorkSize

\* Places of a worker thread: not created, about to lock the mutex in
\* workeraa_get_work, blocked in pthread_cond_wait, between get_work and
\* the read of work->conn in socketaa_worker, and inside its select loop.
Places == {"unborn", "get", "wait", "begin", "serve"}
Phases == {"sync_init", "spawn", "accept", "no_sync", "crashed", "exited"}

TypeOK ==
  /\ phase \in Phases
  /\ read_index \in Slots
  /\ write_index \in Slots
  /\ work_count \in 0..MaxAccepts
  /\ work \in [Slots -> Conns \cup {NoConn}]
  /\ pc \in [Workers -> Places]
  /\ p_work \in [Workers -> Slots \cup {NoSlot}]
  /\ conn \in [Workers -> Conns \cup {NoConn}]
  /\ accepts \in 0..MaxAccepts
  /\ queued \in Seq(Conns)
  /\ taken \in Seq(Conns)
  /\ done \in SUBSET Conns

\* The structs are zeroed by memset, no thread runs yet.
Init ==
  /\ phase = "sync_init"
  /\ read_index = 0
  /\ write_index = 0
  /\ work_count = 0
  /\ work = [i \in Slots |-> NoConn]
  /\ pc = [t \in Workers |-> "unborn"]
  /\ p_work = [t \in Workers |-> NoSlot]
  /\ conn = [t \in Workers |-> NoConn]
  /\ accepts = 0
  /\ queued = <<>>
  /\ taken = <<>>
  /\ done = {}
-----------------------------------------------------------------------------
(* workeraa_pool_init *)

\* workeraa_sync_init: on failure pool->sync is NULL and no thread is
\* started, yet the server goes on to its accept loop.  If the workers cannot
\* be allocated, the memset of the NULL pointer comes first.
SyncInit ==
  /\ phase = "sync_init"
  /\ phase' \in {"spawn", "no_sync", "crashed"}
  /\ UNCHANGED <<syncVars, threadVars, historyVars>>

\* workeraa_run for the next worker: its thread starts at once.
Spawn(t) ==
  /\ phase = "spawn"
  /\ pc[t] = "unborn"
  /\ pc' = [pc EXCEPT ![t] = "get"]
  /\ UNCHANGED <<phase, syncVars, p_work, conn, historyVars>>

\* The loop over the workers ends: all have started, or pthread_create
\* failed for one and the rest are given up.  The result is not looked at.
SpawnEnd ==
  /\ phase = "spawn"
  /\ phase' = "accept"
  /\ UNCHANGED <<syncVars, threadVars, historyVars>>
-----------------------------------------------------------------------------
(* The server thread: accept() and workeraa_set_work *)

\* Mutant of Signal: the call is missing.
Signal_Missing == UNCHANGED pc

\* pthread_cond_signal: unblocks one waiting worker, if there is one.
Signal ==
  IF \E t \in Workers : pc[t] = "wait"
    THEN \E t \in Workers : pc[t] = "wait" /\ pc' = [pc EXCEPT ![t] = "get"]
    ELSE UNCHANGED pc

\* Each accept makes a new connection.
Accept ==
  /\ accepts < MaxAccepts
  /\ accepts' = accepts + 1

\* Mutant of SetWork: the work is stored after the index was moved.
SetWork_MovesFirst ==
  /\ phase = "accept"
  /\ Accept
  /\ CheckWrite(read_index, write_index, work_count, WorkSize)
  /\ write_index' = NextWrite(read_index, write_index, work_count, WorkSize)
  /\ work' = [work EXCEPT ![write_index'] = accepts']
  /\ work_count' = work_count + 1
  /\ queued' = Append(queued, accepts')
  /\ Signal
  /\ UNCHANGED <<phase, read_index, p_work, conn, taken, done>>

\* Mutant of SetWork: work_count++ is missing.
SetWork_NotCounted ==
  /\ phase = "accept"
  /\ Accept
  /\ CheckWrite(read_index, write_index, work_count, WorkSize)
  /\ work' = [work EXCEPT ![write_index] = accepts']
  /\ write_index' = NextWrite(read_index, write_index, work_count, WorkSize)
  /\ queued' = Append(queued, accepts')
  /\ Signal
  /\ UNCHANGED <<phase, read_index, work_count, p_work, conn, taken, done>>

\* socketaa_set_work copies the server's struct over the one of the slot at
\* the stored write index, then the index, the count and the signal follow.
SetWork ==
  /\ phase = "accept"
  /\ Accept
  /\ CheckWrite(read_index, write_index, work_count, WorkSize)
  /\ work' = [work EXCEPT ![write_index] = accepts']
  /\ write_index' = NextWrite(read_index, write_index, work_count, WorkSize)
  /\ work_count' = work_count + 1
  /\ queued' = Append(queued, accepts')
  /\ Signal
  /\ UNCHANGED <<phase, read_index, p_work, conn, taken, done>>

\* The write index is past the array: the store goes to memory the array
\* does not own.  It behaves as one more slot (SetWork), or as this.
SetWorkBeyond ==
  /\ phase = "accept"
  /\ Accept
  /\ CheckWrite(read_index, write_index, work_count, WorkSize)
  /\ write_index = WorkSize
  /\ phase' = "crashed"
  /\ UNCHANGED <<syncVars, threadVars, queued, taken, done>>

\* workeraa_set_work returns 0 and the server ignores it: the connection is
\* neither queued nor closed.  Either there is no room, or the struct of a
\* slot used for the first time cannot be allocated.
SetWorkRejected ==
  /\ phase = "accept"
  /\ Accept
  /\ \/ ~CheckWrite(read_index, write_index, work_count, WorkSize)
     \/ work[write_index] = NoConn
  /\ UNCHANGED <<phase, syncVars, threadVars, queued, taken, done>>

\* workeraa_set_work dereferences pool->sync without a test.
SetWorkNoSync ==
  /\ phase = "no_sync"
  /\ Accept
  /\ phase' = "crashed"
  /\ UNCHANGED <<syncVars, threadVars, queued, taken, done>>
\* accept() or select() fails: socketaa_server returns to main, which returns
\* and ends the process with whatever is queued or being served.
ServerReturns ==
  /\ phase \in {"accept", "no_sync"}
  /\ phase' = "exited"
  /\ UNCHANGED <<syncVars, threadVars, historyVars>>
-----------------------------------------------------------------------------
(* The worker threads: workeraa_main *)

Alive == phase \notin {"crashed", "exited"}

Running(t, place) == Alive /\ pc[t] = place

\* workeraa_get_work finds work_count = 0 and blocks.
GetWorkWait(t) ==
  /\ Running(t, "get")
  /\ work_count = 0
  /\ pc' = [pc EXCEPT ![t] = "wait"]
  /\ UNCHANGED <<phase, syncVars, p_work, conn, historyVars>>

\* pthread_cond_wait may return without a signal (and returns at once on an
\* error); the loop then tests work_count again.
SpuriousWakeup(t) ==
  /\ Running(t, "wait")
  /\ pc' = [pc EXCEPT ![t] = "get"]
  /\ UNCHANGED <<phase, syncVars, p_work, conn, historyVars>>

\* Mutant of GetWork: the pointer is read after the index was moved.
GetWork_MovesFirst(t) ==
  /\ Running(t, "get")
  /\ work_count > 0
  /\ CheckRead(read_index, write_index, work_count, WorkSize)
  /\ read_index' = NextRead(read_index, write_index, work_count, WorkSize)
  /\ p_work' = [p_work EXCEPT ![t] = read_index']
  /\ taken' = Append(taken, work[read_index'])
  /\ work_count' = work_count - 1
  /\ pc' = [pc EXCEPT ![t] = "begin"]
  /\ UNCHANGED <<phase, write_index, work, conn, accepts, queued, done>>

\* workeraa_get_work takes the POINTER of the slot at the read index.  Were
\* the check to fail, the function would return 0 and workeraa_main would
\* call it again with nothing changed: a stuttering step.
GetWork(t) ==
  /\ Running(t, "get")
  /\ work_count > 0
  /\ CheckRead(read_index, write_index, work_count, WorkSize)
  /\ p_work' = [p_work EXCEPT ![t] = read_index]
  /\ taken' = Append(taken, work[read_index])
  /\ read_index' = NextRead(read_index, write_index, work_count, WorkSize)
  /\ work_count' = work_count - 1
  /\ pc' = [pc EXCEPT ![t] = "begin"]
  /\ UNCHANGED <<phase, write_index, work, conn, accepts, queued, done>>

\* Mutant of Begin: the connection is read through the queue, not p_work.
Begin_ThroughQueue(t) ==
  /\ Running(t, "begin")
  /\ conn' = [conn EXCEPT ![t] = work[read_index]]
  /\ pc' = [pc EXCEPT ![t] = "serve"]
  /\ UNCHANGED <<phase, syncVars, p_work, historyVars>>

\* socketaa_get_port, WORKERAA_FUNC_INIT and the start of socketaa_worker
\* run without the mutex: s_conn is what the struct holds by then.
Begin(t) ==
  /\ Running(t, "begin")
  /\ conn' = [conn EXCEPT ![t] = work[p_work[t]]]
  /\ pc' = [pc EXCEPT ![t] = "serve"]
  /\ UNCHANGED <<phase, syncVars, p_work, historyVars>>

\* socketaa_worker returns and workeraa_main goes back to get_work.
Finish(t) ==
  /\ Running(t, "serve")
  /\ done' = done \cup {conn[t]}
  /\ pc' = [pc EXCEPT ![t] = "get"]
  /\ UNCHANGED <<phase, syncVars, p_work, conn, accepts, queued, taken>>
\* send() raises SIGPIPE (SocketWorker!SendKilled).
Killed(t) ==
  /\ Running(t, "serve")
  /\ phase' = "crashed"
  /\ UNCHANGED <<syncVars, threadVars, historyVars>>
-----------------------------------------------------------------------------
Server ==
  \/ SyncInit \/ SpawnEnd
  \/ SetWork \/ SetWorkBeyond \/ SetWorkRejected \/ SetWorkNoSync
  \/ ServerReturns

Worker(t) ==
  \/ GetWorkWait(t) \/ SpuriousWakeup(t) \/ GetWork(t)
  \/ Begin(t) \/ Finish(t) \/ Killed(t)

Next == Server \/ \E t \in Workers : Spawn(t) \/ Worker(t)

Spec == Init /\ [][Next]_vars

\* A thread that can run is eventually run, and socketaa_worker returns: its
\* select() calls share one 3 second timeout and its buffers are finite.
\* Nothing makes connections arrive.
LiveSpec ==
  Spec /\ \A t \in Workers : /\ WF_vars(GetWork(t))
                             /\ WF_vars(Begin(t))
                             /\ WF_vars(Finish(t))
-----------------------------------------------------------------------------
(* Properties of the whole life of the pool *)

Busy(t) == pc[t] \in {"begin", "serve"}

\* The ring indices never promise a work that is not there: however often
\* the indices have wrapped, a counted work can be taken
\* (workeraa_work_check_read_index succeeds), from a slot inside the array
\* whose pointer is not NULL, and never more works are counted than fit.
CountedIsReadable ==
  /\ work_count <= WorkSize
  /\ work_count > 0 =>
       /\ CheckRead(read_index, write_index, work_count, WorkSize)
       /\ read_index < WorkSize
       /\ work[read_index] # NoConn

\* The ring indices and the count keep the relation of RingOK.
RingInv == RingOK(read_index, write_index, work_count, WorkSize)

\* The slots the indices can reach have been posted to: all of them, or, while
\* the writer is on its first lap, the ones below the write index, and then
\* the count is bounded by the distance of the indices.
Frontier ==
  \/ \A i \in 0..WorkSize - 1 : work[i] # NoConn
  \/ /\ read_index <= write_index
     /\ work_count <= write_index - read_index
     /\ \A i \in 0..write_index - 1 : work[i] # NoConn

\* The count is what was posted and not yet taken.
CountsAgree ==
  /\ work_count = Len(queued) - Len(taken)
  /\ Len(queued) <= accepts

\* A worker that has taken a work points to a struct that holds one.
BusyHolds ==
  \A t \in Workers :
    /\ Busy(t) => p_work[t] \in Slots /\ work[p_work[t]] # NoConn
    /\ pc[t] = "serve" => conn[t] # NoConn

\* The inductive strengthening of TypeOK and CountedIsReadable.
PoolInv == TypeOK /\ RingInv /\ Frontier /\ CountsAgree /\ BusyHolds

\* No wakeup is lost between the signal of workeraa_set_work and the wait
\* loop of workeraa_get_work: while a worker is blocked, at least as many
\* workers are on their way to the queue as there are works in it.
NoLostWakeup ==
  (\E t \in Workers : pc[t] = "wait") =>
    Cardinality({t \in Workers : pc[t] = "get"}) >= work_count

\* Counted works do not stay in the array: if pthread_create succeeded for at
\* least one worker the count comes down to 0, or the process has ended.
WorkDrains ==
  (work_count > 0 /\ \E t \in Workers : pc[t] # "unborn")
    ~> (work_count = 0 \/ ~Alive)
-----------------------------------------------------------------------------
(* Properties of the first lap, MaxAccepts <= WorkSize *)

\* Works are handed out in the order in which they were posted, each once.
FifoOrder ==
  /\ Len(taken) <= Len(queued)
  /\ \A i \in 1..Len(taken) : taken[i] = queued[i]

\* A worker owns the struct its p_work points to: no other worker has the
\* same pointer and no post overwrites it before the worker is done with it.
OwnsStruct ==
  \A t \in Workers : Busy(t) =>
    /\ \A u \in Workers : Busy(u) /\ p_work[u] = p_work[t] => u = t
    /\ \E i \in 1..Len(taken) : taken[i] = work[p_work[t]]
    /\ pc[t] = "serve" => conn[t] = work[p_work[t]]
    /\ work[p_work[t]] \notin done

\* Accept numbers grow along the queue, so a connection is queued once.
QueuedInOrder ==
  \A i \in 1..Len(queued) :
    /\ queued[i] <= accepts
    /\ \A j \in 1..Len(queued) : i < j => queued[i] < queued[j]

\* The indices count the posts and the takes until the last slot is filled.
\* If some work had been taken by then, the write index wraps to 0 and on
\* to 1, and the read index wraps to 0 when it has passed the last slot.
LapIndices ==
  \/ /\ write_index = Len(queued)
     /\ read_index = Len(taken)
  \/ /\ Len(queued) = WorkSize
     /\ Len(taken) >= 1
     /\ write_index = 1
     /\ read_index = IF Len(taken) = WorkSize THEN 0 ELSE Len(taken)

\* The i-th posted work is in slot i - 1; busy workers point to distinct
\* slots below the number of takes; what is done had been taken.
LapSlots ==
  /\ \A i \in 1..Len(queued) : work[i - 1] = queued[i]
  /\ \A c \in done : \E i \in 1..Len(taken) : queued[i] = c
  /\ \A t \in Workers : Busy(t) =>
       /\ p_work[t] \in 0..Len(taken) - 1
       /\ \A u \in Workers : Busy(u) /\ p_work[u] = p_work[t] => u = t
       /\ pc[t] = "serve" => conn[t] = work[p_work[t]]
       /\ work[p_work[t]] \notin done

\* The inductive strengthening of FifoOrder, OwnsStruct and RefinesQueue.
LapInv == FifoOrder /\ QueuedInOrder /\ LapIndices /\ LapSlots

\* README: "When a work is available, the Worker takes the work and begin to
\* execute."  Every posted connection is executed if a worker was started and
\* the process has not ended.
WorkIsExecuted ==
  \A c \in Conns :
    ((\E i \in 1..Len(queued) : queued[i] = c) /\ \E t \in Workers : pc[t] # "unborn")
      ~> (c \in done \/ ~Alive)

\* The pool as the queue it promises to be: the counted slots from the read
\* index on are the queue, the structs the workers point to are in service.
Queue == INSTANCE WorkQueue WITH
  queue <- [i \in 1..work_count |-> work[read_index + i - 1]],
  serving <- {work[p_work[t]] : t \in {u \in Workers : Busy(u)}}

RefinesQueue == Queue!QueueSpec
=============================================================================
