---------------------------- MODULE Pool_proofs -----------------------------
(* Proofs about the Workers Pool and the descriptors its server hands out,   *)
(* for every number of workers, every size of the works array and every      *)
(* number of accepted connections: the inductive invariant of the pool, its  *)
(* condition variable, its first lap, and the descriptors on that lap.       *)
EXTENDS Descriptors, FiniteSetTheorems, TLAPS

\* A post keeps the ring indices related (workeraa_work_set_next_write_index
\* followed by work_count++).
LEMMA WriteKeepsRing ==
  ASSUME NEW n \in Nat \ {0}, NEW r \in 0..n, NEW w \in 0..n, NEW c \in Nat,
         RingOK(r, w, c, n), CheckWrite(r, w, c, n)
  PROVE  /\ NextWrite(r, w, c, n) \in 0..n
         /\ RingOK(r, NextWrite(r, w, c, n), c + 1, n)
  BY DEF RingOK, CheckWrite, CheckWriteAt, NextWrite, Ahead, Behind, Clamp

\* A take keeps the ring indices related (workeraa_work_set_next_read_index
\* followed by work_count--).
LEMMA ReadKeepsRing ==
  ASSUME NEW n \in Nat \ {0}, NEW r \in 0..n, NEW w \in 0..n,
         NEW c \in Nat \ {0}, RingOK(r, w, c, n)
  PROVE  /\ NextRead(r, w, c, n) \in 0..n
         /\ RingOK(NextRead(r, w, c, n), w, c - 1, n)
  BY DEF RingOK, NextRead, Ahead, Behind, Clamp

\* A counted work lies in the array and the read check accepts it.
LEMMA CountedInRange ==
  ASSUME NEW n \in Nat \ {0}, NEW r \in 0..n, NEW w \in 0..n,
         NEW c \in Nat \ {0}, RingOK(r, w, c, n)
  PROVE  r < n /\ CheckRead(r, w, c, n)
  BY DEF RingOK, CheckRead, CheckReadAt, Clamp

\* The zeroed sync struct satisfies the invariant.
LEMMA InitPoolInv == Init => PoolInv
  BY WorkSizeAssumption, MaxAcceptsAssumption
  DEF Init, PoolInv, TypeOK, RingInv, RingOK, Frontier, CountsAgree, BusyHolds,
      Busy, Slots, Conns, Places, Phases, NoConn, NoSlot

\* Posting: the ring lemma gives the indices, the store fills the slot at the
\* frontier or overwrites a filled one.
LEMMA SetWorkPoolInv == PoolInv /\ SetWork => PoolInv'
<1> SUFFICES ASSUME PoolInv, SetWork PROVE PoolInv'
  OBVIOUS
<1> USE WorkSizeAssumption, MaxAcceptsAssumption
<1>1. /\ TypeOK /\ RingInv /\ Frontier /\ CountsAgree /\ BusyHolds
      /\ accepts' = accepts + 1 /\ accepts' \in Conns
      /\ work_count' = work_count + 1
      /\ work' = [work EXCEPT ![write_index] = accepts']
      /\ write_index' = NextWrite(read_index, write_index, work_count, WorkSize)
      /\ CheckWrite(read_index, write_index, work_count, WorkSize)
      /\ UNCHANGED <<phase, read_index, p_work, conn, taken, done>>
      /\ queued' = Append(queued, accepts')
  BY DEF PoolInv, SetWork, Accept, TypeOK, Conns
<1>2. /\ write_index' \in 0..WorkSize
      /\ RingOK(read_index, write_index', work_count + 1, WorkSize)
  BY <1>1, WriteKeepsRing DEF TypeOK, RingInv, Slots
<1>3. /\ pc' \in [Workers -> Places]
      /\ \A t \in Workers : /\ pc'[t] = pc[t] \/ (pc[t] = "wait" /\ pc'[t] = "get")
  BY <1>1 DEF SetWork, Signal, TypeOK, Places
<1>4. /\ queued' \in Seq(Conns)
      /\ Len(queued') = Len(queued) + 1
  BY <1>1 DEF TypeOK
<1>5. CountsAgree'
  BY <1>1, <1>4 DEF CountsAgree, TypeOK
<1>6. /\ work' \in [Slots -> Conns \cup {NoConn}]
      /\ \A i \in Slots : work'[i] # NoConn <=> work[i] # NoConn \/ i = write_index
  BY <1>1 DEF TypeOK, NoConn, Conns
<1>7. TypeOK'
  <2>1. work_count' \in 0..MaxAccepts
    BY <1>1, <1>5, <1>4 DEF CountsAgree, TypeOK, Conns
  <2> QED
    BY <1>1, <1>2, <1>3, <1>4, <1>6, <2>1 DEF TypeOK, Slots, Conns
<1>8. RingInv'
  BY <1>1, <1>2 DEF RingInv
<1>9. Frontier'
  <2>1. CASE \A i \in 0..WorkSize - 1 : work[i] # NoConn
    BY <1>6, <2>1 DEF Frontier, Slots
  <2>2. CASE /\ read_index <= write_index
             /\ work_count <= write_index - read_index
             /\ \A i \in 0..write_index - 1 : work[i] # NoConn
    <3>1. \A i \in 0..write_index : i \in Slots => work'[i] # NoConn
      BY <1>1, <1>6, <2>2 DEF TypeOK, Slots
    <3>2. CASE write_index + 1 < WorkSize
      <4>1. write_index' = write_index + 1
        BY <1>1, <2>2, <3>2 DEF NextWrite, Ahead, Behind, Clamp, TypeOK, Slots
      <4> QED
        BY <1>1, <2>2, <3>1, <3>2, <4>1 DEF Frontier, TypeOK, Slots
    <3>3. CASE ~(write_index + 1 < WorkSize)
      BY <1>1, <3>1, <3>3 DEF Frontier, TypeOK, Slots
    <3> QED
      BY <3>2, <3>3
  <2> QED
    BY <1>1, <2>1, <2>2 DEF Frontier
<1>10. BusyHolds'
  BY <1>1, <1>3, <1>6 DEF BusyHolds, Busy
<1> QED
  BY <1>5, <1>7, <1>8, <1>9, <1>10 DEF PoolInv

\* Taking: the slot at the read index is filled, so what is handed out is a
\* connection.
LEMMA GetWorkPoolInv ==
  ASSUME NEW t \in Workers, PoolInv, GetWork(t)
  PROVE  PoolInv'
<1> USE WorkSizeAssumption, MaxAcceptsAssumption
<1>1. /\ TypeOK /\ RingInv /\ Frontier /\ CountsAgree /\ BusyHolds
      /\ work_count > 0
      /\ work_count' = work_count - 1
      /\ read_index' = NextRead(read_index, write_index, work_count, WorkSize)
      /\ taken' = Append(taken, work[read_index])
      /\ p_work' = [p_work EXCEPT ![t] = read_index]
      /\ pc' = [pc EXCEPT ![t] = "begin"]
      /\ UNCHANGED <<phase, write_index, work, conn, accepts, queued, done>>
  BY DEF PoolInv, GetWork
<1>2. /\ read_index' \in 0..WorkSize
      /\ RingOK(read_index', write_index, work_count - 1, WorkSize)
      /\ read_index < WorkSize
  BY <1>1, ReadKeepsRing, CountedInRange DEF TypeOK, RingInv, Slots
<1>3. work[read_index] \in Conns
  BY <1>1, <1>2 DEF Frontier, TypeOK, Slots, NoConn
<1>4. /\ taken' \in Seq(Conns)
      /\ Len(taken') = Len(taken) + 1
  BY <1>1, <1>3 DEF TypeOK
<1>5. CountsAgree'
  BY <1>1, <1>4 DEF CountsAgree, TypeOK
<1>6. TypeOK'
  BY <1>1, <1>2, <1>4 DEF TypeOK, Slots, Places
<1>7. RingInv'
  BY <1>1, <1>2 DEF RingInv
<1>8. Frontier'
  <2>1. CASE \A i \in 0..WorkSize - 1 : work[i] # NoConn
    BY <1>1, <2>1 DEF Frontier
  <2>2. CASE /\ read_index <= write_index
             /\ work_count <= write_index - read_index
             /\ \A i \in 0..write_index - 1 : work[i] # NoConn
    <3>1. read_index' = read_index + 1
      BY <1>1, <2>2 DEF NextRead, Ahead, Behind, Clamp, TypeOK, Slots
    <3> QED
      BY <1>1, <2>2, <3>1 DEF Frontier, TypeOK, Slots
  <2> QED
    BY <1>1, <2>1, <2>2 DEF Frontier
<1>9. BusyHolds'
  BY <1>1, <1>2, <1>3 DEF BusyHolds, Busy, TypeOK, NoConn, Conns
<1> QED
  BY <1>5, <1>6, <1>7, <1>8, <1>9 DEF PoolInv

\* The remaining actions leave the sync struct alone.
LEMMA OtherPoolInv ==
  ASSUME PoolInv,
         \/ UNCHANGED vars \/ SyncInit \/ SpawnEnd \/ SetWorkBeyond
         \/ SetWorkRejected \/ SetWorkNoSync \/ ServerReturns
         \/ \E t \in Workers : Spawn(t) \/ GetWorkWait(t) \/ SpuriousWakeup(t)
                               \/ Begin(t) \/ Finish(t) \/ Killed(t)
  PROVE  PoolInv'
<1> USE MaxAcceptsAssumption
<1>1. /\ UNCHANGED syncVars /\ UNCHANGED <<queued, taken>>
      /\ accepts' \in 0..MaxAccepts /\ accepts' >= accepts
      /\ phase' \in Phases
  BY DEF PoolInv, TypeOK, vars, syncVars, threadVars, historyVars, SyncInit, SpawnEnd,
         SetWorkBeyond, SetWorkRejected, SetWorkNoSync, ServerReturns, Accept, Spawn, GetWorkWait,
         SpuriousWakeup, Begin, Finish, Killed, Phases
<1>2. RingInv' /\ Frontier' /\ CountsAgree'
  BY <1>1 DEF PoolInv, RingInv, Frontier, CountsAgree, syncVars, TypeOK
<1>3. /\ pc' \in [Workers -> Places]
      /\ p_work' = p_work
      /\ conn' \in [Workers -> Conns \cup {NoConn}]
      /\ done' \in SUBSET Conns
      /\ BusyHolds'
  <2>1. CASE UNCHANGED <<pc, p_work, conn, done>>
    BY <1>1, <2>1 DEF PoolInv, TypeOK, BusyHolds, Busy, syncVars
  <2>2. ASSUME NEW t \in Workers, Spawn(t) \/ GetWorkWait(t) \/ SpuriousWakeup(t)
        PROVE  <1>3!:
    BY <1>1, <2>2 DEF PoolInv, TypeOK, BusyHolds, Busy, syncVars, Spawn, GetWorkWait,
       SpuriousWakeup, Places, historyVars
  <2>3. ASSUME NEW t \in Workers, Begin(t)
        PROVE  <1>3!:
    BY <1>1, <2>3 DEF PoolInv, TypeOK, BusyHolds, Busy, syncVars, Begin, Running, Places,
       historyVars
  <2>4. ASSUME NEW t \in Workers, Finish(t)
        PROVE  <1>3!:
    BY <1>1, <2>4 DEF PoolInv, TypeOK, BusyHolds, Busy, syncVars, Finish, Running, Places
  <2> QED
    BY <2>1, <2>2, <2>3, <2>4 DEF vars, threadVars, historyVars, SyncInit, SpawnEnd,
       SetWorkBeyond, SetWorkRejected, SetWorkNoSync, ServerReturns, Killed
<1> QED
  BY <1>1, <1>2, <1>3 DEF PoolInv, TypeOK, syncVars

\* PoolInv holds throughout the life of the pool.
THEOREM PoolInvariant == Spec => []PoolInv
<1>1. PoolInv /\ [Next]_vars => PoolInv'
  BY SetWorkPoolInv, GetWorkPoolInv, OtherPoolInv DEF Next, Server, Worker
<1> QED
  BY <1>1, InitPoolInv, PTL DEF Spec

\* Every variable keeps its type; in particular both indices stay within the
\* array's bounds plus the one "full" value work_size.
THEOREM TypeCorrect == Spec => []TypeOK
<1>1. PoolInv => TypeOK
  BY DEF PoolInv
<1> QED
  BY <1>1, PoolInvariant, PTL

\* A counted work can always be taken, from inside the array, and is a
\* connection that was posted: workeraa_get_work never fails after its wait.
THEOREM CountedWorkIsReadable == Spec => []CountedIsReadable
<1>1. PoolInv => CountedIsReadable
  <2> SUFFICES ASSUME PoolInv PROVE CountedIsReadable
    OBVIOUS
  <2>1. work_count <= WorkSize
    BY DEF PoolInv, RingInv, RingOK
  <2>2. ASSUME work_count > 0
        PROVE  /\ CheckRead(read_index, write_index, work_count, WorkSize)
               /\ read_index < WorkSize
    BY <2>2, CountedInRange, WorkSizeAssumption, MaxAcceptsAssumption
    DEF PoolInv, RingInv, TypeOK, Slots
  <2>3. ASSUME work_count > 0
        PROVE  work[read_index] # NoConn
    BY <2>2, <2>3, WorkSizeAssumption, MaxAcceptsAssumption
    DEF PoolInv, Frontier, TypeOK, Slots
  <2> QED
    BY <2>1, <2>2, <2>3 DEF CountedIsReadable
<1> QED
  BY <1>1, PoolInvariant, PTL

-----------------------------------------------------------------------------
(* The condition variable of the pool loses no wakeup, for every number of *)
(* workers: NoLostWakeup is inductive given the types.                     *)

Getters == {t \in Workers : pc[t] = "get"}

\* The workers on their way to the queue can be counted.
LEMMA GettersFinite == IsFiniteSet(Getters) /\ Cardinality(Getters) \in Nat
  BY WorkersAssumption, FS_Subset, FS_CardinalityType DEF Getters

\* One more worker on its way to the queue.
LEMMA GetterAdded ==
  ASSUME NEW t \in Workers, TypeOK, pc[t] # "get", pc' = [pc EXCEPT ![t] = "get"]
  PROVE  Cardinality(Getters') = Cardinality(Getters) + 1
<1>1. Getters' = Getters \cup {t} /\ t \notin Getters
  BY DEF Getters, TypeOK
<1> QED
  BY <1>1, GettersFinite, FS_AddElement

\* One worker has left for its work.
LEMMA GetterRemoved ==
  ASSUME NEW t \in Workers, NEW place \in Places \ {"get"}, TypeOK, pc[t] = "get",
         pc' = [pc EXCEPT ![t] = place]
  PROVE  Cardinality(Getters') = Cardinality(Getters) - 1
<1>1. Getters' = Getters \ {t} /\ t \in Getters
  BY DEF Getters, TypeOK
<1> QED
  BY <1>1, GettersFinite, FS_RemoveElement

\* While a worker is blocked in pthread_cond_wait, at least as many workers are
\* about to look at the queue as it holds works.
THEOREM WakeupsAreNotLost == Spec => []NoLostWakeup
<1>1. Init => NoLostWakeup
  BY DEF Init, NoLostWakeup
<1>2. TypeOK /\ NoLostWakeup /\ [Next]_vars => NoLostWakeup'
  <2> SUFFICES ASSUME TypeOK, NoLostWakeup, [Next]_vars PROVE NoLostWakeup'
    OBVIOUS
  <2> USE MaxAcceptsAssumption, GettersFinite
  <2> DEFINE Waits == \E t \in Workers : pc[t] = "wait"
  <2>0. /\ Waits => Cardinality(Getters) >= work_count
        /\ work_count \in Nat
    BY DEF NoLostWakeup, Getters, TypeOK
  <2>a. SUFFICES ASSUME Waits' PROVE Cardinality(Getters') >= work_count'
    BY DEF NoLostWakeup, Getters
  <2>1. CASE SetWork
    <3>1. PICK t \in Workers : pc[t] = "wait" /\ pc' = [pc EXCEPT ![t] = "get"]
      BY <2>a, <2>1 DEF SetWork, Signal
    <3>2. Cardinality(Getters') = Cardinality(Getters) + 1
      BY <3>1, GetterAdded
    <3> QED
      BY <2>0, <2>1, <3>1, <3>2 DEF SetWork
  <2>2. ASSUME NEW t \in Workers, GetWork(t) PROVE Cardinality(Getters') >= work_count'
    <3>1. Cardinality(Getters') = Cardinality(Getters) - 1
      BY <2>2, GetterRemoved DEF GetWork, Running, Places
    <3>2. Waits
      BY <2>2, <2>a DEF GetWork, TypeOK
    <3> QED
      BY <2>0, <2>2, <3>1, <3>2 DEF GetWork
  <2>3. ASSUME NEW t \in Workers, GetWorkWait(t) PROVE Cardinality(Getters') >= work_count'
    <3>1. Cardinality(Getters') = Cardinality(Getters) - 1 /\ t \in Getters
      BY <2>3, GetterRemoved DEF GetWorkWait, Running, Places, Getters
    <3>2. Cardinality(Getters) # 0
      BY <3>1, FS_EmptySet
    <3> QED
      BY <2>3, <3>1, <3>2 DEF GetWorkWait, syncVars
  <2>4. ASSUME NEW t \in Workers, Spawn(t) \/ SpuriousWakeup(t) \/ Finish(t)
        PROVE  Cardinality(Getters') >= work_count'
    <3>1. pc[t] # "get" /\ pc' = [pc EXCEPT ![t] = "get"] /\ UNCHANGED work_count
      BY <2>4 DEF Spawn, SpuriousWakeup, Finish, Running, syncVars
    <3>2. Cardinality(Getters') = Cardinality(Getters) + 1
      BY <3>1, GetterAdded
    <3>3. Waits
      BY <2>a, <3>1 DEF TypeOK
    <3> QED
      BY <2>0, <3>1, <3>2, <3>3
  <2>5. ASSUME NEW t \in Workers, Begin(t) PROVE Cardinality(Getters') >= work_count'
    <3>1. Getters' = Getters /\ Waits /\ UNCHANGED work_count
      BY <2>5, <2>a DEF Begin, Running, Getters, TypeOK, syncVars
    <3> QED
      BY <2>0, <3>1
  <2>6. CASE UNCHANGED <<pc, work_count>>
    BY <2>0, <2>6, <2>a DEF Getters
  <2> QED
    BY <2>1, <2>2, <2>3, <2>4, <2>5, <2>6
    DEF Next, Server, Worker, vars, syncVars, threadVars, SyncInit, SpawnEnd,
        SetWorkBeyond, SetWorkRejected, SetWorkNoSync, ServerReturns, Killed
<1> QED
  BY <1>1, <1>2, TypeCorrect, PTL DEF Spec

-----------------------------------------------------------------------------
(* While no more connections are accepted than the works array has slots, *)
(* the pool is a first-in first-out queue whose workers own the structs   *)
(* they work on.  (On later laps neither holds: see PoolSkippedSlot.cfg.) *)

\* The zeroed sync struct starts the first lap.
LEMMA InitLapInv == Init => LapInv
  BY WorkSizeAssumption
  DEF Init, LapInv, FifoOrder, QueuedInOrder, LapIndices, LapSlots, Busy

\* A post in the first lap goes to a slot that was never posted to.
LEMMA SetWorkLapInv ==
  ASSUME MaxAccepts <= WorkSize, PoolInv, PoolInv', LapInv, SetWork
  PROVE  LapInv'
<1> USE WorkSizeAssumption, MaxAcceptsAssumption
<1>1. /\ TypeOK /\ TypeOK' /\ CountsAgree /\ CountsAgree'
      /\ FifoOrder /\ QueuedInOrder /\ LapIndices /\ LapSlots
      /\ accepts < MaxAccepts /\ accepts' = accepts + 1
      /\ work' = [work EXCEPT ![write_index] = accepts']
      /\ write_index' = NextWrite(read_index, write_index, work_count, WorkSize)
      /\ queued' = Append(queued, accepts')
      /\ UNCHANGED <<read_index, p_work, conn, taken, done>>
  BY DEF PoolInv, LapInv, SetWork, Accept
<1>2. /\ Len(queued) < WorkSize
      /\ write_index = Len(queued) /\ read_index = Len(taken)
      /\ work_count = Len(queued) - Len(taken)
      /\ Len(taken) \in Nat /\ Len(queued) \in Nat
      /\ Len(taken) <= Len(queued)
  BY <1>1 DEF TypeOK, CountsAgree, LapIndices, FifoOrder
<1>3. /\ Len(queued') = Len(queued) + 1
      /\ queued'[Len(queued) + 1] = accepts'
      /\ \A i \in 1..Len(queued) : queued'[i] = queued[i]
  BY <1>1 DEF TypeOK
<1>4. FifoOrder'
  BY <1>1, <1>2, <1>3 DEF FifoOrder
<1>5. QueuedInOrder'
  <2>1. /\ accepts \in Nat /\ accepts' = accepts + 1
        /\ \A i \in 1..Len(queued) : queued[i] \in Nat
    BY <1>1 DEF TypeOK, Conns
  <2>2. /\ \A i \in 1..Len(queued) : queued[i] <= accepts
        /\ \A i, j \in 1..Len(queued) : i < j => queued[i] < queued[j]
    BY <1>1 DEF QueuedInOrder
  <2>3. ASSUME NEW i \in 1..Len(queued')
        PROVE  \/ i \in 1..Len(queued) /\ queued'[i] = queued[i]
               \/ i = Len(queued) + 1 /\ queued'[i] = accepts'
    BY <1>2, <1>3
  <2>4. ASSUME NEW i \in 1..Len(queued')
        PROVE  queued'[i] <= accepts'
    BY <2>1, <2>2, <2>3
  <2>5. ASSUME NEW i \in 1..Len(queued'), NEW j \in 1..Len(queued'), i < j
        PROVE  queued'[i] < queued'[j]
    <3>1. i \in 1..Len(queued) /\ queued'[i] = queued[i]
      BY <1>2, <1>3, <2>5
    <3>2. CASE j \in 1..Len(queued) /\ queued'[j] = queued[j]
      BY <2>2, <2>5, <3>1, <3>2
    <3>3. CASE queued'[j] = accepts'
      BY <2>1, <2>2, <3>1, <3>3
    <3> QED
      BY <2>3, <3>2, <3>3
  <2> QED
    BY <2>4, <2>5 DEF QueuedInOrder
<1>6. LapIndices'
  BY <1>1, <1>2, <1>3 DEF LapIndices, NextWrite, Ahead, Behind, Clamp
<1>7. \A t \in Workers : Busy(t)' <=> Busy(t)
  BY <1>1 DEF SetWork, Signal, Busy, TypeOK
<1>8. \A t \in Workers : pc'[t] = "serve" <=> pc[t] = "serve"
  BY <1>1 DEF SetWork, Signal, TypeOK
<1>9. /\ \A i \in 0..Len(queued) - 1 : work'[i] = work[i]
      /\ work'[Len(queued)] = accepts'
  BY <1>1, <1>2 DEF TypeOK, Slots
<1>10. LapSlots'
  <2>1. \A i \in 1..Len(queued') : work'[i - 1] = queued'[i]
    BY <1>1, <1>2, <1>3, <1>9 DEF LapSlots
  <2>2. \A c \in done' : \E i \in 1..Len(taken') : queued'[i] = c
    BY <1>1, <1>2, <1>3 DEF LapSlots
  <2>3. ASSUME NEW t \in Workers, Busy(t)'
        PROVE  /\ p_work'[t] \in 0..Len(taken') - 1
               /\ \A u \in Workers : Busy(u)' /\ p_work'[u] = p_work'[t] => u = t
               /\ pc'[t] = "serve" => conn'[t] = work'[p_work'[t]]
               /\ work'[p_work'[t]] \notin done'
    <3>1. p_work[t] \in 0..Len(taken) - 1 /\ work'[p_work[t]] = work[p_work[t]]
      BY <1>1, <1>2, <1>7, <1>9, <2>3 DEF LapSlots
    <3> QED
      BY <1>1, <1>7, <1>8, <2>3, <3>1 DEF LapSlots
  <2> QED
    BY <2>1, <2>2, <2>3 DEF LapSlots
<1> QED
  BY <1>4, <1>5, <1>6, <1>10 DEF LapInv

\* A take in the first lap hands out the oldest work in a slot no one holds.
LEMMA GetWorkLapInv ==
  ASSUME NEW t \in Workers, PoolInv, PoolInv', LapInv, GetWork(t)
  PROVE  LapInv'
<1> USE WorkSizeAssumption, MaxAcceptsAssumption
<1>1. /\ TypeOK /\ TypeOK' /\ CountsAgree
      /\ FifoOrder /\ QueuedInOrder /\ LapIndices /\ LapSlots
      /\ work_count > 0 /\ pc[t] = "get"
      /\ pc' = [pc EXCEPT ![t] = "begin"]
      /\ p_work' = [p_work EXCEPT ![t] = read_index]
      /\ taken' = Append(taken, work[read_index])
      /\ read_index' = NextRead(read_index, write_index, work_count, WorkSize)
      /\ read_index < WorkSize
      /\ UNCHANGED <<write_index, work, conn, accepts, queued, done>>
  BY CountedInRange DEF PoolInv, LapInv, GetWork, Running, RingInv, TypeOK, Slots
<1>2. /\ read_index = Len(taken)
      /\ work_count = Len(queued) - Len(taken)
      /\ Len(taken) \in Nat /\ Len(queued) \in Nat
      /\ Len(taken) < Len(queued)
  BY <1>1 DEF TypeOK, CountsAgree, LapIndices
<1>3. /\ Len(taken') = Len(taken) + 1
      /\ taken'[Len(taken) + 1] = work[read_index]
      /\ \A i \in 1..Len(taken) : taken'[i] = taken[i]
  BY <1>1 DEF TypeOK
<1>4. work[read_index] = queued[Len(taken) + 1]
  BY <1>1, <1>2 DEF LapSlots
<1>5. FifoOrder'
  BY <1>1, <1>2, <1>3, <1>4 DEF FifoOrder
<1>6. QueuedInOrder'
  BY <1>1 DEF QueuedInOrder
<1>7. LapIndices'
  BY <1>1, <1>2, <1>3 DEF LapIndices, NextRead, Ahead, Behind, Clamp
<1>8. LapSlots'
  <2>1. work[read_index] \notin done
    <3>1. \A i \in 1..Len(taken) : queued[i] < queued[Len(taken) + 1]
      <4> SUFFICES ASSUME NEW i \in 1..Len(taken)
                   PROVE  queued[i] < queued[Len(taken) + 1]
        OBVIOUS
      <4>1. /\ i \in 1..Len(queued) /\ Len(taken) + 1 \in 1..Len(queued)
            /\ i < Len(taken) + 1
        BY <1>2
      <4> QED
        BY <1>1, <4>1 DEF QueuedInOrder
    <3>2. \A i \in 1..Len(queued) : queued[i] \in Nat
      BY <1>1 DEF TypeOK, Conns
    <3>3. \A i \in 1..Len(taken) : queued[i] # queued[Len(taken) + 1]
      BY <1>2, <3>1, <3>2
    <3> QED
      BY <1>1, <1>4, <3>3 DEF LapSlots
  <2>2. /\ \A i \in 1..Len(queued') : work'[i - 1] = queued'[i]
        /\ \A c \in done' : \E i \in 1..Len(taken') : queued'[i] = c
    BY <1>1, <1>2, <1>3 DEF LapSlots
  <2>3. \A u \in Workers : /\ Busy(u)' <=> Busy(u) \/ u = t
                           /\ u # t => p_work'[u] = p_work[u] /\ pc'[u] = pc[u]
    BY <1>1 DEF Busy, TypeOK
  <2>4. ~Busy(t) /\ p_work'[t] = Len(taken) /\ pc'[t] = "begin"
    BY <1>1, <1>2 DEF Busy, TypeOK
  <2>5. ASSUME NEW v \in Workers, Busy(v)'
        PROVE  /\ p_work'[v] \in 0..Len(taken') - 1
               /\ \A u \in Workers : Busy(u)' /\ p_work'[u] = p_work'[v] => u = v
               /\ pc'[v] = "serve" => conn'[v] = work'[p_work'[v]]
               /\ work'[p_work'[v]] \notin done'
    <3>1. \A u \in Workers : Busy(u) => p_work[u] \in 0..Len(taken) - 1
      BY <1>1 DEF LapSlots
    <3>2. CASE v = t
      BY <1>1, <1>2, <1>3, <2>1, <2>3, <2>4, <3>1, <3>2
    <3>3. CASE v # t
      <4>1. Busy(v) /\ p_work'[v] = p_work[v] /\ pc'[v] = pc[v]
        BY <2>3, <2>5, <3>3
      <4>2. /\ p_work[v] \in 0..Len(taken') - 1
            /\ p_work[v] # Len(taken)
        BY <1>2, <1>3, <3>1, <4>1
      <4>3. \A u \in Workers : Busy(u)' /\ p_work'[u] = p_work[v] => u = v
        BY <1>1, <2>3, <2>4, <4>1, <4>2 DEF LapSlots
      <4> QED
        BY <1>1, <4>1, <4>2, <4>3 DEF LapSlots
    <3> QED
      BY <3>2, <3>3
  <2> QED
    BY <2>2, <2>5 DEF LapSlots
<1> QED
  BY <1>5, <1>6, <1>7, <1>8 DEF LapInv

\* The remaining actions move no index and no queued work.
LEMMA OtherLapInv ==
  ASSUME PoolInv, PoolInv', LapInv,
         \/ UNCHANGED vars \/ SyncInit \/ SpawnEnd \/ SetWorkBeyond
         \/ SetWorkRejected \/ SetWorkNoSync \/ ServerReturns
         \/ \E t \in Workers : Spawn(t) \/ GetWorkWait(t) \/ SpuriousWakeup(t)
                               \/ Begin(t) \/ Finish(t) \/ Killed(t)
  PROVE  LapInv'
<1> USE WorkSizeAssumption, MaxAcceptsAssumption
<1>1. /\ UNCHANGED syncVars /\ UNCHANGED <<queued, taken, p_work>>
      /\ accepts' >= accepts
      /\ accepts \in Nat /\ accepts' \in Nat
  BY DEF PoolInv, TypeOK, vars, syncVars, threadVars, historyVars, SyncInit, SpawnEnd,
         SetWorkBeyond, SetWorkRejected, SetWorkNoSync, ServerReturns, Accept, Spawn, GetWorkWait,
         SpuriousWakeup, Begin, Finish, Killed
<1>2. FifoOrder' /\ QueuedInOrder' /\ LapIndices'
  BY <1>1 DEF PoolInv, TypeOK, LapInv, FifoOrder, QueuedInOrder, LapIndices, syncVars, Conns
<1>3. LapSlots'
  <2>1. CASE UNCHANGED <<pc, conn, done>>
    BY <1>1, <2>1 DEF LapInv, LapSlots, Busy, syncVars
  <2>2. ASSUME NEW t \in Workers, Spawn(t) \/ GetWorkWait(t) \/ SpuriousWakeup(t)
        PROVE  LapSlots'
    <3>1. /\ UNCHANGED <<conn, done>>
          /\ \A u \in Workers : /\ Busy(u)' => Busy(u)
                                /\ pc'[u] = "serve" => pc[u] = "serve"
      BY <2>2 DEF Spawn, GetWorkWait, SpuriousWakeup, Busy, PoolInv, TypeOK, historyVars
    <3> QED
      BY <1>1, <3>1 DEF LapInv, LapSlots, syncVars
  <2>3. ASSUME NEW t \in Workers, Begin(t) PROVE LapSlots'
    <3>1. /\ UNCHANGED done
          /\ conn'[t] = work[p_work[t]]
          /\ Busy(t)
          /\ \A u \in Workers : /\ Busy(u)' <=> Busy(u)
                                /\ u # t => pc'[u] = pc[u] /\ conn'[u] = conn[u]
      BY <2>3 DEF Begin, Running, Busy, PoolInv, TypeOK, historyVars
    <3> QED
      BY <1>1, <3>1 DEF LapInv, LapSlots, syncVars
  <2>4. ASSUME NEW t \in Workers, Finish(t) PROVE LapSlots'
    <3>1. /\ done' = done \cup {work[p_work[t]]}
          /\ UNCHANGED conn
          /\ Busy(t)
          /\ \A u \in Workers : /\ Busy(u)' <=> Busy(u) /\ u # t
                                /\ u # t => pc'[u] = pc[u]
      BY <2>4 DEF Finish, Running, Busy, PoolInv, TypeOK, LapInv, LapSlots
    <3>2. \A u \in Workers : Busy(u) => /\ p_work[u] + 1 \in 1..Len(taken)
                                        /\ p_work[u] + 1 \in 1..Len(queued)
                                        /\ work[p_work[u]] = queued[p_work[u] + 1]
      <4>1. /\ Len(taken) \in Nat /\ Len(queued) \in Nat
            /\ Len(taken) <= Len(queued)
            /\ \A i \in 1..Len(queued) : work[i - 1] = queued[i]
        BY DEF LapInv, LapSlots, FifoOrder, PoolInv, TypeOK
      <4>2. ASSUME NEW u \in Workers, Busy(u) PROVE p_work[u] \in 0..Len(taken) - 1
        BY <4>2 DEF LapInv, LapSlots
      <4>3. ASSUME NEW u \in Workers, Busy(u)
            PROVE  /\ p_work[u] + 1 \in 1..Len(taken) /\ p_work[u] + 1 \in 1..Len(queued)
                   /\ (p_work[u] + 1) - 1 = p_work[u]
        BY <4>1, <4>2, <4>3
      <4> QED
        BY <4>1, <4>3
    <3>3. \A u \in Workers : Busy(u) /\ u # t => work[p_work[u]] # work[p_work[t]]
      <4>1. \A i \in 1..Len(queued), j \in 1..Len(queued) :
              i # j => queued[i] # queued[j]
        BY DEF LapInv, QueuedInOrder, PoolInv, TypeOK, Conns
      <4>2. \A u \in Workers : Busy(u) => p_work[u] \in Int
        BY DEF LapInv, LapSlots
      <4>3. \A u \in Workers : Busy(u) /\ u # t => p_work[u] # p_work[t]
        BY <3>1 DEF LapInv, LapSlots
      <4> QED
        BY <3>1, <3>2, <4>1, <4>2, <4>3
    <3>4. /\ \A i \in 1..Len(queued') : work'[i - 1] = queued'[i]
          /\ \A c \in done' : \E i \in 1..Len(taken') : queued'[i] = c
      BY <1>1, <3>1, <3>2 DEF LapInv, LapSlots, syncVars
    <3>5. \A u \in Workers : Busy(u)' =>
            /\ p_work'[u] \in 0..Len(taken') - 1
            /\ \A v \in Workers : Busy(v)' /\ p_work'[v] = p_work'[u] => v = u
            /\ pc'[u] = "serve" => conn'[u] = work'[p_work'[u]]
            /\ work'[p_work'[u]] \notin done'
      BY <1>1, <3>1, <3>3 DEF LapInv, LapSlots, syncVars
    <3> QED
      BY <3>4, <3>5 DEF LapSlots
  <2> QED
    BY <2>1, <2>2, <2>3, <2>4 DEF vars, threadVars, historyVars, SyncInit, SpawnEnd,
       SetWorkBeyond, SetWorkRejected, SetWorkNoSync, ServerReturns, Killed
<1> QED
  BY <1>2, <1>3 DEF LapInv

\* LapInv holds in every behaviour that accepts at most WorkSize connections.
THEOREM LapInvariant ==
  ASSUME MaxAccepts <= WorkSize
  PROVE  Spec => [](PoolInv /\ LapInv)
<1>1. PoolInv /\ PoolInv' /\ LapInv /\ [Next]_vars => LapInv'
  BY SetWorkLapInv, GetWorkLapInv, OtherLapInv DEF Next, Server, Worker
<1> QED
  BY <1>1, InitLapInv, PoolInvariant, PTL DEF Spec

\* In the first lap works are handed out in posting order, each exactly once.
THEOREM FirstLapIsFifo ==
  ASSUME MaxAccepts <= WorkSize
  PROVE  Spec => []FifoOrder
<1>1. LapInv => FifoOrder
  BY DEF LapInv
<1> QED
  BY <1>1, LapInvariant, PTL

\* In the first lap a worker's struct is neither shared with another worker
\* nor overwritten by a later post while the worker uses it.
THEOREM FirstLapOwnsStruct ==
  ASSUME MaxAccepts <= WorkSize
  PROVE  Spec => []OwnsStruct
<1>1. PoolInv /\ LapInv => OwnsStruct
  <2> SUFFICES ASSUME PoolInv, LapInv, NEW t \in Workers, Busy(t)
               PROVE  /\ \A u \in Workers : Busy(u) /\ p_work[u] = p_work[t] => u = t
                      /\ \E i \in 1..Len(taken) : taken[i] = work[p_work[t]]
                      /\ pc[t] = "serve" => conn[t] = work[p_work[t]]
                      /\ work[p_work[t]] \notin done
    BY DEF OwnsStruct
  <2>1. /\ p_work[t] + 1 \in 1..Len(taken)
        /\ p_work[t] + 1 \in 1..Len(queued)
        /\ work[p_work[t]] = queued[p_work[t] + 1]
    BY DEF LapInv, LapSlots, FifoOrder, PoolInv, TypeOK
  <2> QED
    BY <2>1 DEF LapInv, LapSlots, FifoOrder
<1> QED
  BY <1>1, LapInvariant, PTL

\* In the first lap the pool implements the queue of module WorkQueue: a post is
\* a Put, a take a Take, the end of socketaa_worker a Finish, and no other
\* step is visible.
THEOREM FirstLapRefinesQueue ==
  ASSUME MaxAccepts <= WorkSize
  PROVE  Spec => RefinesQueue
<1> USE WorkSizeAssumption, MaxAcceptsAssumption
<1> DEFINE Pending == [i \in 1..work_count |-> work[read_index + i - 1]]
           Serving == {work[p_work[t]] : t \in {u \in Workers : Busy(u)}}
<1>1. Init => Queue!QueueInit
  BY DEF Init, Queue!QueueInit, Busy
<1>2. PoolInv /\ PoolInv' /\ LapInv /\ LapInv' /\ [Next]_vars
        => [Queue!QueueNext]_(Queue!queueVars)
  <2> SUFFICES ASSUME PoolInv, PoolInv', LapInv, LapInv', [Next]_vars
               PROVE  Queue!QueueNext \/ UNCHANGED Queue!queueVars
    OBVIOUS
  <2>0. /\ TypeOK /\ TypeOK' /\ CountsAgree /\ QueuedInOrder /\ LapIndices /\ LapSlots
        /\ FifoOrder /\ Len(taken) \in Nat /\ Len(queued) \in Nat
    BY DEF PoolInv, LapInv, TypeOK
  <2>1. CASE SetWork
    <3>1. /\ accepts' = accepts + 1 /\ accepts' \in Conns /\ accepts \in Nat
          /\ Len(queued) < WorkSize
          /\ write_index = Len(queued) /\ read_index = Len(taken)
          /\ work_count = Len(queued) - Len(taken)
          /\ work' = [work EXCEPT ![write_index] = accepts']
          /\ work_count' = work_count + 1
          /\ UNCHANGED <<read_index, p_work, done>>
      BY <2>0, <2>1 DEF SetWork, Accept, TypeOK, CountsAgree, LapIndices, Conns
    <3>2. \A i \in 0..Len(queued) - 1 :
             work'[i] = work[i] /\ work[i] <= accepts /\ work[i] \in Nat
      <4> SUFFICES ASSUME NEW i \in 0..Len(queued) - 1
                   PROVE  work'[i] = work[i] /\ work[i] <= accepts /\ work[i] \in Nat
        OBVIOUS
      <4>1. i + 1 \in 1..Len(queued) /\ (i + 1) - 1 = i /\ i # write_index
        BY <2>0, <3>1
      <4>2. work[i] = queued[i + 1]
        BY <2>0, <4>1 DEF LapSlots
      <4>3. queued[i + 1] <= accepts
        BY <2>0, <4>1 DEF QueuedInOrder
      <4>4. queued[i + 1] \in Nat
        BY <2>0, <4>1 DEF TypeOK, Conns, NoConn
      <4>5. work'[i] = work[i]
        BY <2>0, <3>1, <4>1 DEF TypeOK, Slots
      <4> QED
        BY <4>2, <4>3, <4>4, <4>5
    <3>3. \A t \in Workers : /\ Busy(t)' <=> Busy(t)
                             /\ Busy(t) => p_work[t] \in 0..Len(queued) - 1
      BY <2>0, <2>1 DEF SetWork, Signal, Busy, TypeOK, LapSlots, FifoOrder
    <3>4. Serving' = Serving /\ accepts' \notin Serving
      BY <3>1, <3>2, <3>3
    <3>5. accepts' \notin done
      BY <2>0, <3>1, <3>2 DEF LapSlots, FifoOrder, QueuedInOrder, TypeOK
    <3>6. /\ Pending \in Seq(Conns \cup {NoConn})
          /\ Len(Pending) = work_count
          /\ \A i \in 1..Len(Pending) : Pending[i] # accepts'
      <4>1. \A i \in 1..work_count : read_index + i - 1 \in 0..Len(queued) - 1
        BY <2>0, <3>1
      <4>2. \A i \in 1..work_count : /\ work[read_index + i - 1] \in Conns \cup {NoConn}
                                     /\ work[read_index + i - 1] # accepts'
        BY <2>0, <3>1, <3>2, <4>1 DEF TypeOK, Slots
      <4>3. work_count \in Nat
        BY <2>0 DEF TypeOK
      <4> QED
        BY <4>2, <4>3
    <3>7. Pending' = Append(Pending, accepts')
      <4>1. /\ Pending' = [i \in 1..work_count + 1 |-> work'[read_index + i - 1]]
            /\ work_count \in Nat
        BY <2>0, <3>1 DEF TypeOK
      <4>2. \A i \in 1..work_count + 1 :
              work'[read_index + i - 1] =
                IF i = work_count + 1 THEN accepts' ELSE work[read_index + i - 1]
        BY <2>0, <3>1, <3>2 DEF TypeOK, Slots
      <4>3. Append(Pending, accepts') =
              [i \in 1..work_count + 1 |->
                 IF i = work_count + 1 THEN accepts' ELSE work[read_index + i - 1]]
        BY <3>6, <4>1
      <4> QED
        BY <4>1, <4>2, <4>3
    <3>8. PICK c \in Conns : c = accepts'
      BY <3>1
    <3>9. Queue!Put(c)
      BY <3>1, <3>4, <3>5, <3>6, <3>7, <3>8 DEF Queue!Put
    <3> QED
      BY <3>9 DEF Queue!QueueNext
  <2>2. ASSUME NEW t \in Workers, GetWork(t) PROVE Queue!QueueNext
    <3>1. /\ work_count \in Nat /\ work_count > 0
          /\ work_count' = work_count - 1
          /\ read_index = Len(taken)
          /\ work_count = Len(queued) - Len(taken)
          /\ p_work' = [p_work EXCEPT ![t] = read_index]
          /\ pc' = [pc EXCEPT ![t] = "begin"] /\ pc[t] = "get"
          /\ UNCHANGED <<work, done>>
          /\ read_index < WorkSize
      BY <2>0, <2>2, CountedInRange
      DEF GetWork, Running, TypeOK, CountsAgree, LapIndices, PoolInv, RingInv, Slots
    <3>2. work_count' > 0 => read_index' = read_index + 1
      BY <2>0, <2>2, <3>1
      DEF GetWork, NextRead, Ahead, Behind, Clamp, LapIndices, TypeOK
    <3>3. /\ Pending \in Seq(Conns \cup {NoConn})
          /\ Len(Pending) = work_count
          /\ Head(Pending) = work[read_index]
      <4>0. /\ read_index \in Nat /\ work_count \in Nat /\ WorkSize \in Nat
            /\ read_index + work_count <= WorkSize
        BY <2>0, <3>1, WorkSizeAssumption DEF LapIndices, TypeOK, Slots
      <4>1. \A i \in 1..work_count : read_index + i - 1 \in Slots
        BY <4>0 DEF Slots
      <4>2. \A i \in 1..work_count : work[read_index + i - 1] \in Conns \cup {NoConn}
        BY <2>0, <4>1 DEF TypeOK
      <4>3. Pending \in Seq(Conns \cup {NoConn}) /\ Len(Pending) = work_count
        BY <3>1, <4>2
      <4>4. Head(Pending) = Pending[1]
        BY <3>1, <4>3
      <4> QED
        BY <2>0, <3>1, <4>3, <4>4 DEF TypeOK, Slots
    <3>4. Pending' = Tail(Pending)
      <4>1. Tail(Pending) = [i \in 1..work_count - 1 |-> work[read_index + (i + 1) - 1]]
        BY <3>1, <3>3
      <4>2. Pending' = [i \in 1..work_count - 1 |-> work[read_index' + i - 1]]
        BY <3>1
      <4>3. \A i \in 1..work_count - 1 :
              work[read_index' + i - 1] = work[read_index + (i + 1) - 1]
        <5> SUFFICES ASSUME NEW i \in 1..work_count - 1
                     PROVE  work[read_index' + i - 1] = work[read_index + (i + 1) - 1]
          OBVIOUS
        <5>1. read_index' = read_index + 1 /\ read_index \in Nat /\ i \in Int
          BY <2>0, <3>1, <3>2
        <5>2. read_index' + i - 1 = read_index + (i + 1) - 1
          BY <5>1
        <5> QED
          BY <5>2
      <4> QED
        BY <4>1, <4>2, <4>3
    <3>5. Serving' = Serving \cup {work[read_index]}
      <4>1. /\ ~Busy(t) /\ Busy(t)' /\ p_work'[t] = read_index
            /\ \A u \in Workers : u # t => p_work'[u] = p_work[u] /\ (Busy(u)' <=> Busy(u))
        BY <2>0, <3>1 DEF Busy, TypeOK
      <4> QED
        BY <3>1, <4>1
    <3>6. Queue!Take
      <4>1. Pending # <<>>
        <5>1. Len(Pending) # Len(<<>>)
          BY <3>1, <3>3
        <5> QED
          BY <5>1
      <4> QED
        BY <3>1, <3>3, <3>4, <3>5, <4>1 DEF Queue!Take
    <3> QED
      BY <3>6 DEF Queue!QueueNext
  <2>3. ASSUME NEW t \in Workers, Finish(t) PROVE Queue!QueueNext
    <3>1. /\ Busy(t) /\ pc[t] = "serve" /\ conn[t] = work[p_work[t]]
          /\ done' = done \cup {work[p_work[t]]}
          /\ UNCHANGED <<work, p_work, read_index, work_count>>
          /\ \A u \in Workers : Busy(u)' <=> Busy(u) /\ u # t
      BY <2>0, <2>3 DEF Finish, Running, Busy, TypeOK, LapSlots, syncVars
    <3>2. \A u \in Workers : Busy(u)' => work[p_work[u]] \notin done'
      BY <3>1 DEF LapInv, LapSlots
    <3>3. Serving' = Serving \ {work[p_work[t]]}
      BY <3>1, <3>2
    <3>4. work[p_work[t]] \in Conns
      BY <2>0, <3>1 DEF TypeOK, PoolInv, BusyHolds
    <3>5. PICK c \in Conns : c = work[p_work[t]]
      BY <3>4
    <3>6. Queue!Finish(c)
      BY <3>1, <3>3, <3>5 DEF Queue!Finish
    <3> QED
      BY <3>6 DEF Queue!QueueNext
  <2>4. ASSUME NEW t \in Workers, Spawn(t) \/ GetWorkWait(t) \/ SpuriousWakeup(t) \/ Begin(t)
        PROVE  UNCHANGED Queue!queueVars
    <3>1. /\ UNCHANGED <<work, p_work, read_index, work_count, done>>
          /\ \A u \in Workers : Busy(u)' <=> Busy(u)
      BY <2>0, <2>4 DEF Spawn, GetWorkWait, SpuriousWakeup, Begin, Running, Busy, TypeOK,
         syncVars, historyVars
    <3>2. Serving' = Serving
      BY <3>1
    <3> QED
      BY <3>1, <3>2 DEF Queue!queueVars
  <2>5. CASE UNCHANGED <<work, p_work, read_index, work_count, done, pc>>
    BY <2>5 DEF Queue!queueVars, Busy
  <2> QED
    BY <2>1, <2>2, <2>3, <2>4, <2>5
    DEF Next, Server, Worker, vars, syncVars, threadVars, historyVars, SyncInit, SpawnEnd,
        SetWorkBeyond, SetWorkRejected, SetWorkNoSync, ServerReturns, Killed
<1> QED
  BY <1>1, <1>2, LapInvariant, PTL DEF Spec, RefinesQueue, Queue!QueueSpec

-----------------------------------------------------------------------------
(* On the first lap of the works array every descriptor has one user: the *)
(* argument rests on LapInv, which gives every connection one worker.     *)

\* The values of the descriptors' variables; every number accept() gave is
\* one, and only accepted connections are closed or shut down.
FdTypes ==
  /\ fd \in [Conns -> 0..MaxFds]
  /\ file \in [Fds -> Conns \cup {NoConn}]
  /\ after \in [Workers -> {"open", "closed", "late"}]
  /\ \A c \in 1..accepts : fd[c] \in Fds
  /\ closed \in SUBSET (1..accepts)
  /\ failed \in SUBSET closed
  /\ cut \in SUBSET (1..accepts)

\* Numbers and open connections belong together one to one; a number refers
\* to the last connection that got it, or to none.
FdTable ==
  /\ \A c \in 1..accepts : c \notin closed => file[fd[c]] = c
  /\ \A f \in Fds : file[f] # NoConn =>
       file[f] \in 1..accepts /\ file[f] \notin closed /\ fd[file[f]] = f
  /\ \A c \in 1..accepts : file[fd[c]] # NoConn => c <= file[fd[c]]

\* A connection is closed by the worker that serves it, or by the one that has.
FdServe ==
  /\ \A t \in Workers :
       /\ pc[t] = "serve" /\ after[t] = "open" => conn[t] \notin closed
       /\ after[t] # "open" => pc[t] = "serve"
       /\ after[t] = "late" => conn[t] \in failed
  /\ \A c \in closed : c \in done \/ \E t \in Workers :
                                       pc[t] = "serve" /\ conn[t] = c /\ after[t] # "open"

\* A late shutdown hits the failed connection or a later one with its number.
FdCut == \A c \in cut \ failed : \E d \in failed : d < c /\ fd[d] = fd[c]

\* The inductive strengthening of OwnDescriptor.
FdInv == FdTypes /\ FdTable /\ FdServe /\ FdCut

-----------------------------------------------------------------------------
\* A busy worker's struct holds a connection that was accepted, is not done
\* with and is no other worker's.
LEMMA OneWorker ==
  ASSUME PoolInv, LapInv, NEW t \in Workers, Busy(t)
  PROVE  /\ work[p_work[t]] \in 1..accepts
         /\ work[p_work[t]] \notin done
         /\ pc[t] = "serve" => conn[t] = work[p_work[t]]
         /\ \A u \in Workers : Busy(u) /\ work[p_work[u]] = work[p_work[t]] => u = t
<1>1. \A u \in Workers : Busy(u) => /\ p_work[u] + 1 \in 1..Len(queued)
                                    /\ p_work[u] \in Int
                                    /\ work[p_work[u]] = queued[p_work[u] + 1]
  BY DEF LapInv, LapSlots, FifoOrder, PoolInv, TypeOK
<1>2. \A i \in 1..Len(queued) : queued[i] \in 1..accepts
  <2>1. \A i \in 1..Len(queued) : queued[i] \in Conns
    BY DEF PoolInv, TypeOK
  <2>2. \A i \in 1..Len(queued) : queued[i] <= accepts
    BY DEF LapInv, QueuedInOrder
  <2> QED
    BY <2>1, <2>2, MaxAcceptsAssumption DEF Conns, PoolInv, TypeOK
<1>3. work[p_work[t]] \in 1..accepts
  BY <1>1, <1>2
<1>4. ASSUME NEW u \in Workers, Busy(u), work[p_work[u]] = work[p_work[t]]
      PROVE  u = t
  <2>1. \A i, j \in 1..Len(queued) : i < j => queued[i] < queued[j]
    BY DEF LapInv, QueuedInOrder
  <2> DEFINE i == p_work[u] + 1
             j == p_work[t] + 1
  <2>2. i \in 1..Len(queued) /\ j \in 1..Len(queued) /\ queued[i] = queued[j]
    BY <1>1, <1>4
  <2>3. ~(i < j) /\ ~(j < i)
    BY <1>2, <2>1, <2>2
  <2>4. p_work[u] = p_work[t]
    BY <1>1, <1>4, <2>3
  <2> QED
    BY <1>4, <2>4 DEF LapInv, LapSlots
<1> QED
  BY <1>3, <1>4 DEF LapInv, LapSlots

\* No descriptor is in use before the first accept().
LEMMA InitFdInv == Init /\ FdInit => FdInv
  BY MaxFdsAssumption, MaxAcceptsAssumption
  DEF Init, FdInit, FdInv, FdTypes, FdTable, FdServe, FdCut, Fds, Conns, NoConn

\* An accept() takes a number that no open connection has.
LEMMA AcceptFdInv == FdInv /\ PoolInv /\ AcceptFd => FdInv'
<1> SUFFICES ASSUME FdInv, PoolInv, AcceptFd
             PROVE  FdInv'
  OBVIOUS
<1> USE MaxFdsAssumption, MaxAcceptsAssumption
<1>1. /\ accepts \in Nat /\ accepts' = accepts + 1 /\ accepts' \in Conns
      /\ conn' = conn /\ done' = done
      /\ \A t \in Workers : pc'[t] = "serve" <=> pc[t] = "serve"
  BY DEF AcceptFd, Server, SyncInit, SpawnEnd, SetWork, SetWorkBeyond, SetWorkRejected,
         SetWorkNoSync, ServerReturns, Accept, Signal, PoolInv, TypeOK, Conns,
         threadVars, historyVars
<1>2. PICK f \in Fds : /\ file[f] = NoConn
                       /\ fd' = [fd EXCEPT ![accepts'] = f]
                       /\ file' = [file EXCEPT ![f] = accepts']
  BY DEF AcceptFd, Free
<1>3. UNCHANGED <<after, closed, failed, cut>>
  BY DEF AcceptFd
<1>4. FdTypes'
  <2>1. fd' \in [Conns -> 0..MaxFds] /\ file' \in [Fds -> Conns \cup {NoConn}]
    BY <1>1, <1>2 DEF FdInv, FdTypes, Fds
  <2>2. \A c \in 1..accepts' : fd'[c] \in Fds
    <3>1. \A c \in 1..accepts : c \in Conns /\ c # accepts'
      BY <1>1 DEF Conns
    <3>2. 1..accepts' = 1..accepts \cup {accepts'}
      BY <1>1
    <3> QED
      BY <3>1, <3>2, <1>1, <1>2 DEF FdInv, FdTypes
  <2>3. 1..accepts \subseteq 1..accepts'
    BY <1>1
  <2> QED
    BY <2>1, <2>2, <2>3, <1>3 DEF FdInv, FdTypes
<1>5. FdTable'
  <2>1. \A c \in 1..accepts : fd'[c] = fd[c] /\ fd[c] \in Fds
    BY <1>1, <1>2 DEF FdInv, FdTypes, Conns
  <2>2. fd'[accepts'] = f /\ file'[f] = accepts'
    BY <1>1, <1>2 DEF FdInv, FdTypes
  <2>3. \A g \in Fds : g # f => file'[g] = file[g]
    BY <1>2 DEF FdInv, FdTypes
  <2>4. closed' = closed /\ accepts' \notin closed /\ 1..accepts' = 1..accepts \cup {accepts'}
    BY <1>1, <1>3 DEF FdInv, FdTypes
  <2>5. \A c \in 1..accepts' : c \notin closed' => file'[fd'[c]] = c
    <3> SUFFICES ASSUME NEW c \in 1..accepts, c \notin closed
                 PROVE  file'[fd'[c]] = c
      BY <2>2, <2>4
    <3>1. file[fd[c]] = c
      BY DEF FdInv, FdTable
    <3> QED
      BY <3>1, <1>1, <1>2, <2>1, <2>3 DEF NoConn
  <2>6. \A g \in Fds : file'[g] # NoConn =>
          file'[g] \in 1..accepts' /\ file'[g] \notin closed' /\ fd'[file'[g]] = g
    BY <1>1, <1>2, <2>1, <2>2, <2>3, <2>4 DEF FdInv, FdTable
  <2>7. \A c \in 1..accepts' : file'[fd'[c]] # NoConn => c <= file'[fd'[c]]
    BY <1>1, <1>2, <2>1, <2>2, <2>3, <2>4 DEF FdInv, FdTable
  <2> QED
    BY <2>5, <2>6, <2>7 DEF FdTable, Fds
<1>6. FdServe'
  BY <1>1, <1>3 DEF FdInv, FdServe
<1>7. FdCut'
  <2>1. \A c \in 1..accepts : fd'[c] = fd[c]
    BY <1>1, <1>2 DEF FdInv, FdTypes, Conns
  <2> QED
    BY <2>1, <1>3 DEF FdInv, FdCut, FdTypes
<1> QED
  BY <1>4, <1>5, <1>6, <1>7 DEF FdInv

\* A worker closes the connection it serves: nobody else's number is freed.
LEMMA CloseFdInv ==
  ASSUME FdInv, PoolInv, LapInv, NEW t \in Workers, Close(t) \/ CloseFailed(t)
  PROVE  FdInv'
<1> USE MaxFdsAssumption, MaxAcceptsAssumption
<1> DEFINE c == conn[t]
<1>1. /\ pc[t] = "serve" /\ after[t] = "open"
      /\ c \in 1..accepts /\ c \notin done /\ c \notin closed
      /\ \A u \in Workers : pc[u] = "serve" /\ conn[u] = c => u = t
  BY OneWorker DEF Close, CloseFailed, Running, Busy, FdInv, FdServe
<1>2. /\ file' = [file EXCEPT ![fd[c]] = NoConn] /\ closed' = closed \cup {c}
      /\ fd' = fd /\ cut' = cut /\ accepts' = accepts /\ pc' = pc /\ conn' = conn
      /\ done' = done
      /\ \/ failed' = failed /\ after' = [after EXCEPT ![t] = "closed"]
         \/ failed' = failed \cup {c} /\ after' = [after EXCEPT ![t] = "late"]
  BY DEF Close, CloseFailed, CloseConn, vars, threadVars, historyVars
<1>3. accepts \in Nat /\ fd[c] \in Fds /\ file[fd[c]] = c
  BY <1>1 DEF FdInv, FdTypes, FdTable, PoolInv, TypeOK
<1>4. FdTypes'
  BY <1>1, <1>2, <1>3 DEF FdInv, FdTypes, Conns, NoConn
<1>5. FdTable'
  BY <1>1, <1>2, <1>3 DEF FdInv, FdTypes, FdTable, NoConn, Fds
<1>6. FdServe'
  <2>1. after' \in [Workers -> {"open", "closed", "late"}] /\ after'[t] # "open"
        /\ \A u \in Workers : u # t => after'[u] = after[u]
    BY <1>2 DEF FdInv, FdTypes
  <2>2. \A u \in Workers : pc'[u] = "serve" /\ after'[u] = "open" => conn'[u] \notin closed'
    BY <1>1, <1>2, <2>1 DEF FdInv, FdServe
  <2>3. \A u \in Workers : after'[u] # "open" => pc'[u] = "serve"
    BY <1>1, <1>2, <2>1 DEF FdInv, FdServe
  <2>4. \A u \in Workers : after'[u] = "late" => conn'[u] \in failed'
    BY <1>1, <1>2, <2>1 DEF FdInv, FdServe, FdTypes
  <2>5. \A d \in closed' : d \in done' \/ \E u \in Workers :
          pc'[u] = "serve" /\ conn'[u] = d /\ after'[u] # "open"
    BY <1>1, <1>2, <2>1 DEF FdInv, FdServe
  <2> QED
    BY <2>2, <2>3, <2>4, <2>5 DEF FdServe
<1>7. FdCut'
  BY <1>2 DEF FdInv, FdCut
<1> QED
  BY <1>4, <1>5, <1>6, <1>7 DEF FdInv

\* The shutdown after the close of a failed send frees nothing.
LEMMA LateShutdownFdInv ==
  ASSUME FdInv, PoolInv, LapInv, NEW t \in Workers, LateShutdown(t)
  PROVE  FdInv'
<1> USE MaxFdsAssumption, MaxAcceptsAssumption
<1> DEFINE c == conn[t]
           hit == file[fd[c]]
<1>1. /\ after[t] = "late" /\ pc[t] = "serve" /\ c \in failed /\ c \in 1..accepts
      /\ c \in closed
  BY DEF LateShutdown, Running, FdInv, FdServe, FdTypes
<1>2. /\ cut' = cut \cup ({hit} \ {NoConn}) /\ after' = [after EXCEPT ![t] = "closed"]
      /\ fd' = fd /\ file' = file /\ closed' = closed /\ failed' = failed
      /\ accepts' = accepts /\ pc' = pc /\ conn' = conn /\ done' = done
  BY DEF LateShutdown, vars, threadVars, historyVars
<1>3. accepts \in Nat /\ fd[c] \in Fds
  BY <1>1 DEF FdInv, FdTypes, PoolInv, TypeOK
<1>4. hit # NoConn => /\ hit \in 1..accepts /\ fd[hit] = fd[c] /\ c <= hit
  BY <1>1, <1>3 DEF FdInv, FdTable
<1>5. FdTypes'
  BY <1>2, <1>4 DEF FdInv, FdTypes
<1>6. FdTable'
  BY <1>2 DEF FdInv, FdTable
<1>7. FdServe'
  BY <1>1, <1>2 DEF FdInv, FdServe, FdTypes
<1>8. FdCut'
  <2> SUFFICES ASSUME hit # NoConn, hit \notin failed
               PROVE  \E d \in failed : d < hit /\ fd[d] = fd[hit]
    BY <1>2 DEF FdInv, FdCut
  <2>1. c < hit
    BY <1>1, <1>3, <1>4
  <2> QED
    BY <2>1, <1>1, <1>4
<1> QED
  BY <1>5, <1>6, <1>7, <1>8 DEF FdInv

\* A worker returns from socketaa_worker, having closed its connection or not.
LEMMA FinishFdInv ==
  ASSUME FdInv, PoolInv, NEW t \in Workers, Leave(t) \/ GiveUp(t)
  PROVE  FdInv'
<1>1. /\ pc[t] = "serve" /\ pc' = [pc EXCEPT ![t] = "get"] /\ done' = done \cup {conn[t]}
      /\ fd' = fd /\ file' = file /\ closed' = closed /\ failed' = failed /\ cut' = cut
      /\ accepts' = accepts /\ conn' = conn
      /\ \/ after' = [after EXCEPT ![t] = "open"]
         \/ after' = after /\ after[t] = "open"
  BY DEF Leave, GiveUp, Finish, Running, fdVars
<1>2. pc \in [Workers -> Places] /\ after \in [Workers -> {"open", "closed", "late"}]
  BY DEF PoolInv, TypeOK, FdInv, FdTypes
<1>3. after' \in [Workers -> {"open", "closed", "late"}]
  BY <1>1, <1>2
<1>4. FdTypes' /\ FdTable' /\ FdCut'
  BY <1>1, <1>3 DEF FdInv, FdTypes, FdTable, FdCut
<1>5. FdServe'
  BY <1>1, <1>2 DEF FdInv, FdServe, FdTypes
<1> QED
  BY <1>4, <1>5 DEF FdInv

\* What the pool does without accept(), close or return: only a Begin lets a
\* worker serve a connection, and that one nobody has closed.
LEMMA OtherFdInv == FdInv /\ PoolInv /\ LapInv /\ Other => FdInv'
<1> SUFFICES ASSUME FdInv, PoolInv, LapInv, Other
             PROVE  FdInv'
  OBVIOUS
<1>1. UNCHANGED fdVars
  BY DEF Other
<1>2. accepts' = accepts /\ done' = done
  BY DEF Other, Server, SyncInit, SpawnEnd, SetWork, SetWorkBeyond, SetWorkRejected,
         SetWorkNoSync, ServerReturns, Spawn, GetWorkWait, SpuriousWakeup, GetWork, Begin,
         Killed, historyVars, Accept, PoolInv, TypeOK
<1>3. FdTypes' /\ FdTable' /\ FdCut'
  BY <1>1, <1>2 DEF FdInv, FdTypes, FdTable, FdCut, fdVars, Free
<1>4. FdServe'
  <2> USE DEF FdInv, FdServe, fdVars
  <2>1. pc \in [Workers -> Places] /\ conn \in [Workers -> Conns \cup {NoConn}]
    BY DEF PoolInv, TypeOK
  <2>2. CASE \E t \in Workers : Begin(t)
    <3>1. PICK t \in Workers : Begin(t)
      BY <2>2
    <3>2. /\ pc[t] = "begin" /\ pc' = [pc EXCEPT ![t] = "serve"]
          /\ conn' = [conn EXCEPT ![t] = work[p_work[t]]] /\ Busy(t)
      BY <3>1 DEF Begin, Running, Busy
    <3>3. work[p_work[t]] \notin closed
      <4> SUFFICES ASSUME NEW u \in Workers, pc[u] = "serve", conn[u] = work[p_work[t]]
                   PROVE  FALSE
        BY <3>2, OneWorker
      <4>1. Busy(u) /\ work[p_work[u]] = work[p_work[t]]
        BY OneWorker DEF Busy
      <4>2. u = t
        BY <4>1, <3>2, OneWorker
      <4> QED
        BY <4>2, <3>2
    <3>4. after[t] = "open"
      BY <3>2 DEF FdTypes
    <3> QED
      BY <1>1, <1>2, <2>1, <3>2, <3>3, <3>4 DEF FdTypes
  <2>3. CASE ~\E t \in Workers : Begin(t)
    <3>1. conn' = conn
      BY <2>3, <1>2 DEF Other, Server, SyncInit, SpawnEnd, SetWork, SetWorkBeyond,
         SetWorkRejected, SetWorkNoSync, ServerReturns, Spawn, GetWorkWait, SpuriousWakeup,
         GetWork, Killed, threadVars
    <3>2. \A t \in Workers : pc'[t] = "serve" <=> pc[t] = "serve"
      BY <2>1, <2>3, <1>2 DEF Other, Server, SyncInit, SpawnEnd, SetWork, SetWorkBeyond,
         SetWorkRejected, SetWorkNoSync, ServerReturns, Spawn, GetWorkWait, SpuriousWakeup,
         GetWork, Killed, threadVars, Signal, Running
    <3> QED
      BY <1>1, <1>2, <3>1, <3>2
  <2> QED
    BY <2>2, <2>3
<1> QED
  BY <1>3, <1>4 DEF FdInv

\* The strengthening says that no two users share a number.
LEMMA FdInvOwns == FdInv /\ PoolInv /\ LapInv => OwnDescriptor
<1> SUFFICES ASSUME FdInv, PoolInv, LapInv
             PROVE  OwnDescriptor
  OBVIOUS
<1>1. \A c \in 1..accepts : c \notin closed => fd[c] \in Fds /\ file[fd[c]] = c
  BY DEF FdInv, FdTypes, FdTable
<1>2. \A f \in Fds : file[f] \notin closed
  BY DEF FdInv, FdTypes, FdTable, NoConn
<1>3. ASSUME NEW t \in Workers, pc[t] = "serve", after[t] = "open"
      PROVE  /\ Busy(t) /\ conn[t] = work[p_work[t]]
             /\ file[fd[conn[t]]] = conn[t]
  BY <1>1, <1>3, OneWorker DEF Busy, FdInv, FdServe
<1>4. ASSUME NEW t \in Workers, NEW u \in Workers,
             pc[t] = "serve", after[t] = "open", pc[u] = "serve", after[u] = "open",
             fd[conn[u]] = fd[conn[t]]
      PROVE  u = t
  BY <1>3, <1>4, OneWorker
<1> QED
  BY <1>1, <1>2, <1>3, <1>4 DEF OwnDescriptor, FdInv, FdCut

\* For every number of workers, slots and descriptors: on the first lap a
\* worker's descriptor is its own from accept() to its own close, and the
\* shutdown after a failed send hits nothing but the failed connection or a
\* later one that got its number.
THEOREM FirstLapOwnsDescriptor ==
  ASSUME MaxAccepts <= WorkSize
  PROVE  FdSpec => []OwnDescriptor
<1>1. Init /\ FdInit => FdInv
  BY InitFdInv
<1>2. [FdNext]_allVars => [Next]_vars
  BY DEF FdNext, AcceptFd, Other, ServeFd, Close, CloseFailed, LateShutdown, Leave,
         GiveUp, Next, Worker, allVars
<1>3. FdInv /\ PoolInv /\ LapInv /\ [FdNext]_allVars => FdInv'
  <2>1. ASSUME FdInv, UNCHANGED allVars
        PROVE  FdInv'
    BY <2>1 DEF allVars, vars, fdVars, threadVars, historyVars, FdInv, FdTypes, FdTable,
                FdServe, FdCut
  <2> QED
    BY <2>1, AcceptFdInv, OtherFdInv, CloseFdInv, LateShutdownFdInv, FinishFdInv
    DEF FdNext, ServeFd
<1>4. Spec => [](PoolInv /\ LapInv)
  BY LapInvariant
<1> QED
  BY <1>1, <1>2, <1>3, <1>4, FdInvOwns, PTL DEF FdSpec, Spec
=============================================================================
