-------------------------- MODULE ThreadPoolProofs --------------------------
(***************************************************************************)
(* Proofs about ThreadPool, for any number of callers, of workers and of   *)
(* threads the process can have.                                           *)
(***************************************************************************)
EXTENDS ThreadPool, TLAPS

\* stop_ is set first in the destructor and never reset.
StopInv == stop <=> pool # "up"

PoolInv == PoolTypeOK /\ StopInv /\ NoTaskOutlivesPool

\* The pool of a new process, whether it is the first or not.
LEMMA PoolInitInv == PoolInit => PoolInv
<1> SUFFICES ASSUME PoolInit PROVE PoolInv
  OBVIOUS
<1>1. stop = FALSE /\ pool = "up" /\ added = 0
  BY DEF PoolInit
<1>2. worker \in [Workers -> {"test", "wait", "ended"}] /\ task \in [Callers -> {"none", "run", "ready"}]
  BY DEF PoolInit
<1>3. 0 \in 0 .. MaxThreads
  BY PoolAssumption
<1> QED
  BY <1>1, <1>2, <1>3, Zenon DEF PoolInv, PoolTypeOK, StopInv, NoTaskOutlivesPool

\* The pool of the process that is started after this one.
LEMMA NewPoolInv == NewPool => PoolInv'
<1> SUFFICES ASSUME NewPool PROVE PoolInv'
  OBVIOUS
<1>1. stop' = FALSE /\ pool' = "up" /\ added' = 0
  BY DEF NewPool
<1>2. worker' \in [Workers -> {"test", "wait", "ended"}] /\ task' \in [Callers -> {"none", "run", "ready"}]
  BY DEF NewPool
<1>3. 0 \in 0 .. MaxThreads
  BY PoolAssumption
<1> QED
  BY <1>1, <1>2, <1>3, Zenon DEF PoolInv, PoolTypeOK, StopInv, NoTaskOutlivesPool

\* A thread that has passed its test of stop_ adds its task while the pool is up.
LEMMA AddInv == ASSUME PoolInv, NEW c \in Callers, Add(c) PROVE PoolInv'
<1>1. ~stop /\ added \in 0 .. MaxThreads /\ added # MaxThreads
  BY DEF Add, Refused, NoThreadLeft, PoolInv, PoolTypeOK
<1>2. pool = "up"
  BY <1>1, Zenon DEF PoolInv, StopInv
<1>3. worker' \in [Workers -> {"test", "wait", "ended"}]
  BY DEF Add, NotifyOne, PoolInv, PoolTypeOK
<1>4. task' \in [Callers -> {"none", "run", "ready"}]
  BY DEF Add, PoolInv, PoolTypeOK
<1>5. added' \in 0 .. MaxThreads
  BY <1>1, PoolAssumption DEF Add
<1>6. pool' = pool /\ stop' = stop
  BY DEF Add
<1> QED
  BY <1>2, <1>3, <1>4, <1>5, <1>6 DEF PoolInv, PoolTypeOK, StopInv, NoTaskOutlivesPool

\* A task ends, and its caller takes the result.
LEMMA TaskInv == ASSUME PoolInv, NEW c \in Callers, EndTask(c) \/ TakeResult(c) PROVE PoolInv'
<1>1. task' \in [Callers -> {"none", "run", "ready"}]
  BY DEF EndTask, TakeResult, PoolInv, PoolTypeOK
<1>2. \A d \in Callers : task'[d] = "run" => task[d] = "run"
  BY DEF EndTask, TakeResult, PoolInv, PoolTypeOK
<1>3. UNCHANGED <<stop, worker, added, pool>>
  BY DEF EndTask, TakeResult
<1> QED
  BY <1>1, <1>2, <1>3 DEF PoolInv, PoolTypeOK, StopInv, NoTaskOutlivesPool

\* A worker finds stop_ set, waits, or wakes for nothing.
LEMMA WorkerInv ==
  ASSUME PoolInv, NEW w \in Workers, TestStop(w) \/ SpuriousWakeup(w) PROVE PoolInv'
<1>1. worker' \in [Workers -> {"test", "wait", "ended"}]
  BY DEF TestStop, SpuriousWakeup, PoolInv, PoolTypeOK
<1>2. UNCHANGED <<stop, task, added, pool>>
  BY DEF TestStop, SpuriousWakeup
<1> QED
  BY <1>1, <1>2 DEF PoolInv, PoolTypeOK, StopInv, NoTaskOutlivesPool

\* The destructor joins every thread after it has stopped Add.
LEMMA DestructorInv == ASSUME PoolInv, SetStop \/ NotifyWorkers \/ Join PROVE PoolInv'
<1>1. CASE SetStop
  BY <1>1 DEF SetStop, PoolInv, PoolTypeOK, StopInv, NoTaskOutlivesPool
<1>2. CASE NotifyWorkers
  <2>1. worker' \in [Workers -> {"test", "wait", "ended"}]
    BY <1>2 DEF NotifyWorkers, NotifyAll, PoolInv, PoolTypeOK
  <2> QED
    BY <1>2, <2>1 DEF NotifyWorkers, PoolInv, PoolTypeOK, StopInv, NoTaskOutlivesPool
<1>3. CASE Join
  BY <1>3 DEF Join, PoolInv, PoolTypeOK, StopInv, NoTaskOutlivesPool
<1> QED
  BY <1>1, <1>2, <1>3

\* A step that leaves the pool alone.
LEMMA PoolStutterInv == ASSUME PoolInv, UNCHANGED poolVars PROVE PoolInv'
BY DEF poolVars, PoolInv, PoolTypeOK, StopInv, NoTaskOutlivesPool

\* Whoever uses the pool, and in whatever way: no task runs once the destructor has
\* returned.
THEOREM PoolIsSafe == PoolSpec => []NoTaskOutlivesPool
<1>1. PoolInv /\ [PoolNext]_poolVars => PoolInv'
  BY AddInv, TaskInv, WorkerInv, DestructorInv, PoolStutterInv DEF PoolNext
<1>2. PoolInv => NoTaskOutlivesPool
  BY DEF PoolInv
<1> QED
  BY PoolInitInv, <1>1, <1>2, PTL DEF PoolSpec
=============================================================================
