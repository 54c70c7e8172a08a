----------------------------- MODULE ThreadPool -----------------------------
(***************************************************************************)
(* ThreadPool as handlerGET uses it: a caller adds a task and waits for    *)
(* its future.  Add gives every task a thread of its own.  The queue that  *)
(* the workers of the constructor wait on is never filled, so all they do  *)
(* is wait for the destructor; taking a task from it cannot happen.        *)
(***************************************************************************)
EXTENDS Integers

CONSTANTS
  Callers,    \* the threads that call Add
  Workers,    \* the threads the constructor starts: size of them
  MaxThreads  \* how many more threads the process can have

ASSUME PoolAssumption == MaxThreads \in Nat

VARIABLES
  stop,    \* stop_
  worker,  \* where each worker is: "test" (the predicate), "wait", "ended"
  task,    \* the task of each caller: "none", "run", "ready"
  added,   \* task threads in workers_: they stay there when they have ended
  pool     \* the destructor: "up", "stopped", "joining", "gone"

poolVars == <<stop, worker, task, added, pool>>

\* pthread_create fails, and std::thread's constructor throws.
NoThreadLeft == added = MaxThreads

\* Add throws, or cannot start the thread.
Refused == stop \/ NoThreadLeft

\* notify_one() wakes one of the workers that wait, if any do.
NotifyOne ==
  LET waiting == {w \in Workers : worker[w] = "wait"} IN
  IF waiting = {}
    THEN worker' = worker
    ELSE \E w \in waiting : worker' = [worker EXCEPT ![w] = "test"]

NotifyAll ==
  worker' = [w \in Workers |-> IF worker[w] = "wait" THEN "test" ELSE worker[w]]

\* Fault: Add does not look at stop_.
AddUnchecked(c) ==
  /\ task[c] = "none"
  /\ ~NoThreadLeft
  /\ task' = [task EXCEPT ![c] = "run"]
  /\ added' = added + 1
  /\ NotifyOne
  /\ UNCHANGED <<stop, pool>>

Add(c) ==
  /\ task[c] = "none"
  /\ ~Refused
  /\ task' = [task EXCEPT ![c] = "run"]
  /\ added' = added + 1
  /\ NotifyOne
  /\ UNCHANGED <<stop, pool>>

\* The packaged_task has run: its future is ready and its thread ends.
EndTask(c) ==
  /\ task[c] = "run"
  /\ task' = [task EXCEPT ![c] = "ready"]
  /\ UNCHANGED <<stop, worker, added, pool>>

\* get()
TakeResult(c) ==
  /\ task[c] = "ready"
  /\ task' = [task EXCEPT ![c] = "none"]
  /\ UNCHANGED <<stop, worker, added, pool>>

\* A worker tests stop_ under the mutex, and waits or returns.
TestStop(w) ==
  /\ worker[w] = "test"
  /\ worker' = [worker EXCEPT ![w] = IF stop THEN "ended" ELSE "wait"]
  /\ UNCHANGED <<stop, task, added, pool>>

SpuriousWakeup(w) ==
  /\ worker[w] = "wait"
  /\ worker' = [worker EXCEPT ![w] = "test"]
  /\ UNCHANGED <<stop, task, added, pool>>

(* The destructor *)

SetStop ==
  /\ pool = "up"
  /\ stop' = TRUE
  /\ pool' = "stopped"
  /\ UNCHANGED <<worker, task, added>>

\* Fault: the destructor wakes one worker only.
NotifyOneWorker ==
  /\ pool = "stopped"
  /\ NotifyOne
  /\ pool' = "joining"
  /\ UNCHANGED <<stop, task, added>>

NotifyWorkers ==
  /\ pool = "stopped"
  /\ NotifyAll
  /\ pool' = "joining"
  /\ UNCHANGED <<stop, task, added>>

\* join() has returned for each thread of workers_.
Join ==
  /\ pool = "joining"
  /\ \A w \in Workers : worker[w] = "ended"
  /\ \A c \in Callers : task[c] # "run"
  /\ pool' = "gone"
  /\ UNCHANGED <<stop, worker, task, added>>

WorkerStep == \E w \in Workers : TestStop(w)

PoolInit ==
  /\ stop = FALSE
  /\ worker = [w \in Workers |-> "test"]
  /\ task = [c \in Callers |-> "none"]
  /\ added = 0
  /\ pool = "up"

\* The pool of a new process.
NewPool ==
  /\ stop' = FALSE
  /\ worker' = [w \in Workers |-> "test"]
  /\ task' = [c \in Callers |-> "none"]
  /\ added' = 0
  /\ pool' = "up"

PoolNext ==
  \/ \E c \in Callers : Add(c) \/ EndTask(c) \/ TakeResult(c)
  \/ \E w \in Workers : TestStop(w) \/ SpuriousWakeup(w)
  \/ SetStop \/ NotifyWorkers \/ Join

PoolSpec == PoolInit /\ [][PoolNext]_poolVars

----------------------------------------------------------------------------
(* Properties *)

PoolTypeOK ==
  /\ stop \in BOOLEAN
  /\ worker \in [Workers -> {"test", "wait", "ended"}]
  /\ task \in [Callers -> {"none", "run", "ready"}]
  /\ added \in 0 .. MaxThreads
  /\ pool \in {"up", "stopped", "joining", "gone"}

\* When the destructor has returned, no task runs and none will: whatever the
\* tasks use may be destroyed.  Add must refuse after stop_, for the destructor
\* joins only what is in workers_ when it walks it.
NoTaskOutlivesPool ==
  pool = "gone" => \A c \in Callers : task[c] # "run"
=============================================================================
