----------------------------- MODULE TimerQueue -----------------------------
(***************************************************************************)
(* TimerQueue and TimerNode, driven by one EventLoop: timers in a heap     *)
(* ordered by expiration, one timerfd armed for the earliest, and a clock  *)
(* that the code reads modulo 10^7 milliseconds (tv_sec % 10000 * 1000).   *)
(*                                                                         *)
(* Time is counted in ticks.  It passes while the loop waits, and by at    *)
(* most MaxStall ticks while the loop is busy, so that two readings of the *)
(* clock in one handler may differ.  Callbacks add no timers, as the only  *)
(* one in src/ (CheckActiveConnection) does not.                           *)
(***************************************************************************)
EXTENDS Integers

CONSTANTS
  Timers,    \* the timer nodes
  NoTimer,   \* no node
  Timeouts,  \* what runAfter and runEvery are called with
  Wrap,      \* the clock's modulus: 10^7 ms
  MinDelay,  \* the shortest delay the timerfd is armed with: 100 ms
  MaxStall   \* bound: ticks that pass during one handler

ASSUME TimerAssumption ==
  /\ NoTimer \notin Timers
  /\ Timeouts \subseteq Nat
  /\ Wrap \in Nat \ {0}
  /\ MinDelay \in Nat \ {0}
  /\ MaxStall \in Nat

Off == 0     \* the timerfd is disarmed or has expired
Never == -1  \* it is armed for a time that does not come

VARIABLES
  now,         \* what getNow() returns
  alarm,       \* ticks until the timerfd expires, Off or Never
  fired,       \* the timerfd has expired and epoll has not reported it
  stall,       \* ticks that have passed since the loop was last waiting
  pc,          \* where the loop is: "poll", "arm", "expire", "run"
  cur,         \* the node it is working on
  queue,       \* timerNodeQueue
  expiration,  \* TimerNode::expiration_
  interval,    \* TimerNode::interval_, 0 for a timer that does not repeat
  deleted,     \* TimerNode::deleted_
  left         \* history: true time until the timer is due, at least -Wrap

nodeVars == <<queue, expiration, interval, deleted>>
vars == <<now, alarm, fired, stall, pc, cur, nodeVars, left>>

Waiting == pc = "poll" /\ ~fired

\* The nodes that may be at the top of the heap.
Top == {t \in queue : \A u \in queue : expiration[t] <= expiration[u]}

----------------------------------------------------------------------------
(* The clock and the timerfd *)

Tick ==
  /\ Waiting \/ stall < MaxStall
  /\ now' = IF now + 1 = Wrap THEN 0 ELSE now + 1
  /\ alarm' = IF alarm > 0 THEN alarm - 1 ELSE alarm
  /\ fired' = (fired \/ alarm = 1)
  /\ stall' = IF Waiting THEN 0 ELSE stall + 1
  /\ left' = [t \in Timers |-> IF t \in queue /\ left[t] > -Wrap
                                 THEN left[t] - 1 ELSE left[t]]
  /\ UNCHANGED <<pc, cur, nodeVars>>

\* Fault: the difference is signed and used as it is.
DelaySigned(when) == when - now

\* dif = expiration - now in size_t: when the expiration has passed, some 2^64
\* milliseconds, which the kernel cuts to the end of its time.
Delay(when) ==
  CASE when < now -> Never
    [] when >= now /\ when - now < MinDelay -> MinDelay
    [] OTHER -> when - now

\* resetTimerfd: timerfd_settime also forgets an expiration nobody has read.
Arm ==
  /\ pc = "arm"
  /\ alarm' = Delay(expiration[cur])
  /\ fired' = FALSE
  /\ pc' = "poll"
  /\ UNCHANGED <<now, stall, cur, nodeVars, left>>

----------------------------------------------------------------------------
(* EventLoop::runAfter and runEvery, on the loop's own thread *)

\* Fault: insert reports a change for the first timer only.
ChangedIfEmpty(when) == queue = {}

\* insert's result: the new node is earlier than the top.
Changed(when) == \A t \in queue : when < expiration[t]

AddTimer(t, timeout, repeat) ==
  /\ pc = "poll"
  /\ t \notin queue
  /\ queue' = queue \cup {t}
  /\ expiration' = [expiration EXCEPT ![t] = now + timeout]
  /\ interval' = [interval EXCEPT ![t] = repeat]
  /\ deleted' = [deleted EXCEPT ![t] = FALSE]
  /\ left' = [left EXCEPT ![t] = timeout]
  /\ IF Changed(now + timeout)
       THEN pc' = "arm" /\ cur' = t
       ELSE UNCHANGED <<pc, cur>>
  /\ stall' = IF Waiting THEN 0 ELSE stall
  /\ UNCHANGED <<now, alarm, fired>>

----------------------------------------------------------------------------
(* TimerQueue::handleRead *)

HandleRead ==
  /\ pc = "poll"
  /\ fired
  /\ fired' = FALSE
  /\ pc' = "expire"
  /\ UNCHANGED <<now, alarm, stall, cur, nodeVars, left>>

\* A node marked deleted is dropped.
PopDeleted(t) ==
  /\ deleted[t]
  /\ queue' = queue \ {t}
  /\ UNCHANGED <<pc, cur, expiration, interval, deleted>>

\* Fault: a timer counts as expired a tick too soon.
ExpiredSoon(t) == now + 1 >= expiration[t]

\* isValid() is false.
Expired(t) == now >= expiration[t]

\* isValid() marks the expired node deleted, and run() calls its callback.
Run(t) ==
  /\ ~deleted[t] /\ Expired(t)
  /\ deleted' = [deleted EXCEPT ![t] = TRUE]
  /\ pc' = "run" /\ cur' = t
  /\ UNCHANGED <<queue, expiration, interval>>

\* Fault: the timerfd is left as it is.
BreakUnarmed(t) ==
  /\ ~deleted[t] /\ ~Expired(t)
  /\ pc' = "poll"
  /\ UNCHANGED <<cur, nodeVars>>

\* The top is not due: leave the loop and arm the timerfd for it.
Break(t) ==
  /\ ~deleted[t] /\ ~Expired(t)
  /\ pc' = "arm" /\ cur' = t
  /\ UNCHANGED nodeVars

Expire ==
  /\ pc = "expire"
  /\ \E t \in Top : PopDeleted(t) \/ Run(t) \/ Break(t)
  /\ UNCHANGED <<now, alarm, fired, stall, left>>

\* The heap is empty: the timerfd stays as it is.
FinishEmpty ==
  /\ pc = "expire"
  /\ queue = {}
  /\ pc' = "poll"
  /\ UNCHANGED <<now, alarm, fired, stall, cur, nodeVars, left>>

\* Fault: the node goes back marked deleted.
DeletedAfterRestart == TRUE

\* TimerNode::restart of a repeating timer: deleted_ = false.
RestartedDeleted == FALSE

\* After the callback: pop, then restart and insert again, or delete the node.
Pop ==
  /\ pc = "run"
  /\ pc' = "expire"
  /\ IF interval[cur] > 0
       THEN /\ expiration' = [expiration EXCEPT ![cur] = @ + interval[cur]]
            /\ deleted' = [deleted EXCEPT ![cur] = RestartedDeleted]
            /\ left' = [left EXCEPT ![cur] = @ + interval[cur]]
            /\ UNCHANGED queue
       ELSE /\ queue' = queue \ {cur}
            /\ UNCHANGED <<expiration, deleted, left>>
  /\ UNCHANGED <<now, alarm, fired, stall, cur, interval>>

----------------------------------------------------------------------------
Init ==
  /\ now \in 0 .. (Wrap - 1)
  /\ alarm = Off
  /\ fired = FALSE
  /\ stall = 0
  /\ pc = "poll"
  /\ cur = NoTimer
  /\ queue = {}
  /\ expiration = [t \in Timers |-> 0]
  /\ interval = [t \in Timers |-> 0]
  /\ deleted = [t \in Timers |-> FALSE]
  /\ left = [t \in Timers |-> 0]

\* runAfter passes interval 0, runEvery its timeout.
Add == \E t \in Timers, timeout \in Timeouts :
         \E repeat \in {0, timeout} : AddTimer(t, timeout, repeat)

LoopStep == Arm \/ HandleRead \/ Expire \/ FinishEmpty \/ Pop

Next == Tick \/ Add \/ LoopStep

Spec == Init /\ [][Next]_vars

\* Time passes, and a loop that has something to do runs.
FairSpec == Spec /\ WF_vars(Tick) /\ WF_vars(LoopStep)

----------------------------------------------------------------------------
(* Properties *)

\* Every variable keeps its type; the timerfd is never armed
\* with a delay it would refuse.
TypeOK ==
  /\ now \in 0 .. (Wrap - 1)
  /\ alarm \in Nat \cup {Never}
  /\ fired \in BOOLEAN
  /\ stall \in 0 .. MaxStall
  /\ pc \in {"poll", "arm", "expire", "run"}
  /\ cur \in Timers \cup {NoTimer}
  /\ pc \in {"arm", "run"} => cur \in queue
  /\ queue \in SUBSET Timers
  /\ expiration \in [Timers -> Nat]
  /\ interval \in [Timers -> Nat]
  /\ deleted \in [Timers -> BOOLEAN]
  /\ left \in [Timers -> Int]

\* No callback runs before its time has passed: not when the clock wraps, not
\* when a repeating timer catches up after a stall.
NeverEarly == [][\A t \in Timers : Run(t) /\ pc = "expire" => left[t] <= 0]_vars

\* While the loop waits, the timerfd is armed, and for no later than the earliest
\* timer (or MinDelay from now): also after that timer was added, ran, or was
\* overtaken by a new one.  An underflow of dif is the one exception.
ArmedForEarliest ==
  Waiting /\ queue # {} =>
    \/ alarm = Never
    \/ /\ alarm # Off
       /\ \E t \in Top : alarm <= MinDelay \/ alarm <= expiration[t] - now

\* A repeating timer is never dropped, although isValid() marks it deleted each
\* time it runs and handleRead drops what is marked.
RepeatingTimerStays ==
  [][\A t \in queue : interval[t] > 0 => t \in queue']_vars

\* A repeating timer runs again and again, unless its expiration lies so close
\* to the clock's modulus, or past it, that the clock may wrap before the loop
\* looks, or the timerfd was armed for a time that does not come.
TimerRunsOrIsLost ==
  \A t \in Timers :
    t \in queue /\ interval[t] > 0 ~>
      (pc = "run" /\ cur = t) \/ alarm = Never
      \/ expiration[t] + MinDelay + MaxStall >= Wrap

(* A statement of the repository that the code does not keep *)

\* README.md:67, the server deals with idle connections at fixed times: a
\* repeating timer keeps running.
RepeatingTimerRuns ==
  \A t \in Timers : t \in queue /\ interval[t] > 0 ~> pc = "run" /\ cur = t
=============================================================================
