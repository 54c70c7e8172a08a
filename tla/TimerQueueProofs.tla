-------------------------- MODULE TimerQueueProofs --------------------------
(***************************************************************************)
(* Proofs about TimerQueue, for any number of timers and timeouts, any     *)
(* modulus of the clock and any stall of the loop.                         *)
(***************************************************************************)
EXTENDS TimerQueue, TLAPS

\* The code's view of a timer is never ahead of time: what it takes to be left,
\* expiration - now, is at least what is left.  The wrap only adds to it.
LeftInv == \A t \in queue : left[t] <= expiration[t] - now

\* Only the node whose callback is running is marked deleted.
DeletedInv == \A t \in queue : deleted[t] => pc = "run" /\ cur = t

IInv == TypeOK /\ LeftInv /\ DeletedInv

----------------------------------------------------------------------------
\* No timer is in the heap at first.
LEMMA InitInv == Init => IInv
<1> SUFFICES ASSUME Init PROVE IInv
  OBVIOUS
<1>1. TypeOK
  <2>1. now \in 0 .. (Wrap - 1) /\ stall \in 0 .. MaxStall /\ alarm \in Nat
    BY TimerAssumption DEF Init, Off
  <2>2. /\ expiration \in [Timers -> Nat] /\ interval \in [Timers -> Nat]
        /\ left \in [Timers -> Int]
    BY DEF Init
  <2>3. deleted \in [Timers -> BOOLEAN]
    BY Zenon DEF Init
  <2> QED
    BY <2>1, <2>2, <2>3, Zenon DEF Init, TypeOK
<1>2. LeftInv /\ DeletedInv
  BY DEF Init, LeftInv, DeletedInv
<1> QED
  BY <1>1, <1>2 DEF IInv

\* A tick: the clock wraps or goes up by one, and what is left goes down by one
\* unless it has long been due.
LEMMA TickInv == ASSUME IInv, Tick PROVE IInv'
<1>1. TypeOK /\ LeftInv /\ DeletedInv
  BY DEF IInv
<1>2. now' \in 0 .. (Wrap - 1) /\ (now' = now + 1 \/ now' = 0) /\ now \in 0 .. (Wrap - 1)
  BY <1>1, TimerAssumption DEF TypeOK, Tick
<1>3. UNCHANGED <<pc, cur, queue, expiration, interval, deleted>>
  BY DEF Tick, nodeVars
<1>4. left' \in [Timers -> Int]
  BY <1>1, TimerAssumption DEF TypeOK, Tick
<1>5. TypeOK'
  <2>1. alarm' \in Nat \cup {Never}
    BY <1>1 DEF TypeOK, Tick, Never
  <2>2. stall' \in 0 .. MaxStall
    BY <1>1, TimerAssumption DEF TypeOK, Tick
  <2>3. fired' \in BOOLEAN
    BY <1>1 DEF TypeOK, Tick
  <2> QED
    BY <1>1, <1>2, <1>3, <1>4, <2>1, <2>2, <2>3, Zenon DEF TypeOK
<1>6. LeftInv'
  <2> SUFFICES ASSUME NEW t \in queue PROVE left'[t] <= expiration[t] - now'
    BY <1>3 DEF LeftInv
  <2>1. t \in Timers /\ expiration[t] \in Nat /\ left[t] \in Int
    BY <1>1 DEF TypeOK
  <2>2. left[t] <= expiration[t] - now
    BY <1>1 DEF LeftInv
  <2>3. left'[t] = IF left[t] > -Wrap THEN left[t] - 1 ELSE left[t]
    BY <2>1 DEF Tick
  <2> QED
    BY <1>2, <2>1, <2>2, <2>3, TimerAssumption
<1>7. DeletedInv'
  BY <1>1, <1>3, Zenon DEF DeletedInv
<1> QED
  BY <1>5, <1>6, <1>7 DEF IInv

\* resetTimerfd moves no timer.
LEMMA ArmInv == ASSUME IInv, Arm PROVE IInv'
<1>1. TypeOK /\ LeftInv /\ DeletedInv
  BY DEF IInv
<1>2. cur \in queue /\ cur \in Timers
  BY <1>1 DEF TypeOK, Arm
<1>3. expiration[cur] \in Nat /\ now \in Nat
  BY <1>1, <1>2, TimerAssumption DEF TypeOK
<1>4. alarm' \in Nat \cup {Never}
  BY <1>3, TimerAssumption DEF Arm, Delay
<1>5. TypeOK'
  BY <1>1, <1>4 DEF TypeOK, Arm, nodeVars
<1>6. LeftInv' /\ DeletedInv'
  BY <1>1 DEF LeftInv, DeletedInv, Arm, nodeVars
<1> QED
  BY <1>5, <1>6 DEF IInv

\* A new timer is due after its timeout, by the code's clock as in truth.
LEMMA AddTimerInv ==
  ASSUME IInv, NEW t \in Timers, NEW timeout \in Timeouts,
         NEW repeat \in {0, timeout}, AddTimer(t, timeout, repeat)
  PROVE  IInv'
<1>1. TypeOK /\ LeftInv /\ DeletedInv
  BY DEF IInv
<1>2. timeout \in Nat /\ repeat \in Nat /\ now \in Nat
  BY <1>1, TimerAssumption DEF TypeOK
<1>3. /\ queue' = queue \cup {t}
      /\ expiration' = [expiration EXCEPT ![t] = now + timeout]
      /\ interval' = [interval EXCEPT ![t] = repeat]
      /\ deleted' = [deleted EXCEPT ![t] = FALSE]
      /\ left' = [left EXCEPT ![t] = timeout]
      /\ UNCHANGED <<now, alarm, fired>>
      /\ pc = "poll"
  BY DEF AddTimer
<1>4. TypeOK'
  <2>1. expiration' \in [Timers -> Nat] /\ interval' \in [Timers -> Nat]
        /\ left' \in [Timers -> Int] /\ queue' \in SUBSET Timers
    BY <1>1, <1>2, <1>3 DEF TypeOK
  <2>2. deleted' \in [Timers -> BOOLEAN]
    BY <1>1, <1>3, Zenon DEF TypeOK
  <2>3. /\ pc' \in {"poll", "arm", "expire", "run"}
        /\ cur' \in Timers \cup {NoTimer}
        /\ pc' \in {"arm", "run"} => cur' \in queue'
    BY <1>1, <1>3 DEF TypeOK, AddTimer
  <2>4. stall' \in 0 .. MaxStall
    BY <1>1, TimerAssumption DEF TypeOK, AddTimer
  <2> QED
    BY <1>1, <1>3, <2>1, <2>2, <2>3, <2>4, Zenon DEF TypeOK
<1>5. LeftInv'
  BY <1>1, <1>2, <1>3 DEF LeftInv, TypeOK
<1>6. DeletedInv'
  BY <1>1, <1>3 DEF DeletedInv, TypeOK
<1> QED
  BY <1>4, <1>5, <1>6 DEF IInv

\* The handler's beginning and its end with an empty heap move no timer.
LEMMA HandleReadInv == ASSUME IInv, HandleRead \/ FinishEmpty PROVE IInv'
<1>1. TypeOK /\ LeftInv /\ DeletedInv
  BY DEF IInv
<1>2. TypeOK'
  BY <1>1 DEF TypeOK, HandleRead, FinishEmpty, nodeVars
<1>3. LeftInv' /\ DeletedInv'
  BY <1>1 DEF LeftInv, DeletedInv, HandleRead, FinishEmpty, nodeVars
<1> QED
  BY <1>2, <1>3 DEF IInv

\* A node that is run is marked deleted and is the current one.
LEMMA ExpireInv == ASSUME IInv, Expire PROVE IInv'
<1>1. TypeOK /\ LeftInv /\ DeletedInv
  BY DEF IInv
<1>2. PICK t \in Top : PopDeleted(t) \/ Run(t) \/ Break(t)
  BY DEF Expire
<1>3. t \in queue /\ t \in Timers
  BY <1>1 DEF Top, TypeOK
<1>4. /\ UNCHANGED <<now, alarm, fired, stall, left, expiration, interval>>
      /\ queue' \subseteq queue /\ pc = "expire"
  BY <1>2 DEF Expire, PopDeleted, Run, Break, nodeVars
<1>5. deleted' \in [Timers -> BOOLEAN]
  <2>1. deleted' = deleted \/ deleted' = [deleted EXCEPT ![t] = TRUE]
    BY <1>2 DEF PopDeleted, Run, Break, nodeVars
  <2> QED
    BY <1>1, <2>1, Zenon DEF TypeOK
<1>6. /\ pc' \in {"poll", "arm", "expire", "run"}
      /\ cur' \in Timers \cup {NoTimer}
      /\ pc' \in {"arm", "run"} => cur' \in queue'
  BY <1>1, <1>2, <1>3, <1>4 DEF TypeOK, PopDeleted, Run, Break, nodeVars
<1>7. TypeOK'
  BY <1>1, <1>4, <1>5, <1>6, Zenon DEF TypeOK
<1>8. LeftInv'
  BY <1>1, <1>4 DEF LeftInv
<1>9. DeletedInv'
  BY <1>1, <1>2, <1>3, <1>4 DEF DeletedInv, TypeOK, PopDeleted, Run, Break,
     nodeVars
<1> QED
  BY <1>7, <1>8, <1>9 DEF IInv

\* A repeating timer's expiration and true time move on by the same interval.
LEMMA PopInv == ASSUME IInv, Pop PROVE IInv'
<1>1. TypeOK /\ LeftInv /\ DeletedInv
  BY DEF IInv
<1>2. cur \in queue /\ cur \in Timers /\ pc' = "expire"
  BY <1>1 DEF TypeOK, Pop
<1>3. UNCHANGED <<now, alarm, fired, stall, cur, interval>>
  BY DEF Pop
<1>4. CASE interval[cur] > 0
  <2>1. /\ expiration' = [expiration EXCEPT ![cur] = @ + interval[cur]]
        /\ deleted' = [deleted EXCEPT ![cur] = RestartedDeleted]
        /\ left' = [left EXCEPT ![cur] = @ + interval[cur]]
        /\ queue' = queue
    BY <1>4 DEF Pop
  <2>2. expiration' \in [Timers -> Nat] /\ left' \in [Timers -> Int]
    BY <1>1, <1>2, <2>1 DEF TypeOK
  <2>3. deleted' \in [Timers -> BOOLEAN]
    BY <1>1, <2>1, Zenon DEF TypeOK, RestartedDeleted
  <2>4. TypeOK'
    BY <1>1, <1>2, <1>3, <2>1, <2>2, <2>3, Zenon DEF TypeOK
  <2>5. LeftInv'
    BY <1>1, <1>2, <1>3, <2>1, TimerAssumption DEF LeftInv, TypeOK
  <2>6. DeletedInv'
    BY <1>1, <1>2, <2>1 DEF DeletedInv, TypeOK, RestartedDeleted
  <2> QED
    BY <2>4, <2>5, <2>6 DEF IInv
<1>5. CASE ~(interval[cur] > 0)
  <2>1. queue' = queue \ {cur} /\ UNCHANGED <<expiration, deleted, left>>
    BY <1>5 DEF Pop
  <2>2. queue' \in SUBSET Timers
    BY <1>1, <2>1 DEF TypeOK
  <2>3. TypeOK'
    BY <1>1, <1>2, <1>3, <2>1, <2>2 DEF TypeOK
  <2>4. LeftInv' /\ DeletedInv'
    BY <1>1, <1>3, <2>1 DEF LeftInv, DeletedInv
  <2> QED
    BY <2>3, <2>4 DEF IInv
<1> QED
  BY <1>4, <1>5

\* Every step keeps the invariant.
LEMMA NextInv == IInv /\ [Next]_vars => IInv'
<1> SUFFICES ASSUME IInv, [Next]_vars PROVE IInv'
  OBVIOUS
<1>1. CASE Tick
  BY <1>1, TickInv
<1>2. CASE Add
  BY <1>2, AddTimerInv DEF Add
<1>3. CASE Arm
  BY <1>3, ArmInv
<1>4. CASE HandleRead \/ FinishEmpty
  BY <1>4, HandleReadInv
<1>5. CASE Expire
  BY <1>5, ExpireInv
<1>6. CASE Pop
  BY <1>6, PopInv
<1>7. CASE UNCHANGED vars
  BY <1>7 DEF IInv, TypeOK, LeftInv, DeletedInv, vars, nodeVars
<1> QED
  BY <1>1, <1>2, <1>3, <1>4, <1>5, <1>6, <1>7 DEF Next, LoopStep

\* Every behaviour keeps the inductive invariant.
THEOREM Invariant == Spec => []IInv
<1>1. Init => IInv
  BY InitInv
<1>2. IInv /\ [Next]_vars => IInv'
  BY NextInv
<1> QED
  BY <1>1, <1>2, PTL DEF Spec

\* Every variable keeps its type.
THEOREM TypeCorrect == Spec => []TypeOK
<1>1. IInv => TypeOK
  BY DEF IInv
<1> QED
  BY <1>1, Invariant, PTL

\* Only the node handleRead has found at the top of the heap is run.
LEMMA RunIsOfTop ==
  ASSUME NEW t \in Timers, [Next]_vars, pc = "expire", Run(t)
  PROVE  t \in queue
<1>1. pc' = "run" /\ cur' = t
  BY DEF Run
<1>2. Expire
  BY <1>1 DEF Next, Add, AddTimer, Tick, LoopStep, Arm, HandleRead, FinishEmpty,
     Pop, vars
<1>3. PICK u \in Top : PopDeleted(u) \/ Run(u) \/ Break(u)
  BY <1>2 DEF Expire
<1>4. u = t
  BY <1>1, <1>3 DEF PopDeleted, Run, Break
<1> QED
  BY <1>3, <1>4 DEF Top

\* No callback runs before its time, however often the clock wraps and however
\* long the loop stalls.
THEOREM TimersAreNeverEarly == Spec => NeverEarly
<1>1. IInv /\ [Next]_vars =>
        [\A t \in Timers : Run(t) /\ pc = "expire" => left[t] <= 0]_vars
  <2> SUFFICES ASSUME IInv, [Next]_vars, NEW t \in Timers, Run(t), pc = "expire"
               PROVE  left[t] <= 0
    OBVIOUS
  <2>1. t \in queue
    BY RunIsOfTop
  <2>2. left[t] <= expiration[t] - now
    BY <2>1 DEF IInv, LeftInv
  <2>3. now >= expiration[t]
    BY DEF Run, Expired
  <2>4. left[t] \in Int /\ expiration[t] \in Nat /\ now \in Nat
    BY TimerAssumption DEF IInv, TypeOK
  <2> QED
    BY <2>2, <2>3, <2>4
<1> QED
  BY <1>1, Invariant, PTL DEF Spec, NeverEarly

\* A repeating timer is in the heap for ever: the mark isValid() leaves on it is
\* gone whenever handleRead looks for marked nodes.
THEOREM RepeatingTimersStay == Spec => RepeatingTimerStays
<1>1. IInv /\ [Next]_vars =>
        [\A t \in queue : interval[t] > 0 => t \in queue']_vars
  <2> SUFFICES ASSUME IInv, [Next]_vars, NEW t \in queue, interval[t] > 0
               PROVE  t \in queue'
    OBVIOUS
  <2>1. CASE Expire
    <3>1. pc = "expire"
      BY <2>1 DEF Expire
    <3>2. ~\E u \in Top : PopDeleted(u)
      BY <3>1 DEF IInv, DeletedInv, PopDeleted, Top
    <3> QED
      BY <2>1, <3>2 DEF Expire, Run, Break, nodeVars
  <2>2. CASE Pop
    BY <2>2 DEF Pop
  <2>3. CASE ~Expire /\ ~Pop
    BY <2>3 DEF Next, Add, AddTimer, Tick, LoopStep, Arm, HandleRead,
       FinishEmpty, vars, nodeVars
  <2> QED
    BY <2>1, <2>2, <2>3
<1> QED
  BY <1>1, Invariant, PTL DEF Spec, RepeatingTimerStays

----------------------------------------------------------------------------
(* The timerfd *)

\* The timerfd is armed for the node on top of the heap, and stays so.
TopInv ==
  /\ pc = "arm" => cur \in Top
  /\ ArmedForEarliest

\* A tick brings the clock and the timerfd forward together.
LEMMA TickTop == ASSUME IInv, TopInv, Tick PROVE TopInv'
<1>1. TypeOK
  BY DEF IInv
<1>2. now' = now + 1 \/ now' = 0
  BY DEF Tick
<1>3. UNCHANGED <<pc, cur, queue, expiration>> /\ Top' = Top
  BY DEF Tick, nodeVars, Top
<1>4. ASSUME Waiting', queue' # {}, alarm' # Never
      PROVE  /\ alarm' # Off
             /\ \E t \in Top : alarm' <= MinDelay \/ alarm' <= expiration[t] - now'
  <2>1. Waiting /\ alarm # 1 /\ queue # {}
    BY <1>3, <1>4 DEF Waiting, Tick
  <2>2. alarm # Never
    BY <1>4 DEF Tick, Never
  <2>3. PICK t \in Top : alarm <= MinDelay \/ alarm <= expiration[t] - now
    BY <2>1, <2>2 DEF TopInv, ArmedForEarliest
  <2>4. alarm \in Nat \ {0, 1} /\ alarm' = alarm - 1
    BY <1>1, <2>1, <2>2 DEF TopInv, ArmedForEarliest, TypeOK, Never, Off, Tick
  <2>5. expiration[t] \in Nat /\ now \in Nat /\ MinDelay \in Nat
    BY <1>1, TimerAssumption DEF Top, TypeOK
  <2>6. alarm' <= MinDelay \/ alarm' <= expiration[t] - now'
    BY <1>2, <2>3, <2>4, <2>5
  <2> QED
    BY <2>4, <2>6 DEF Off
<1>5. ArmedForEarliest'
  BY <1>3, <1>4 DEF ArmedForEarliest
<1> QED
  BY <1>3, <1>5 DEF TopInv

\* The delay the timerfd is armed with is not zero, and no longer than what is
\* left or MinDelay.
LEMMA ArmTop == ASSUME IInv, TopInv, Arm PROVE TopInv'
<1>1. cur \in Top /\ Top' = Top /\ UNCHANGED <<now, expiration>>
  BY DEF TopInv, Arm, Top, nodeVars
<1>2. expiration[cur] \in Nat /\ now \in Nat
  BY <1>1, TimerAssumption DEF IInv, TypeOK, Top
<1>3. \/ alarm' = Never
      \/ alarm' # Off /\ (alarm' <= MinDelay \/ alarm' <= expiration[cur] - now)
  BY <1>2, TimerAssumption DEF Arm, Delay, Off
<1>4. ArmedForEarliest'
  BY <1>1, <1>3 DEF ArmedForEarliest
<1>5. pc' # "arm"
  BY DEF Arm
<1> QED
  BY <1>4, <1>5 DEF TopInv

\* A new node either is the earliest one, and the timerfd will be armed for it,
\* or leaves the top where it is.
LEMMA AddTimerTop ==
  ASSUME IInv, TopInv, NEW t \in Timers, NEW timeout \in Timeouts,
         NEW repeat \in {0, timeout}, AddTimer(t, timeout, repeat)
  PROVE  TopInv'
<1>1. /\ pc = "poll" /\ t \notin queue /\ queue' = queue \cup {t}
      /\ expiration' = [expiration EXCEPT ![t] = now + timeout]
      /\ UNCHANGED <<now, alarm, fired>>
  BY DEF AddTimer
<1>2. /\ expiration'[t] = now + timeout
      /\ \A u \in queue : expiration'[u] = expiration[u]
      /\ \A u \in queue \cup {t} : expiration'[u] \in Nat
      /\ queue \subseteq Timers
  BY <1>1, TimerAssumption DEF IInv, TypeOK
<1>3. CASE Changed(now + timeout)
  <2>1. pc' = "arm" /\ cur' = t
    BY <1>3 DEF AddTimer
  <2>2. \A u \in queue : now + timeout < expiration[u]
    BY <1>3 DEF Changed
  <2>3. t \in Top'
    BY <1>1, <1>2, <2>2 DEF Top
  <2>4. ~Waiting'
    BY <2>1 DEF Waiting
  <2> QED
    BY <2>1, <2>3, <2>4 DEF TopInv, ArmedForEarliest
<1>4. CASE ~Changed(now + timeout)
  <2>1. UNCHANGED pc
    BY <1>4 DEF AddTimer
  <2>2. PICK v \in queue : ~(now + timeout < expiration[v])
    BY <1>4 DEF Changed
  <2>3. ASSUME NEW u \in Top PROVE u \in Top' /\ expiration'[u] = expiration[u]
    <3>1. u \in queue /\ \A w \in queue : expiration[u] <= expiration[w]
      BY DEF Top
    <3>2. expiration[u] <= expiration'[t]
      <4>1. expiration[u] \in Nat /\ expiration[v] \in Nat
            /\ now + timeout \in Nat
        BY <1>2, <3>1
      <4>2. expiration[u] <= expiration[v]
        BY <3>1
      <4> QED
        BY <1>2, <2>2, <4>1, <4>2
    <3> QED
      BY <1>1, <1>2, <3>1, <3>2 DEF Top
  <2>4. Waiting' => Waiting /\ queue # {}
    BY <1>1, <2>1, <2>2 DEF Waiting
  <2>5. ArmedForEarliest'
    <3> SUFFICES ASSUME Waiting', alarm' # Never
                 PROVE  /\ alarm' # Off
                        /\ \E u \in Top' : \/ alarm' <= MinDelay
                                           \/ alarm' <= expiration'[u] - now'
      BY DEF ArmedForEarliest
    <3>1. alarm # Never /\ Waiting /\ queue # {}
      BY <1>1, <2>4
    <3>2. alarm # Off
      BY <3>1 DEF TopInv, ArmedForEarliest
    <3>3. PICK u \in Top : alarm <= MinDelay \/ alarm <= expiration[u] - now
      BY <3>1 DEF TopInv, ArmedForEarliest
    <3>4. u \in Top' /\ expiration'[u] = expiration[u]
      BY <2>3
    <3> QED
      BY <1>1, <3>2, <3>3, <3>4
  <2> QED
    BY <1>1, <2>1, <2>5 DEF TopInv
<1> QED
  BY <1>3, <1>4

\* handleRead leaves its loop for the node on top or with an empty heap.
LEMMA HandlerTop ==
  ASSUME IInv, TopInv, HandleRead \/ Expire \/ FinishEmpty \/ Pop
  PROVE  TopInv'
<1>1. CASE HandleRead \/ Pop
  <2>1. pc' # "arm" /\ ~Waiting'
    BY <1>1 DEF HandleRead, Pop, Waiting
  <2> QED
    BY <2>1 DEF TopInv, ArmedForEarliest
<1>2. CASE FinishEmpty
  <2>1. pc' # "arm" /\ queue' = {}
    BY <1>2 DEF FinishEmpty, nodeVars
  <2> QED
    BY <2>1 DEF TopInv, ArmedForEarliest
<1>3. CASE Expire
  <2>1. PICK t \in Top : PopDeleted(t) \/ Run(t) \/ Break(t)
    BY <1>3 DEF Expire
  <2>2. pc' # "poll"
    BY <1>3, <2>1 DEF Expire, PopDeleted, Run, Break
  <2>3. ASSUME pc' = "arm" PROVE cur' = t /\ Top' = Top
    BY <1>3, <2>1, <2>3 DEF Expire, PopDeleted, Run, Break, nodeVars, Top
  <2> QED
    BY <2>2, <2>3 DEF TopInv, ArmedForEarliest, Waiting
<1> QED
  BY <1>1, <1>2, <1>3

\* Every step leaves the timerfd as it should be.
LEMMA NextTop == IInv /\ TopInv /\ [Next]_vars => TopInv'
<1> SUFFICES ASSUME IInv, TopInv, [Next]_vars PROVE TopInv'
  OBVIOUS
<1>1. CASE Tick
  BY <1>1, TickTop
<1>2. CASE Add
  BY <1>2, AddTimerTop DEF Add
<1>3. CASE Arm
  BY <1>3, ArmTop
<1>4. CASE HandleRead \/ Expire \/ FinishEmpty \/ Pop
  BY <1>4, HandlerTop
<1>5. CASE UNCHANGED vars
  BY <1>5 DEF TopInv, ArmedForEarliest, Waiting, Top, vars, nodeVars
<1> QED
  BY <1>1, <1>2, <1>3, <1>4, <1>5 DEF Next, LoopStep

\* A loop that waits has the timerfd armed, for no later than its earliest timer
\* or MinDelay from now, unless dif has underflowed.
THEOREM TimerfdIsArmed == Spec => []ArmedForEarliest
<1>1. Init => TopInv
  BY DEF Init, TopInv, ArmedForEarliest
<1>2. IInv /\ TopInv /\ [Next]_vars => TopInv'
  BY NextTop
<1>3. TopInv => ArmedForEarliest
  BY DEF TopInv
<1> QED
  BY <1>1, <1>2, <1>3, Invariant, PTL DEF Spec
=============================================================================
