----------------------------- MODULE IdleReaper -----------------------------
(***************************************************************************)
(* Server::CheckActiveConnection under example/timer_server.cpp: a         *)
(* repeating timer lets Main walk all connections and delete those that    *)
(* have been idle for too long, while a sub reactor serves them.  There is *)
(* no lock between the two threads, and no connection is ever erased or    *)
(* its socket closed, so that every walk meets the deleted ones again.     *)
(*                                                                         *)
(* Accepting a connection is one step here; Reactor has its parts.  The    *)
(* timer is the one of TimerQueue, reduced to when it runs; its shortest   *)
(* delay is less than a tick.                                              *)
(***************************************************************************)
EXTENDS Integers

CONSTANTS
  Conns,     \* the connections, all of one sub reactor
  NoConn,    \* no connection
  Limit,     \* idle for more than this is too long: two minutes
  Period,    \* between two walks: 5000 ms
  Wrap,      \* the clock's modulus: 10^7 ms
  MaxStall   \* bound: ticks that pass while Main is busy

ASSUME IdleAssumption ==
  /\ NoConn \notin Conns
  /\ Limit \in Nat /\ Period \in Nat \ {0} /\ MaxStall \in Nat
  /\ Wrap \in Nat \ {0, 1}

Main == "main"
Loop == "loop"
Threads == {Main, Loop}

Never == -1

VARIABLES
  (* time *)
  now,       \* what getNow() returns
  due,       \* the timer's expiration; Never if the timerfd is armed for no time
  stall,     \* ticks since Main was last waiting
  (* the kernel and the clients *)
  peer,      \* the client's end: "none", "open", "fin", "rst", "broken"
  rx,        \* the socket has something to read
  out,       \* what was written to the client: "echoes" only, then "cleared",
             \* then "more"
  interest,  \* events registered in epoll: "none", "zero", "in"
  ready,     \* an edge that epoll has not reported
  (* the connections *)
  state,     \* Connection::state_
  context,   \* Connection::context_: when the last message came
  sendBuf,   \* Connection::send_buffer_: "", "echo" or "clear"
  inEpoll,   \* Channel::in_epoll_
  (* the threads *)
  pc,        \* where each thread is
  cur,       \* the connection it is working on
  buf,       \* WriteNonBlocking's copy of the send buffer
  revent,    \* what Poll has returned for Loop's connection: "IN", "HUP"
  last,      \* Main's reading of a context
  todo,      \* the connections Main has still to look at
  again,     \* delete_after
  exited,    \* "no", or why the process is gone
  (* history *)
  quiet,     \* ticks since the context was set, at most TooLong
  wrapped,   \* the connections for which the clock has wrapped since
  mixed,     \* the connections on which a thread began to send while the other
             \* was at it
  twice      \* the connections that both threads were deleting at a time

timeVars == <<now, due, stall>>
kernelVars == <<peer, rx, out, interest, ready>>
connVars == <<state, context, sendBuf, inEpoll>>
threadVars == <<pc, cur, buf, revent, last, todo, again>>
historyVars == <<quiet, wrapped, mixed, twice>>
vars == <<timeVars, kernelVars, connVars, threadVars, exited, historyVars>>

Accepted == {c \in Conns : peer[c] # "none"}

Goto(t, label) == pc' = [pc EXCEPT ![t] = label]

\* ErrorIf(true, ...) or a signal: the whole process ends.
Exit(why) == exited' = why /\ UNCHANGED pc

----------------------------------------------------------------------------
(* Time *)

\* Fault: the clock is not reduced.
PlainClock(n) == n + 1

NextClock(n) == IF n + 1 = Wrap THEN 0 ELSE n + 1

\* The timer's time has come, as isValid() sees it.
Expired == due # Never /\ now >= due

Waiting == pc[Main] = "poll" /\ ~Expired

\* The longest a connection is idle before Main has seen it.
TooLong == Limit + Period + MaxStall + 1

Tick ==
  /\ Waiting \/ stall < MaxStall
  /\ now' = NextClock(now)
  /\ stall' = IF Waiting THEN 0 ELSE stall + 1
  /\ quiet' = [c \in Conns |-> IF c \in Accepted /\ quiet[c] < TooLong
                                 THEN quiet[c] + 1 ELSE quiet[c]]
  /\ wrapped' = IF now' < now THEN Accepted ELSE wrapped
  /\ UNCHANGED <<due, kernelVars, connVars, threadVars, exited, mixed, twice>>

\* setContext(getNow())
Stamp(c) ==
  /\ context' = [context EXCEPT ![c] = now]
  /\ quiet' = [quiet EXCEPT ![c] = 0]
  /\ wrapped' = wrapped \ {c}

----------------------------------------------------------------------------
(* The kernel and the clients *)

Gone(c) == peer[c] \in {"rst", "broken"}

Revents(c, i) ==
  CASE i = "in" /\ (rx[c] \/ peer[c] # "open") -> "IN"
    [] i = "zero" /\ Gone(c) -> "HUP"
    [] OTHER -> "none"

ClientSend(c) ==
  /\ peer[c] = "open"
  /\ ~rx[c]
  /\ rx' = [rx EXCEPT ![c] = TRUE]
  /\ ready' = [ready EXCEPT ![c] = interest[c] = "in"]
  /\ UNCHANGED <<timeVars, peer, out, interest, connVars, threadVars, exited, historyVars>>

ClientFin(c) ==
  /\ peer[c] = "open"
  /\ peer' = [peer EXCEPT ![c] = "fin"]
  /\ ready' = [ready EXCEPT ![c] = interest[c] = "in"]
  /\ UNCHANGED <<timeVars, rx, out, interest, connVars, threadVars, exited, historyVars>>

\* A reset; after a FIN, a write then raises SIGPIPE.
ClientReset(c) ==
  /\ peer[c] \in {"open", "fin"}
  /\ peer' = [peer EXCEPT ![c] = IF @ = "open" THEN "rst" ELSE "broken"]
  /\ rx' = [rx EXCEPT ![c] = FALSE]
  /\ ready' = [ready EXCEPT ![c] = interest[c] # "none"]
  /\ UNCHANGED <<timeVars, out, interest, connVars, threadVars, exited, historyVars>>

\* Reading or writing takes the error from the socket: the next write finds none.
ErrorTaken(c) == IF peer[c] = "rst" THEN "broken" ELSE peer[c]

\* Main accepts a connection and calls new_connect_callback_.
Accept(c) ==
  /\ pc[Main] = "poll"
  /\ peer[c] = "none"
  /\ peer' = [peer EXCEPT ![c] = "open"]
  /\ interest' = [interest EXCEPT ![c] = "in"]
  /\ inEpoll' = [inEpoll EXCEPT ![c] = TRUE]
  /\ state' = [state EXCEPT ![c] = "Connected"]
  /\ Stamp(c)
  /\ UNCHANGED <<timeVars, rx, out, ready, sendBuf, threadVars, exited, mixed, twice>>

----------------------------------------------------------------------------
(* Connection::Send, by either thread on its connection *)

Other(t) == IF t = Main THEN Loop ELSE Main

Sending(t, c) == cur[t] = c /\ pc[t] \in {"send", "write"}

\* Sending, or about to delete what it has sent to, or to set its context.
AtWork(t, c) == Sending(t, c) \/ (cur[t] = c /\ pc[t] \in {"delete", "stamp"})

\* SetSendBuffer
SetSendBuffer(t, text) ==
  LET c == cur[t] IN
  /\ sendBuf' = [sendBuf EXCEPT ![c] = text]
  /\ Goto(t, "send")
  /\ mixed' = IF AtWork(Other(t), c) THEN mixed \cup {c} ELSE mixed

\* Fault: Write does not look at the state.
WriteAnyway(c) == TRUE

Writable(c) == state[c] = "Connected"

AfterSend(t) == IF t = Main THEN "delete" ELSE "stamp"

\* Write: the state, then a copy of the buffer.
Write(t) ==
  /\ pc[t] = "send"
  /\ IF Writable(cur[t])
       THEN buf' = [buf EXCEPT ![t] = sendBuf[cur[t]]] /\ Goto(t, "write")
       ELSE UNCHANGED buf /\ Goto(t, AfterSend(t))
  /\ UNCHANGED <<timeVars, kernelVars, connVars, cur, revent, last, todo, again, exited,
                 historyVars>>

\* What the client has got when text is added to it.
Written(c, text) ==
  CASE text = "" -> out[c]
    [] out[c] = "echoes" -> IF text = "clear" THEN "cleared" ELSE "echoes"
    [] OTHER -> "more"

\* WriteNonBlocking and send_buffer_->Clear().
WriteNonBlocking(t) ==
  LET c == cur[t] IN
  /\ pc[t] = "write"
  /\ buf[t] # "" => peer[c] # "broken"
  /\ out' \in IF Gone(c) THEN {out}
              ELSE {out, [out EXCEPT ![c] = Written(c, buf[t])]}
  /\ IF peer[c] = "rst" /\ buf[t] # ""
       THEN state' = [state EXCEPT ![c] = "Closed"]
            /\ peer' = [peer EXCEPT ![c] = ErrorTaken(c)]
       ELSE UNCHANGED <<state, peer>>
  /\ sendBuf' = [sendBuf EXCEPT ![c] = ""]
  /\ buf' = [buf EXCEPT ![t] = ""]
  /\ Goto(t, AfterSend(t))
  /\ UNCHANGED <<timeVars, rx, interest, ready, context, inEpoll, cur, revent, last, todo,
                 again, exited, historyVars>>

WriteBrokenPipe(t) ==
  /\ pc[t] = "write"
  /\ buf[t] # "" /\ peer[cur[t]] = "broken"
  /\ Exit("sigpipe")
  /\ UNCHANGED <<timeVars, kernelVars, connVars, cur, buf, revent, last, todo, again,
                 historyVars>>

\* Both threads are using one std::string.
SendRace ==
  /\ \E c \in Conns : Sending(Main, c) /\ Sending(Loop, c)
  /\ Exit("race")
  /\ UNCHANGED <<timeVars, kernelVars, connVars, cur, buf, revent, last, todo, again,
                 historyVars>>

----------------------------------------------------------------------------
(* Connection::deleteConnection, by either thread *)

Deleting(t, c) == cur[t] = c /\ pc[t] \in {"add", "mark_in", "mod", "del", "mark_out"}

\* state_, then disableAll: ADD or MOD.
DeleteConnection(t) ==
  LET c == cur[t] IN
  /\ pc[t] = "delete"
  /\ state' = [state EXCEPT ![c] = "Closed"]
  /\ Goto(t, IF inEpoll[c] THEN "mod" ELSE "add")
  /\ twice' = IF Deleting(Other(t), c) THEN twice \cup {c} ELSE twice
  /\ UNCHANGED <<timeVars, kernelVars, context, sendBuf, inEpoll, cur, buf, revent, last,
                 todo, again, exited, quiet, wrapped, mixed>>

\* epoll_ctl with no events: of those that are always reported, a reset is.
Disabled(c) ==
  /\ interest' = [interest EXCEPT ![c] = "zero"]
  /\ ready' = [ready EXCEPT ![c] = Gone(c)]

\* EEXIST for an ADD, ENOENT for a MOD or a DEL.
EpollFails(t) ==
  /\ \/ pc[t] = "add" /\ interest[cur[t]] # "none"
     \/ pc[t] \in {"mod", "del"} /\ interest[cur[t]] = "none"
  /\ Exit("epoll")
  /\ UNCHANGED <<timeVars, kernelVars, connVars, cur, buf, revent, last, todo, again,
                 historyVars>>

EpollAdd(t) ==
  /\ pc[t] = "add"
  /\ interest[cur[t]] = "none"
  /\ Disabled(cur[t])
  /\ Goto(t, "mark_in")
  /\ UNCHANGED <<timeVars, peer, rx, out, connVars, cur, buf, revent, last, todo, again,
                 exited, historyVars>>

MarkIn(t) ==
  /\ pc[t] = "mark_in"
  /\ inEpoll' = [inEpoll EXCEPT ![cur[t]] = TRUE]
  /\ Goto(t, "del")
  /\ UNCHANGED <<timeVars, kernelVars, state, context, sendBuf, cur, buf, revent, last,
                 todo, again, exited, historyVars>>

EpollMod(t) ==
  /\ pc[t] = "mod"
  /\ interest[cur[t]] # "none"
  /\ Disabled(cur[t])
  /\ Goto(t, "del")
  /\ UNCHANGED <<timeVars, peer, rx, out, connVars, cur, buf, revent, last, todo, again,
                 exited, historyVars>>

EpollDel(t) ==
  /\ pc[t] = "del"
  /\ interest[cur[t]] # "none"
  /\ interest' = [interest EXCEPT ![cur[t]] = "none"]
  /\ ready' = [ready EXCEPT ![cur[t]] = FALSE]
  /\ Goto(t, "mark_out")
  /\ UNCHANGED <<timeVars, peer, rx, out, connVars, cur, buf, revent, last, todo, again,
                 exited, historyVars>>

\* Fault: SetInEpoll with its default argument, true.
FlagAfterDeleteDefault == TRUE

FlagAfterDelete == FALSE

\* SetInEpoll(false); Main then puts the connection on delete_after, or takes it
\* from there when this was DeleteConnection.
MarkOut(t) ==
  LET c == cur[t] IN
  /\ pc[t] = "mark_out"
  /\ inEpoll' = [inEpoll EXCEPT ![c] = FlagAfterDelete]
  /\ CASE t = Loop -> Goto(t, "poll") /\ UNCHANGED again
       [] t = Main /\ c \in again -> Goto(t, "delete_after") /\ again' = again \ {c}
       [] t = Main /\ c \notin again -> Goto(t, "walk") /\ again' = again \cup {c}
  /\ UNCHANGED <<timeVars, kernelVars, state, context, sendBuf, cur, buf, revent, last,
                 todo, exited, historyVars>>

----------------------------------------------------------------------------
(* Main: the timer's callback *)

Walk ==
  /\ pc[Main] = "poll"
  /\ Expired
  /\ todo' = Accepted
  /\ Goto(Main, "walk")
  /\ UNCHANGED <<timeVars, kernelVars, connVars, cur, buf, revent, last, again, exited,
                 historyVars>>

\* The next connection: getContext().
Look(c) ==
  /\ pc[Main] = "walk"
  /\ c \in todo
  /\ todo' = todo \ {c}
  /\ cur' = [cur EXCEPT ![Main] = c]
  /\ last' = context[c]
  /\ Goto(Main, "judge")
  /\ UNCHANGED <<timeVars, kernelVars, connVars, buf, revent, again, exited, historyVars>>

\* Fault: a tick too soon.
IdleAtLimit == now < last \/ now - last >= Limit

\* now - last in size_t: less than nothing is more than anything.
Idle == now < last \/ now - last > Limit

\* getNow(), and the first part of Send if the connection is to be cleared.
Judge ==
  /\ pc[Main] = "judge"
  /\ IF Idle THEN SetSendBuffer(Main, "clear")
             ELSE Goto(Main, "walk") /\ UNCHANGED <<sendBuf, mixed>>
  /\ UNCHANGED <<timeVars, kernelVars, state, context, inEpoll, cur, buf, revent, last,
                 todo, again, exited, quiet, wrapped, twice>>

WalkEnds ==
  /\ pc[Main] = "walk"
  /\ todo = {}
  /\ Goto(Main, "delete_after")
  /\ UNCHANGED <<timeVars, kernelVars, connVars, cur, buf, revent, last, todo, again,
                 exited, historyVars>>

\* Server::DeleteConnection finds every connection: none is ever erased.
DeleteAgain(c) ==
  /\ pc[Main] = "delete_after"
  /\ c \in again
  /\ cur' = [cur EXCEPT ![Main] = c]
  /\ Goto(Main, "delete")
  /\ UNCHANGED <<timeVars, kernelVars, connVars, buf, revent, last, todo, again, exited,
                 historyVars>>

\* restart(), and isValid() once more.
Restart ==
  /\ pc[Main] = "delete_after"
  /\ again = {}
  /\ due' = due + Period
  /\ Goto(Main, IF now >= due' THEN "poll" ELSE "arm")
  /\ UNCHANGED <<now, stall, kernelVars, connVars, cur, buf, revent, last, todo, again,
                 exited, historyVars>>

\* resetTimerfd: what has passed meanwhile underflows.
Arm ==
  /\ pc[Main] = "arm"
  /\ due' = IF due < now THEN Never ELSE due
  /\ Goto(Main, "poll")
  /\ UNCHANGED <<now, stall, kernelVars, connVars, cur, buf, revent, last, todo, again,
                 exited, historyVars>>

----------------------------------------------------------------------------
(* The sub reactor *)

\* One event at a time: Poll's other results wait in its vector, or in the kernel.
Poll(c) ==
  /\ pc[Loop] = "poll"
  /\ ready[c]
  /\ Revents(c, interest[c]) # "none"
  /\ revent' = Revents(c, interest[c])
  /\ ready' = [ready EXCEPT ![c] = interest[c] = "zero"]
  /\ cur' = [cur EXCEPT ![Loop] = c]
  /\ Goto(Loop, "dispatch")
  /\ UNCHANGED <<timeVars, peer, rx, out, interest, connVars, buf, last, todo, again,
                 exited, historyVars>>

\* HandleEvent on EPOLLHUP: Close.
HandleHup ==
  /\ pc[Loop] = "dispatch"
  /\ revent = "HUP"
  /\ state' = [state EXCEPT ![cur[Loop]] = "Closed"]
  /\ Goto(Loop, "delete")
  /\ UNCHANGED <<timeVars, kernelVars, context, sendBuf, inEpoll, cur, buf, revent, last,
                 todo, again, exited, historyVars>>

\* HandleEvent on EPOLLIN: Read up to EAGAIN, or to the end or an error and Close.
Read ==
  LET c == cur[Loop] IN
  /\ pc[Loop] = "dispatch"
  /\ revent = "IN"
  /\ IF state[c] # "Connected"
       THEN Goto(Loop, "poll") /\ UNCHANGED <<rx, peer, state>>
       ELSE /\ rx' = [rx EXCEPT ![c] = FALSE]
            /\ peer' = [peer EXCEPT ![c] = ErrorTaken(c)]
            /\ IF peer[c] = "open"
                 THEN Goto(Loop, "message") /\ UNCHANGED state
                 ELSE Goto(Loop, "delete") /\ state' = [state EXCEPT ![c] = "Closed"]
  /\ UNCHANGED <<timeVars, out, interest, ready, context, sendBuf, inEpoll, cur, buf,
                 revent, last, todo, again, exited, historyVars>>

\* The application's message callback: the state, then Send.
OnMessage ==
  /\ pc[Loop] = "message"
  /\ IF state[cur[Loop]] = "Connected"
       THEN SetSendBuffer(Loop, "echo")
       ELSE Goto(Loop, "poll") /\ UNCHANGED <<sendBuf, mixed>>
  /\ UNCHANGED <<timeVars, kernelVars, state, context, inEpoll, cur, buf, revent, last,
                 todo, again, exited, quiet, wrapped, twice>>

SetContext ==
  /\ pc[Loop] = "stamp"
  /\ Stamp(cur[Loop])
  /\ Goto(Loop, "poll")
  /\ UNCHANGED <<timeVars, kernelVars, state, sendBuf, inEpoll, cur, buf, revent, last,
                 todo, again, exited, mixed, twice>>

----------------------------------------------------------------------------
Init ==
  /\ now \in 0 .. (Wrap - 1)
  /\ due = now + Period
  /\ stall = 0
  /\ peer = [c \in Conns |-> "none"]
  /\ rx = [c \in Conns |-> FALSE]
  /\ out = [c \in Conns |-> "echoes"]
  /\ interest = [c \in Conns |-> "none"]
  /\ ready = [c \in Conns |-> FALSE]
  /\ state = [c \in Conns |-> "Invalid"]
  /\ context = [c \in Conns |-> 0]
  /\ sendBuf = [c \in Conns |-> ""]
  /\ inEpoll = [c \in Conns |-> FALSE]
  /\ pc = [t \in Threads |-> "poll"]
  /\ cur = [t \in Threads |-> NoConn]
  /\ buf = [t \in Threads |-> ""]
  /\ revent = "IN"
  /\ last = 0
  /\ todo = {} /\ again = {}
  /\ exited = "no"
  /\ quiet = [c \in Conns |-> 0]
  /\ wrapped = {} /\ mixed = {} /\ twice = {}

ClientStep == \E c \in Conns : ClientSend(c) \/ ClientFin(c) \/ ClientReset(c)

Both(t) ==
  \/ Write(t) \/ WriteNonBlocking(t) \/ WriteBrokenPipe(t)
  \/ DeleteConnection(t) \/ EpollFails(t)
  \/ EpollAdd(t) \/ MarkIn(t) \/ EpollMod(t) \/ EpollDel(t) \/ MarkOut(t)

MainStep ==
  \/ Walk \/ Judge \/ WalkEnds \/ Restart \/ Arm
  \/ \E c \in Conns : Accept(c) \/ Look(c) \/ DeleteAgain(c)

LoopStep == HandleHup \/ Read \/ OnMessage \/ SetContext \/ \E c \in Conns : Poll(c)

Next ==
  /\ exited = "no"
  /\ \/ Tick \/ ClientStep \/ MainStep \/ LoopStep \/ SendRace
     \/ \E t \in Threads : Both(t)

Spec == Init /\ [][Next]_vars

----------------------------------------------------------------------------
(* Properties *)

Labels == {"poll", "walk", "judge", "send", "write", "delete", "add", "mark_in", "mod",
           "del", "mark_out", "delete_after", "arm", "dispatch", "message", "stamp"}

TimeTypeOK ==
  /\ now \in 0 .. (Wrap - 1)
  /\ due \in Nat \cup {Never}
  /\ stall \in 0 .. MaxStall

KernelTypeOK ==
  /\ peer \in [Conns -> {"none", "open", "fin", "rst", "broken"}]
  /\ rx \in [Conns -> BOOLEAN]
  /\ out \in [Conns -> {"echoes", "cleared", "more"}]
  /\ interest \in [Conns -> {"none", "zero", "in"}]
  /\ ready \in [Conns -> BOOLEAN]

ConnTypeOK ==
  /\ state \in [Conns -> {"Invalid", "Connected", "Closed"}]
  /\ context \in [Conns -> 0 .. (Wrap - 1)]
  /\ sendBuf \in [Conns -> {"", "echo", "clear"}]
  /\ inEpoll \in [Conns -> BOOLEAN]

ThreadTypeOK ==
  /\ pc \in [Threads -> Labels]
  /\ cur \in [Threads -> Conns \cup {NoConn}]
  /\ pc[Loop] # "poll" => cur[Loop] \in Conns
  /\ pc[Main] \notin {"poll", "walk", "delete_after", "arm"} => cur[Main] \in Conns
  /\ buf \in [Threads -> {"", "echo", "clear"}]
  /\ revent \in {"IN", "HUP"}
  /\ last \in 0 .. (Wrap - 1)
  /\ todo \subseteq Conns /\ again \subseteq Conns
  /\ exited \in {"no", "epoll", "sigpipe", "race"}

HistoryTypeOK ==
  /\ quiet \in [Conns -> 0 .. TooLong]
  /\ wrapped \subseteq Conns /\ mixed \subseteq Conns /\ twice \subseteq Conns

\* Every variable keeps its type; a busy thread has a connection in hand.
TypeOK == TimeTypeOK /\ KernelTypeOK /\ ConnTypeOK /\ ThreadTypeOK /\ HistoryTypeOK

\* However often a connection is deleted, by every walk and twice by each, and by
\* its loop, an epoll_ctl only fails and ends the server when both threads are
\* deleting one connection, and its client has gone.
ExitIsExplained ==
  exited = "epoll" => \E c \in twice : peer[c] # "open"

\* "You are cleared!" comes once and last, however many walks meet the connection
\* again, unless its loop began to send before Main, having begun to, deleted it.
ClearIsFinal == \A c \in Conns : out[c] = "more" => c \in mixed

\* A connection is not cleared before it has been idle for Limit, unless the clock
\* has wrapped since its last message or its loop answered one after Main looked; and
\* it is not left idle for longer than Limit and a Period, as long as the timer is
\* not so close to the end of the clock that Main may miss it, nor past it.
ClearedInTime ==
  /\ \A c \in Conns :
       pc[Main] = "delete" /\ cur[Main] = c /\ c \notin again =>
         quiet[c] > Limit \/ c \in wrapped \cup mixed \/ context[c] # last
  /\ \A c \in Conns :
       state[c] = "Connected" /\ quiet[c] = TooLong => due + MaxStall >= Wrap \/ due = Never
=============================================================================
