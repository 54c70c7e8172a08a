------------------------------ MODULE Reactor ------------------------------
(***************************************************************************)
(* The multi-reactor network core: Server, Acceptor, Connection, Channel,  *)
(* Epoll and EventLoop, running the echo application of example/server.cpp *)
(*                                                                         *)
(* One thread (Main) accepts connections and, while it builds each one,    *)
(* registers it in the epoll instance of one of NumLoops sub-reactor       *)
(* threads.  That thread serves the connection from then on: it may do so  *)
(* before Main has finished building it, and there is no lock between the  *)
(* two.  A step is one access to state another thread or the kernel shares.*)
(*                                                                         *)
(* The kernel's part (sockets and epoll, edge and level triggered) is      *)
(* modelled from how src/ calls it.  A chunk is what one read() returns.   *)
(***************************************************************************)
EXTENDS Integers, Sequences, FiniteSets

CONSTANTS
  Clients,    \* the clients that may ever connect, one connection each
  NoClient,   \* no connection
  NumLoops,   \* number of sub reactors: hardware_concurrency()
  FirstFd,    \* lowest free descriptor once the server listens
  MaxFd,      \* RLIMIT_NOFILE: descriptors are 0..MaxFd-1
  MaxChunks   \* bound: chunks one client sends

ASSUME ReactorAssumption ==
  /\ NoClient \notin Clients
  /\ NumLoops \in Nat \ {0}
  /\ FirstFd \in Nat
  /\ MaxFd \in Nat /\ FirstFd <= MaxFd
  /\ MaxChunks \in Nat

NoFd == -1

VARIABLES
  (* the kernel and the clients *)
  peer,        \* the client's end: "none", "open", "fin", "rst", "broken"
  sent,        \* chunks the client has sent so far: 1, 2, ..., sent
  rx,          \* the socket's receive queue
  out,         \* everything written to the client
  interest,    \* events registered in epoll: "none", "zero", "in", "inET"
  ready,       \* the channel is on its epoll's ready list
  nextFd,      \* lowest free descriptor
  (* Connection and Channel objects, and Server::connections_ *)
  fd,          \* the descriptor of the connection, NoFd before accept()
  state,       \* Connection::state_
  readBuf,     \* Connection::read_buffer_
  sendBuf,     \* Connection::send_buffer_, less what is already written
  hasDelete,   \* delete_connection_callback_ is set
  hasRead,     \* the channel's read_callback_ is set
  listen,      \* Channel::listen_events_
  inEpoll,     \* Channel::in_epoll_
  revent,      \* Channel::ready_events_
  connections, \* Server::connections_
  (* the threads *)
  pc,          \* where each thread is
  cur,         \* the connection it is working on
  ret,         \* where its UpdateChannel call returns to
  active,      \* Poll's result that Loop has still to handle
  exited       \* "no", or why the process is gone

kernelVars == <<peer, sent, rx, out, interest, ready, nextFd>>
connVars == <<fd, state, readBuf, sendBuf, hasDelete, connections>>
channelVars == <<hasRead, listen, inEpoll, revent>>
threadVars == <<pc, cur, ret, active>>
vars == <<kernelVars, connVars, channelVars, threadVars, exited>>

Loops == 0 .. (NumLoops - 1)
Main == NumLoops
Threads == Loops \cup {Main}

\* Server::NewConnection's fd % sub_reactors_.size().
LoopOf(c) == fd[c] % NumLoops

Accepted(c) == fd[c] # NoFd

Goto(t, label) == pc' = [pc EXCEPT ![t] = label]

\* ErrorIf(true, ...) or a signal: the whole process ends.
Exit(why) == /\ exited' = why
             /\ UNCHANGED pc

----------------------------------------------------------------------------
(* The kernel *)

\* read() would not return EAGAIN.
Readable(c) == rx[c] # <<>> \/ peer[c] \in {"fin", "rst", "broken"}

\* What epoll_wait reports for c under interest i, as HandleEvent tells it
\* apart: EPOLLIN (with or without EPOLLHUP), or EPOLLHUP alone.
Revents(c, i) ==
  CASE i \in {"in", "inET"} /\ Readable(c) -> "IN"
    [] i = "zero" /\ peer[c] \in {"rst", "broken"} -> "HUP"
    [] OTHER -> "none"

\* A socket event of c wakes its epoll item.
Wake(c, interests) ==
  ready' = [ready EXCEPT ![c] = @ \/ interest[c] \in interests]

ClientConnect(c) ==
  /\ peer[c] = "none"
  /\ peer' = [peer EXCEPT ![c] = "open"]
  /\ UNCHANGED <<sent, rx, out, interest, ready, nextFd, connVars,
                 channelVars, threadVars, exited>>

ClientSend(c) ==
  /\ peer[c] = "open"
  /\ sent[c] < MaxChunks
  /\ sent' = [sent EXCEPT ![c] = @ + 1]
  /\ rx' = [rx EXCEPT ![c] = Append(@, sent[c] + 1)]
  /\ Wake(c, {"in", "inET"})
  /\ UNCHANGED <<peer, out, interest, nextFd, connVars, channelVars,
                 threadVars, exited>>

\* The client shuts down its writing side, or closes with nothing unread.
ClientFin(c) ==
  /\ peer[c] = "open"
  /\ peer' = [peer EXCEPT ![c] = "fin"]
  /\ Wake(c, {"in", "inET"})
  /\ UNCHANGED <<sent, rx, out, interest, nextFd, connVars, channelVars,
                 threadVars, exited>>

\* A reset arrives.  After a FIN the kernel records EPIPE for it, and a write
\* then raises SIGPIPE; before, it records ECONNRESET.
ClientReset(c) ==
  /\ peer[c] \in {"open", "fin"}
  /\ peer' = [peer EXCEPT ![c] = IF @ = "open" THEN "rst" ELSE "broken"]
  /\ Wake(c, {"zero", "in", "inET"})
  /\ UNCHANGED <<sent, rx, out, interest, nextFd, connVars, channelVars,
                 threadVars, exited>>

----------------------------------------------------------------------------
(* Epoll::UpdateChannel and Epoll::DeleteChannel, called by any thread t on *)
(* the connection cur[t].  epoll_ctl and the in_epoll_ flag that mirrors it *)
(* are separate steps.                                                      *)

\* Channel's EnableRead, UseET and disableAll: set listen_events_, then
\* UpdateChannel chooses between ADD and MOD from in_epoll_.
UpdateChannel(t, c, events, k) ==
  /\ listen' = [listen EXCEPT ![c] = events]
  /\ Goto(t, IF inEpoll[c] THEN "mod" ELSE "add")
  /\ ret' = [ret EXCEPT ![t] = k]

\* epoll_ctl ADD or MOD: a registration that is already ready is reported.
Register(c) ==
  /\ interest' = [interest EXCEPT ![c] = listen[c]]
  /\ ready' = [ready EXCEPT ![c] = @ \/ Revents(c, listen[c]) # "none"]

\* Fault: UpdateChannel does not call SetInEpoll.
AfterAddUnmarked(t) == ret[t]

\* After a successful ADD: ch->SetInEpoll().
AfterAdd(t) == "mark_in"

EpollAdd(t) ==
  /\ pc[t] = "add"
  /\ IF interest[cur[t]] # "none"
       THEN Exit("epoll") /\ UNCHANGED <<interest, ready>>      \* EEXIST
       ELSE Register(cur[t]) /\ Goto(t, AfterAdd(t)) /\ UNCHANGED exited
  /\ UNCHANGED <<peer, sent, rx, out, nextFd, connVars, channelVars, cur, ret,
                 active>>

MarkIn(t) ==
  /\ pc[t] = "mark_in"
  /\ inEpoll' = [inEpoll EXCEPT ![cur[t]] = TRUE]
  /\ Goto(t, ret[t])
  /\ UNCHANGED <<kernelVars, connVars, hasRead, listen, revent, cur, ret,
                 active, exited>>

EpollMod(t) ==
  /\ pc[t] = "mod"
  /\ IF interest[cur[t]] = "none"
       THEN Exit("epoll") /\ UNCHANGED <<interest, ready>>      \* ENOENT
       ELSE Register(cur[t]) /\ Goto(t, ret[t]) /\ UNCHANGED exited
  /\ UNCHANGED <<peer, sent, rx, out, nextFd, connVars, channelVars, cur, ret,
                 active>>

EpollDel(t) ==
  /\ pc[t] = "del"
  /\ IF interest[cur[t]] = "none"
       THEN Exit("epoll") /\ UNCHANGED <<interest, ready>>      \* ENOENT
       ELSE /\ interest' = [interest EXCEPT ![cur[t]] = "none"]
            /\ ready' = [ready EXCEPT ![cur[t]] = FALSE]
            /\ Goto(t, "mark_out")
            /\ UNCHANGED exited
  /\ UNCHANGED <<peer, sent, rx, out, nextFd, connVars, channelVars, cur, ret,
                 active>>

\* Fault: SetInEpoll with its default argument, true.
FlagAfterDeleteDefault == TRUE

\* The flag after DeleteChannel's SetInEpoll(false).
FlagAfterDelete == FALSE

MarkOut(t, k) ==
  /\ pc[t] = "mark_out"
  /\ inEpoll' = [inEpoll EXCEPT ![cur[t]] = FlagAfterDelete]
  /\ Goto(t, k)
  /\ UNCHANGED <<kernelVars, connVars, hasRead, listen, revent, cur, ret,
                 active, exited>>

\* Connection::deleteConnection up to its first epoll_ctl.
DeleteConnection(t) ==
  /\ pc[t] = "delete"
  /\ state' = [state EXCEPT ![cur[t]] = "Closed"]
  /\ UpdateChannel(t, cur[t], "zero", "del")
  /\ UNCHANGED <<kernelVars, fd, readBuf, sendBuf, hasDelete, connections,
                 hasRead, inEpoll, revent, cur, active, exited>>

----------------------------------------------------------------------------
(* Main: Acceptor::AcceptConnection and Server::NewConnection *)

\* Fault: the constructor's socket is not opened, or is closed again.
FdsWithoutLeak == 1

\* accept() and the constructor's make_unique<Socket>() each open one.
FdsPerConnection == 2

\* accept() or the constructor's socket() fails with EMFILE.
NoFdLeft == nextFd + FdsPerConnection > MaxFd

\* accept() takes the lowest free descriptor and the Connection constructor's
\* make_unique<Socket>() a second one, which set_fd then forgets; either call
\* fails with EMFILE at the limit and ErrorIf exits.  Otherwise the new channel
\* calls EnableRead.
Accept(c) ==
  /\ pc[Main] = "poll"
  /\ peer[c] # "none" /\ ~Accepted(c)
  /\ IF NoFdLeft
       THEN Exit("fd") /\ UNCHANGED <<fd, nextFd, listen, cur, ret>>
       ELSE /\ fd' = [fd EXCEPT ![c] = nextFd]
            /\ nextFd' = nextFd + FdsPerConnection
            /\ cur' = [cur EXCEPT ![Main] = c]
            /\ UpdateChannel(Main, c, "in", "use_et")
            /\ UNCHANGED exited
  /\ UNCHANGED <<peer, sent, rx, out, interest, ready, state, readBuf, sendBuf,
                 hasDelete, connections, hasRead, inEpoll, revent, active>>

UseET ==
  /\ pc[Main] = "use_et"
  /\ UpdateChannel(Main, cur[Main], "inET", "connected")
  /\ UNCHANGED <<kernelVars, connVars, hasRead, inEpoll, revent, cur, active,
                 exited>>

\* The last statement of the Connection constructor.
Construct ==
  /\ pc[Main] = "connected"
  /\ state' = [state EXCEPT ![cur[Main]] = "Connected"]
  /\ Goto(Main, "set_delete")
  /\ UNCHANGED <<kernelVars, fd, readBuf, sendBuf, hasDelete, connections,
                 channelVars, cur, ret, active, exited>>

SetDeleteConnectionCallback ==
  /\ pc[Main] = "set_delete"
  /\ hasDelete' = [hasDelete EXCEPT ![cur[Main]] = TRUE]
  /\ Goto(Main, "set_message")
  /\ UNCHANGED <<kernelVars, fd, state, readBuf, sendBuf, connections,
                 channelVars, cur, ret, active, exited>>

\* Fault: the message callback is kept but the channel's is not set.
SetOnMessageCallbackOnly ==
  /\ pc[Main] = "set_message"
  /\ Goto(Main, "insert")
  /\ UNCHANGED <<kernelVars, connVars, channelVars, cur, ret, active, exited>>

SetOnMessageCallback ==
  /\ pc[Main] = "set_message"
  /\ hasRead' = [hasRead EXCEPT ![cur[Main]] = TRUE]
  /\ Goto(Main, "insert")
  /\ UNCHANGED <<kernelVars, connVars, listen, inEpoll, revent, cur, ret,
                 active, exited>>

\* connections_[fd] = std::move(conn), an unsynchronised map insertion, then
\* new_connect_callback_, which in the echo server only prints.
BeginInsert ==
  /\ pc[Main] = "insert"
  /\ Goto(Main, "inserting")
  /\ UNCHANGED <<kernelVars, connVars, channelVars, cur, ret, active, exited>>

EndInsert ==
  /\ pc[Main] = "inserting"
  /\ connections' = connections \cup {cur[Main]}
  /\ Goto(Main, "poll")
  /\ UNCHANGED <<kernelVars, fd, state, readBuf, sendBuf, hasDelete,
                 channelVars, cur, ret, active, exited>>

----------------------------------------------------------------------------
(* A sub reactor: EventLoop::Loop, Channel::HandleEvent and the callbacks *)

\* Fault: one epoll instance shared by every loop.
ReportedToAll(l) ==
  {c \in Clients : Accepted(c) /\ ready[c] /\ Revents(c, interest[c]) # "none"}

\* The channels of l's own epoll instance that have something to report.
Reported(l) ==
  {c \in Clients : /\ Accepted(c) /\ LoopOf(c) = l
                   /\ ready[c] /\ Revents(c, interest[c]) # "none"}

\* epoll_wait reports every ready channel and rearms the level-triggered ones.
Poll(l) ==
  /\ pc[l] = "poll"
  /\ Reported(l) # {}
  /\ active' = [active EXCEPT ![l] = Reported(l)]
  /\ revent' = [c \in Clients |-> IF c \in Reported(l)
                                    THEN Revents(c, interest[c])
                                    ELSE revent[c]]
  /\ ready' = [c \in Clients |-> ready[c] /\ (c \in Reported(l) =>
                                                interest[c] # "inET")]
  /\ Goto(l, "dispatch")
  /\ UNCHANGED <<peer, sent, rx, out, interest, nextFd, connVars, hasRead,
                 listen, inEpoll, cur, ret, exited>>

\* Fault: Loop returns to Poll before it has handled all that Poll returned.
PollAgainEarly(l) ==
  /\ pc[l] = "dispatch"
  /\ Goto(l, "poll")
  /\ UNCHANGED <<kernelVars, connVars, channelVars, cur, ret, active, exited>>

PollAgain(l) ==
  /\ pc[l] = "dispatch"
  /\ active[l] = {}
  /\ Goto(l, "poll")
  /\ UNCHANGED <<kernelVars, connVars, channelVars, cur, ret, active, exited>>

\* Fault: Read does not clear the read buffer.
KeptReadBuf(c) == readBuf[c]

\* Connection::Read: read_buffer_->Clear().
ClearedReadBuf(c) == <<>>

\* HandleEvent of the next active channel.  On EPOLLIN it calls read_callback_:
\* Business, which starts with Connection::Read.  An empty std::function throws
\* bad_function_call out of Loop; the packaged_task the loop runs in keeps the
\* exception, so only this thread ends ("dead").
Dispatch(l) ==
  /\ pc[l] = "dispatch"
  /\ \E c \in active[l] :
       LET reads == revent[c] = "IN" /\ hasRead[c] /\ state[c] = "Connected"
       IN /\ active' = [active EXCEPT ![l] = @ \ {c}]
          /\ cur' = [cur EXCEPT ![l] = c]
          /\ readBuf' = [readBuf EXCEPT ![c] = IF reads THEN ClearedReadBuf(c)
                                                       ELSE @]
          /\ Goto(l, CASE revent[c] = "HUP" -> "close"
                       [] revent[c] = "IN" /\ ~hasRead[c] -> "dead"
                       [] reads -> "read"
                       [] revent[c] = "IN" /\ hasRead[c] /\ ~reads -> "message"
                       [] OTHER -> "dispatch")
  /\ UNCHANGED <<kernelVars, fd, state, sendBuf, hasDelete, connections,
                 channelVars, ret, exited>>

\* Fault: one read() per event.
AfterChunkReturn == "message"

\* Where ReadNonBlocking continues after bytes_read > 0: round its loop again.
AfterChunk == "read"

\* ReadNonBlocking: bytes_read > 0.
ReadChunk(l) ==
  LET c == cur[l] IN
  /\ pc[l] = "read"
  /\ rx[c] # <<>>
  /\ readBuf' = [readBuf EXCEPT ![c] = Append(@, Head(rx[c]))]
  /\ rx' = [rx EXCEPT ![c] = Tail(@)]
  /\ Goto(l, AfterChunk)
  /\ UNCHANGED <<peer, sent, out, interest, ready, nextFd, fd, state, sendBuf,
                 hasDelete, connections, channelVars, cur, ret, active, exited>>

\* EAGAIN: everything has been read.
ReadAgain(l) ==
  /\ pc[l] = "read"
  /\ ~Readable(cur[l])
  /\ Goto(l, "message")
  /\ UNCHANGED <<kernelVars, connVars, channelVars, cur, ret, active, exited>>

\* Fault: an error leaves the connection in the state Failed.
ReadEndFailed(l) ==
  LET c == cur[l] IN
  /\ pc[l] = "read"
  /\ rx[c] = <<>> /\ Readable(c)
  /\ state' = [state EXCEPT ![c] = IF peer[c] = "fin" THEN "Closed" ELSE "Failed"]
  /\ Goto(l, "close")
  /\ UNCHANGED <<kernelVars, fd, readBuf, sendBuf, hasDelete, connections,
                 channelVars, cur, ret, active, exited>>

\* EOF or an error: state_ = Closed, then Close().
ReadEnd(l) ==
  LET c == cur[l] IN
  /\ pc[l] = "read"
  /\ rx[c] = <<>> /\ Readable(c)
  /\ state' = [state EXCEPT ![c] = "Closed"]
  /\ Goto(l, "close")
  /\ UNCHANGED <<kernelVars, fd, readBuf, sendBuf, hasDelete, connections,
                 channelVars, cur, ret, active, exited>>

\* Connection::Close; an empty delete_connection_callback_ throws.
Close(l) ==
  LET c == cur[l] IN
  /\ pc[l] = "close"
  /\ state' = [state EXCEPT ![c] = "Closed"]
  /\ Goto(l, IF hasDelete[c] THEN "find" ELSE "dead")
  /\ UNCHANGED <<kernelVars, fd, readBuf, sendBuf, hasDelete, connections,
                 channelVars, cur, ret, active, exited>>

\* Where Close returns to: ReadNonBlocking and then Business, or HandleEvent.
AfterClose(l) == IF revent[cur[l]] = "IN" THEN "message" ELSE "dispatch"

\* Server::DeleteConnection looks the descriptor up in connections_, which Main
\* may be changing: the lookup may then also miss an entry, or crash.
FindConnection(l) ==
  /\ pc[l] = "find"
  /\ \/ /\ cur[l] \in connections
        /\ Goto(l, "delete") /\ UNCHANGED exited
     \/ /\ cur[l] \notin connections \/ pc[Main] = "inserting"
        /\ Goto(l, AfterClose(l)) /\ UNCHANGED exited
     \/ /\ pc[Main] = "inserting"
        /\ Exit("race")
  /\ UNCHANGED <<kernelVars, connVars, channelVars, cur, ret, active>>

\* on_message_callback_: the application echoes the read buffer if the
\* connection is still Connected.
OnMessage(l) ==
  LET c == cur[l]
      sends == state[c] = "Connected" /\ readBuf[c] # <<>>
  IN /\ pc[l] = "message"
     /\ sendBuf' = [sendBuf EXCEPT ![c] = IF sends THEN readBuf[c] ELSE @]
     /\ Goto(l, IF sends THEN "write" ELSE "dispatch")
     /\ UNCHANGED <<kernelVars, fd, state, readBuf, hasDelete, connections,
                    channelVars, cur, ret, active, exited>>

\* WriteNonBlocking: the kernel takes some or all of what is left.
WriteSome(l) ==
  LET c == cur[l] IN
  /\ pc[l] = "write"
  /\ peer[c] \in {"open", "fin"}
  /\ \E n \in 1 .. Len(sendBuf[c]) :
       /\ out' = [out EXCEPT ![c] = @ \o SubSeq(sendBuf[c], 1, n)]
       /\ sendBuf' = [sendBuf EXCEPT ![c] = SubSeq(@, n + 1, Len(@))]
       /\ Goto(l, IF n = Len(sendBuf[c]) THEN "dispatch" ELSE "write")
  /\ UNCHANGED <<peer, sent, rx, interest, ready, nextFd, fd, state, readBuf,
                 hasDelete, connections, channelVars, cur, ret, active, exited>>

\* EAGAIN: the socket's send buffer is full; Write clears what is left.
WriteAgain(l) ==
  LET c == cur[l] IN
  /\ pc[l] = "write"
  /\ peer[c] \in {"open", "fin"}
  /\ sendBuf' = [sendBuf EXCEPT ![c] = <<>>]
  /\ Goto(l, "dispatch")
  /\ UNCHANGED <<kernelVars, fd, state, readBuf, hasDelete, connections,
                 channelVars, cur, ret, active, exited>>

\* Any other error marks the connection Closed, without calling Close().
WriteError(l) ==
  LET c == cur[l] IN
  /\ pc[l] = "write"
  /\ peer[c] = "rst"
  /\ state' = [state EXCEPT ![c] = "Closed"]
  /\ sendBuf' = [sendBuf EXCEPT ![c] = <<>>]
  /\ Goto(l, "dispatch")
  /\ UNCHANGED <<kernelVars, fd, readBuf, hasDelete, connections, channelVars,
                 cur, ret, active, exited>>

\* EPIPE comes with SIGPIPE, which nothing in src/ blocks or handles.
WriteBrokenPipe(l) ==
  /\ pc[l] = "write"
  /\ peer[cur[l]] = "broken"
  /\ Exit("sigpipe")
  /\ UNCHANGED <<kernelVars, connVars, channelVars, cur, ret, active>>

----------------------------------------------------------------------------
Init ==
  /\ peer = [c \in Clients |-> "none"]
  /\ sent = [c \in Clients |-> 0]
  /\ rx = [c \in Clients |-> <<>>]
  /\ out = [c \in Clients |-> <<>>]
  /\ interest = [c \in Clients |-> "none"]
  /\ ready = [c \in Clients |-> FALSE]
  /\ nextFd = FirstFd
  /\ fd = [c \in Clients |-> NoFd]
  /\ state = [c \in Clients |-> "Invalid"]
  /\ readBuf = [c \in Clients |-> <<>>]
  /\ sendBuf = [c \in Clients |-> <<>>]
  /\ hasDelete = [c \in Clients |-> FALSE]
  /\ hasRead = [c \in Clients |-> FALSE]
  /\ listen = [c \in Clients |-> "zero"]
  /\ inEpoll = [c \in Clients |-> FALSE]
  /\ revent = [c \in Clients |-> "none"]
  /\ connections = {}
  /\ pc = [t \in Threads |-> "poll"]
  /\ cur = [t \in Threads |-> NoClient]
  /\ ret = [t \in Threads |-> "poll"]
  /\ active = [l \in Loops |-> {}]
  /\ exited = "no"

ClientStep ==
  \E c \in Clients :
    ClientConnect(c) \/ ClientSend(c) \/ ClientFin(c) \/ ClientReset(c)

EpollCtl(t) == EpollAdd(t) \/ MarkIn(t) \/ EpollMod(t) \/ EpollDel(t)

AcceptorStep ==
  \/ \E c \in Clients : Accept(c)
  \/ UseET \/ Construct \/ SetDeleteConnectionCallback
  \/ SetOnMessageCallback \/ BeginInsert \/ EndInsert

HandlerStep(l) ==
  \/ Poll(l) \/ PollAgain(l) \/ Dispatch(l)
  \/ ReadChunk(l) \/ ReadAgain(l) \/ ReadEnd(l)
  \/ Close(l) \/ FindConnection(l) \/ DeleteConnection(l)
  \/ MarkOut(l, AfterClose(l))
  \/ OnMessage(l) \/ WriteSome(l) \/ WriteAgain(l) \/ WriteError(l)
  \/ WriteBrokenPipe(l)

MainStep == exited = "no" /\ (AcceptorStep \/ EpollCtl(Main))

LoopStep(l) == exited = "no" /\ (HandlerStep(l) \/ EpollCtl(l))

Next ==
  \/ exited = "no" /\ ClientStep
  \/ MainStep
  \/ \E l \in Loops : LoopStep(l)

Spec == Init /\ [][Next]_vars

\* Every thread that is not blocked in epoll_wait gets to run.
Fairness == WF_vars(MainStep) /\ \A l \in Loops : WF_vars(LoopStep(l))

FairSpec == Spec /\ Fairness

----------------------------------------------------------------------------
(* Properties *)

Labels == {"poll", "dispatch", "read", "close", "find", "delete", "message",
           "write", "dead", "add", "mark_in", "mod", "del", "mark_out",
           "use_et", "connected", "set_delete", "set_message", "insert",
           "inserting"}

KernelTypeOK ==
  /\ peer \in [Clients -> {"none", "open", "fin", "rst", "broken"}]
  /\ sent \in [Clients -> Nat]
  /\ rx \in [Clients -> Seq(Nat)]
  /\ out \in [Clients -> Seq(Nat)]
  /\ interest \in [Clients -> {"none", "zero", "in", "inET"}]
  /\ ready \in [Clients -> BOOLEAN]
  /\ nextFd \in FirstFd .. MaxFd

ConnectionTypeOK ==
  /\ fd \in [Clients -> {NoFd} \cup FirstFd .. (MaxFd - 1)]
  /\ state \in [Clients -> {"Invalid", "Connected", "Closed"}]
  /\ readBuf \in [Clients -> Seq(Nat)]
  /\ sendBuf \in [Clients -> Seq(Nat)]
  /\ hasDelete \in [Clients -> BOOLEAN]
  /\ connections \in SUBSET Clients

ChannelTypeOK ==
  /\ hasRead \in [Clients -> BOOLEAN]
  /\ listen \in [Clients -> {"zero", "in", "inET"}]
  /\ inEpoll \in [Clients -> BOOLEAN]
  /\ revent \in [Clients -> {"none", "IN", "HUP"}]

ThreadTypeOK ==
  /\ pc \in [Threads -> Labels]
  /\ cur \in [Threads -> Clients \cup {NoClient}]
  /\ \A t \in Threads : pc[t] \notin {"poll", "dispatch"} => cur[t] \in Clients
  /\ ret \in [Threads -> {"poll", "use_et", "connected", "del"}]
  /\ active \in [Loops -> SUBSET Clients]
  /\ exited \in {"no", "epoll", "fd", "race", "sigpipe"}

\* Every variable keeps its type, descriptors stay below the limit, and a thread
\* that is in the middle of something has a connection in hand.
TypeOK ==
  KernelTypeOK /\ ConnectionTypeOK /\ ChannelTypeOK /\ ThreadTypeOK

\* No epoll_ctl call ever fails: although Main registers a channel and its loop
\* deletes it with no lock between them, no ADD finds a registration and no MOD
\* or DEL misses one, so Epoll's ErrorIf never ends the server.  (That the map
\* insertion comes last in NewConnection is what makes it so.)
NoEpollError == exited # "epoll"

\* in_epoll_ mirrors the kernel's registration whenever no thread stands
\* between an epoll_ctl and the SetInEpoll that follows it.
FlagAgrees ==
  \A c \in Clients :
    (\A t \in Threads : cur[t] = c => pc[t] \notin {"mark_in", "mark_out"})
      => (inEpoll[c] <=> interest[c] # "none")

\* A channel that Loop has still to handle is still registered: no callback
\* runs for a connection that was deleted after epoll_wait returned it.
NoStaleEvent ==
  \A l \in Loops : \A c \in active[l] : interest[c] # "none"

\* Edge triggering loses no input: whenever an open connection has something to
\* read, its event is pending in the kernel or in Poll's result, or its loop is
\* reading it, or that loop has ended.
NoLostWakeup ==
  \A c \in Clients :
    interest[c] = "inET" /\ state[c] = "Connected" /\ Readable(c) =>
      LET l == LoopOf(c) IN
        \/ ready[c]
        \/ c \in active[l]
        \/ cur[l] = c /\ pc[l] = "read"
        \/ pc[l] = "dead"

\* The echo never duplicates, reorders or invents a chunk, stale read buffers,
\* partial writes and dropped output notwithstanding.
EchoInOrder ==
  \A c \in Clients :
    /\ \A i \in 1 .. Len(out[c]) : out[c][i] \in 1 .. sent[c]
    /\ \A i, j \in 1 .. Len(out[c]) : i < j => out[c][i] < out[c][j]

\* The descriptor the constructor leaks makes every connection's descriptor
\* differ from the first by an even number, so that with an even number of sub
\* reactors fd % size never selects half of them.
HalfTheLoopsIdle ==
  NumLoops % 2 = 0 =>
    \A l \in Loops : l % 2 # FirstFd % 2 => pc[l] = "poll"

\* A sub reactor's thread can only be lost to a connection that Main is still
\* constructing: once NewConnection has set the callbacks, no event of that
\* connection ends a loop.
LoopDiesOnlyInConstruction ==
  [][\A l \in Loops :
       pc[l] # "dead" /\ pc'[l] = "dead" =>
         /\ cur'[l] = cur[Main]
         /\ pc[Main] \in {"mark_in", "use_et", "mod", "connected",
                          "set_delete", "set_message"}]_vars

\* Input of an accepted connection is eventually read, unless the connection
\* was closed or its loop or the process has ended.
InputEventuallyRead ==
  \A c \in Clients :
    Accepted(c) /\ rx[c] # <<>> ~>
      \/ rx[c] = <<>>
      \/ state[c] = "Closed"
      \/ pc[LoopOf(c)] = "dead"
      \/ exited # "no"

(* Statements of the repository that the code does not keep *)

\* README.md:57, the echo server: a client that ends its side in good order has
\* had everything it sent echoed by the time the server drops the connection.
EchoComplete ==
  \A c \in Clients :
    peer[c] = "fin" /\ state[c] = "Closed" /\ interest[c] = "none" =>
      Len(out[c]) = sent[c]
=============================================================================
