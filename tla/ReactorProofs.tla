--------------------------- MODULE ReactorProofs ---------------------------
(* Theorems about Reactor, for every value of its constants. *)
EXTENDS Reactor, SequenceTheorems, TLAPS

Registered(c) == interest[c] # "none"

\* Main is inside Connection's constructor or the rest of NewConnection.
Constructing(c) == pc[Main] # "poll" /\ cur[Main] = c

MainLabels == {"poll", "add", "mark_in", "use_et", "mod", "connected",
               "set_delete", "set_message", "insert", "inserting"}

LoopLabels == {"poll", "dispatch", "read", "close", "find", "delete",
               "message", "write", "dead", "mod", "del", "mark_out"}

\* A descriptor that accept() has not returned yet is known to nobody.
UnacceptedInv ==
  \A c \in Clients :
    ~Accepted(c) => ~Registered(c) /\ ~inEpoll[c] /\ c \notin connections

\* NewConnection registers the channel step by step, and connections_ gets the
\* connection last.
MainInv ==
  /\ pc[Main] \in MainLabels
  /\ pc[Main] # "poll" =>
       /\ cur[Main] \in Clients
       /\ Accepted(cur[Main])
       /\ cur[Main] \notin connections
  /\ pc[Main] = "add" => /\ ~Registered(cur[Main]) /\ ~inEpoll[cur[Main]]
                         /\ ret[Main] = "use_et"
  /\ pc[Main] = "mark_in" => /\ Registered(cur[Main]) /\ ~inEpoll[cur[Main]]
                             /\ ret[Main] = "use_et"
  /\ pc[Main] \in {"use_et", "mod"} => Registered(cur[Main])
                                         /\ inEpoll[cur[Main]]
  /\ pc[Main] = "mod" => ret[Main] = "connected"

\* A loop handles, and finally deletes, only channels of its own that are
\* registered, and it deletes only what is in connections_.
LoopInv ==
  \A l \in Loops :
    /\ pc[l] \in LoopLabels
    /\ pc[l] = "poll" => active[l] = {}
    /\ pc[l] \notin {"poll", "dispatch", "dead"} =>
         /\ cur[l] \in Clients
         /\ Accepted(cur[l]) /\ LoopOf(cur[l]) = l
         /\ cur[l] \notin active[l]
    /\ pc[l] \in {"read", "close", "find", "delete", "mod", "del"} =>
         Registered(cur[l])
    /\ pc[l] = "mark_out" => ~Registered(cur[l])
    /\ pc[l] \in {"delete", "mod", "del", "mark_out"} =>
         cur[l] \in connections
    /\ pc[l] = "mod" => ret[l] = "del"

\* Poll's results that are still to be handled belong to the loop and are
\* registered.
ActiveInv ==
  \A l \in Loops : \A c \in active[l] :
    Accepted(c) /\ LoopOf(c) = l /\ Registered(c)

\* in_epoll_ lags behind the registration at two places only.
FlagInv ==
  \A c \in Clients :
    /\ Registered(c) => \/ inEpoll[c]
                        \/ pc[Main] = "mark_in" /\ cur[Main] = c
    /\ inEpoll[c] => \/ Registered(c)
                     \/ \E l \in Loops : pc[l] = "mark_out" /\ cur[l] = c

NoExitInv == exited # "epoll"

RegInv == /\ UnacceptedInv /\ MainInv /\ LoopInv /\ ActiveInv /\ FlagInv
          /\ NoExitInv

\* Callbacks are missing only while NewConnection has not set them yet.
CallbackInv ==
  \A c \in Clients :
    Accepted(c) =>
      /\ hasRead[c] \/ /\ cur[Main] = c
                       /\ pc[Main] \in {"add", "mark_in", "use_et", "mod",
                                   "connected", "set_delete", "set_message"}
      /\ hasDelete[c] \/ /\ cur[Main] = c
                         /\ pc[Main] \in {"add", "mark_in", "use_et", "mod",
                                     "connected", "set_delete"}

\* state_ is Invalid until the constructor ends, and until then no loop gets
\* past the missing read callback.
BuildInv ==
  /\ \A c \in Clients : hasRead[c] => state[c] # "Invalid"
  /\ \A c \in Clients : ~Accepted(c) => state[c] = "Invalid"
  /\ pc[Main] \in {"add", "mark_in", "use_et", "mod", "connected"} =>
       state[cur[Main]] = "Invalid"
  /\ pc[Main] \in {"set_delete", "set_message", "insert", "inserting"} =>
       state[cur[Main]] # "Invalid"
  /\ pc[Main] = "add" => listen[cur[Main]] = "in"
  /\ pc[Main] = "mod" => listen[cur[Main]] = "inET"
  /\ \A l \in Loops : pc[l] \notin {"poll", "dispatch", "dead"} => hasRead[cur[l]]
  /\ \A l \in Loops : pc[l] = "mod" => state[cur[l]] = "Closed"

\* A channel listens for input until its loop is about to delete it, so Poll
\* reports nothing else.
EventInv ==
  /\ \A c \in Clients :
       interest[c] = "zero" => \E l \in Loops : pc[l] = "del" /\ cur[l] = c
  /\ \A l \in Loops : \A c \in active[l] : revent[c] = "IN"

WakeInv ==
  \A c \in Clients :
    interest[c] = "inET" /\ state[c] # "Closed" /\ Readable(c) =>
      LET l == LoopOf(c) IN
        \/ ready[c]
        \/ c \in active[l]
        \/ cur[l] = c /\ pc[l] = "read"
        \/ pc[l] = "dead"

IInv == TypeOK /\ RegInv /\ CallbackInv /\ BuildInv /\ EventInv /\ WakeInv

----------------------------------------------------------------------------
(* Type correctness *)

LEMMA ThreadsFact == Main \in Threads /\ Loops \subseteq Threads
                       /\ Main \notin Loops
BY ReactorAssumption, SMT DEF Main, Threads, Loops

LEMMA InitType == Init => TypeOK
<1> SUFFICES ASSUME Init PROVE TypeOK
  OBVIOUS
<1>1. <<>> \in Seq(Nat) /\ 0 \in Nat /\ FirstFd \in FirstFd .. MaxFd
  BY ReactorAssumption, SMT
<1> QED
  BY <1>1, Zenon DEF Init, Labels, TypeOK, KernelTypeOK, ConnectionTypeOK,
                     ChannelTypeOK, ThreadTypeOK

LEMMA ClientType ==
  ASSUME TypeOK, ClientStep
  PROVE  TypeOK'
<1> PICK c \in Clients : ClientConnect(c) \/ ClientSend(c) \/ ClientFin(c)
                           \/ ClientReset(c)
  BY DEF ClientStep
<1> USE DEF TypeOK
<1>1. /\ ConnectionTypeOK' /\ ChannelTypeOK' /\ ThreadTypeOK'
  BY Zenon DEF ClientConnect, ClientSend, ClientFin, ClientReset, connVars,
     channelVars, threadVars, ConnectionTypeOK, ChannelTypeOK, ThreadTypeOK
<1>2. CASE ClientSend(c)
  <2>1. sent[c] + 1 \in Nat /\ rx[c] \in Seq(Nat)
    BY SMT DEF KernelTypeOK
  <2>2. Append(rx[c], sent[c] + 1) \in Seq(Nat)
    BY <2>1, AppendProperties
  <2> QED
    BY <1>1, <1>2, <2>1, <2>2, Zenon DEF ClientSend, Wake, KernelTypeOK
<1>3. CASE ClientConnect(c) \/ ClientFin(c) \/ ClientReset(c)
  BY <1>1, <1>3, Zenon DEF ClientConnect, ClientFin, ClientReset, Wake, KernelTypeOK
<1> QED
  BY <1>2, <1>3

LEMMA EpollCtlType ==
  ASSUME TypeOK, NEW t \in Threads, EpollCtl(t)
  PROVE  TypeOK'
<1> USE DEF TypeOK
<1>1. cur[t] \in Clients
  BY Zenon DEF EpollCtl, EpollAdd, MarkIn, EpollMod, EpollDel, ThreadTypeOK
<1>2. listen[cur[t]] \in {"none", "zero", "in", "inET"}
  BY <1>1, Zenon DEF ChannelTypeOK
<1>3. KernelTypeOK'
  <2>1. CASE EpollAdd(t)
    BY <1>1, <1>2, <2>1, Zenon DEF EpollAdd, Register, KernelTypeOK
  <2>2. CASE MarkIn(t)
    BY <2>2, Zenon DEF MarkIn, KernelTypeOK, kernelVars
  <2>3. CASE EpollMod(t)
    BY <1>1, <1>2, <2>3, Zenon DEF EpollMod, Register, KernelTypeOK
  <2>4. CASE EpollDel(t)
    BY <1>1, <2>4, Zenon DEF EpollDel, KernelTypeOK
  <2> QED
    BY <2>1, <2>2, <2>3, <2>4 DEF EpollCtl
<1>4. ConnectionTypeOK' /\ ChannelTypeOK'
  BY Zenon DEF EpollCtl, EpollAdd, MarkIn, EpollMod, EpollDel, connVars,
     channelVars, ConnectionTypeOK, ChannelTypeOK
<1>5. ThreadTypeOK'
  <2>1. PICK k \in Labels : pc' = pc \/ Goto(t, k)
    BY Zenon DEF EpollCtl, EpollAdd, MarkIn, EpollMod, EpollDel, AfterAdd, Exit,
       ThreadTypeOK, Labels
  <2>2. /\ UNCHANGED <<cur, ret, active>>
        /\ exited' = exited \/ exited' = "epoll"
    BY Zenon DEF EpollCtl, EpollAdd, MarkIn, EpollMod, EpollDel, Exit
  <2> QED
    BY <1>1, <2>1, <2>2, Zenon DEF ThreadTypeOK, Goto
<1> QED
  BY <1>3, <1>4, <1>5

LEMMA AcceptType ==
  ASSUME TypeOK, NEW c \in Clients, Accept(c)
  PROVE  TypeOK'
<1> USE DEF TypeOK
<1>1. /\ nextFd \in FirstFd .. MaxFd
      /\ fd \in [Clients -> {NoFd} \cup FirstFd .. (MaxFd - 1)]
  BY DEF KernelTypeOK, ConnectionTypeOK
<1>2. nextFd' \in FirstFd .. MaxFd
  BY <1>1, ReactorAssumption, SMT DEF Accept, NoFdLeft, FdsPerConnection
<1>3. fd' \in [Clients -> {NoFd} \cup FirstFd .. (MaxFd - 1)]
  <2>1. fd' = fd \/ (~NoFdLeft /\ fd' = [fd EXCEPT ![c] = nextFd])
    BY Zenon DEF Accept
  <2>2. ~NoFdLeft => nextFd \in FirstFd .. (MaxFd - 1)
    BY <1>1, ReactorAssumption DEF NoFdLeft, FdsPerConnection
  <2> QED
    BY <1>1, <2>1, <2>2, Zenon
<1>4. KernelTypeOK'
  BY <1>2, Zenon DEF Accept, KernelTypeOK
<1>5. ConnectionTypeOK'
  BY <1>3, Zenon DEF Accept, ConnectionTypeOK
<1>6. ChannelTypeOK'
  BY Zenon DEF Accept, ChannelTypeOK, UpdateChannel
<1>7. ThreadTypeOK'
  <2>1. CASE NoFdLeft
    BY <2>1, Zenon DEF Accept, ThreadTypeOK, Exit
  <2>2. CASE ~NoFdLeft
    <3>1. pc' = [pc EXCEPT ![Main] = "mod"] \/ pc' = [pc EXCEPT ![Main] = "add"]
      BY <2>2, Zenon DEF Accept, UpdateChannel, Goto
    <3>2. /\ cur' = [cur EXCEPT ![Main] = c] /\ ret' = [ret EXCEPT ![Main] = "use_et"]
          /\ UNCHANGED <<active, exited>>
      BY <2>2, Zenon DEF Accept, UpdateChannel
    <3> QED
      BY <3>1, <3>2, ThreadsFact DEF ThreadTypeOK, Labels
  <2> QED
    BY <2>1, <2>2
<1> QED
  BY <1>4, <1>5, <1>6, <1>7

LEMMA ConstructionType ==
  ASSUME TypeOK,
         \/ UseET \/ Construct \/ SetDeleteConnectionCallback
         \/ SetOnMessageCallback \/ BeginInsert \/ EndInsert
  PROVE  TypeOK'
<1> USE ThreadsFact DEF TypeOK, KernelTypeOK, ConnectionTypeOK, ChannelTypeOK,
            ThreadTypeOK, kernelVars, connVars, channelVars, Goto, Labels
<1>1. CASE UseET
  <2>1. KernelTypeOK' /\ ConnectionTypeOK'
    BY <1>1, Zenon DEF UseET
  <2>2. ChannelTypeOK'
    BY <1>1, Zenon DEF UseET, UpdateChannel
  <2>3. ThreadTypeOK'
    BY <1>1, Zenon DEF UseET, UpdateChannel
  <2> QED
    BY <2>1, <2>2, <2>3
<1>2. CASE Construct
  BY <1>2, Zenon DEF Construct
<1>3. CASE SetDeleteConnectionCallback
  BY <1>3, Zenon DEF SetDeleteConnectionCallback
<1>4. CASE SetOnMessageCallback
  BY <1>4, Zenon DEF SetOnMessageCallback
<1>5. CASE BeginInsert
  BY <1>5, Zenon DEF BeginInsert
<1>6. CASE EndInsert
  BY <1>6, Zenon DEF EndInsert
<1> QED
  BY <1>1, <1>2, <1>3, <1>4, <1>5, <1>6, Zenon

LEMMA DispatchType ==
  ASSUME TypeOK, NEW l \in Loops, Dispatch(l)
  PROVE  TypeOK'
<1> USE DEF TypeOK
<1> DEFINE reads(c) == revent[c] = "IN" /\ hasRead[c] /\ state[c] = "Connected"
           next(c) == CASE revent[c] = "HUP" -> "close"
                        [] revent[c] = "IN" /\ ~hasRead[c] -> "dead"
                        [] reads(c) -> "read"
                        [] revent[c] = "IN" /\ hasRead[c] /\ ~reads(c) -> "message"
                        [] OTHER -> "dispatch"
<1>1. PICK c \in active[l] :
        /\ active' = [active EXCEPT ![l] = @ \ {c}]
        /\ cur' = [cur EXCEPT ![l] = c]
        /\ readBuf' = [readBuf EXCEPT ![c] = IF reads(c) THEN <<>> ELSE @]
        /\ Goto(l, next(c))
  BY Zenon DEF Dispatch, ClearedReadBuf
<1>2. c \in Clients /\ l \in Threads
  BY <1>1, ThreadsFact DEF ThreadTypeOK
<1>3. next(c) \in Labels
  BY DEF Labels
<1>4. /\ UNCHANGED kernelVars
      /\ UNCHANGED <<fd, state, sendBuf, hasDelete, connections, channelVars,
                     ret, exited>>
  BY DEF Dispatch
<1>5. KernelTypeOK'
  BY <1>4, Zenon DEF KernelTypeOK, kernelVars
<1>6. ConnectionTypeOK'
  <2>1. <<>> \in Seq(Nat)
    OBVIOUS
  <2>2. readBuf' \in [Clients -> Seq(Nat)]
    BY <1>1, <1>2, <2>1, Zenon DEF ConnectionTypeOK
  <2> QED
    BY <1>4, <2>2, Zenon DEF ConnectionTypeOK
<1>7. ChannelTypeOK'
  BY <1>4, Zenon DEF ChannelTypeOK, channelVars
<1>8. ThreadTypeOK'
  <2> HIDE DEF next
  <2> QED
    BY <1>1, <1>2, <1>3, <1>4, Zenon DEF ThreadTypeOK, Goto
<1> QED
  BY <1>5, <1>6, <1>7, <1>8

LEMMA ReadChunkType ==
  ASSUME TypeOK, NEW l \in Loops, ReadChunk(l)
  PROVE  TypeOK'
<1> USE DEF TypeOK
<1>1. cur[l] \in Clients /\ l \in Threads
  BY ThreadsFact, Zenon DEF ReadChunk, ThreadTypeOK
<1>2. Head(rx[cur[l]]) \in Nat /\ Tail(rx[cur[l]]) \in Seq(Nat)
  BY <1>1, HeadTailProperties DEF ReadChunk, KernelTypeOK
<1>3. Append(readBuf[cur[l]], Head(rx[cur[l]])) \in Seq(Nat)
  BY <1>1, <1>2, AppendProperties DEF ConnectionTypeOK
<1> QED
  BY <1>1, <1>2, <1>3, Zenon DEF ReadChunk, AfterChunk, Goto, Labels,
     KernelTypeOK, ConnectionTypeOK, ChannelTypeOK, ThreadTypeOK, channelVars

\* What is written and what is left of a text are texts.
LEMMA CutType ==
  ASSUME NEW s \in Seq(Nat), NEW n \in 1 .. Len(s)
  PROVE  SubSeq(s, 1, n) \in Seq(Nat) /\ SubSeq(s, n + 1, Len(s)) \in Seq(Nat)
OBVIOUS

LEMMA WriteSomeType ==
  ASSUME TypeOK, NEW l \in Loops, WriteSome(l)
  PROVE  TypeOK'
<1> USE DEF TypeOK
<1> DEFINE s == sendBuf[cur[l]]
<1>1. /\ cur[l] \in Clients /\ l \in Threads
      /\ s \in Seq(Nat) /\ out[cur[l]] \in Seq(Nat)
  BY ThreadsFact, Zenon DEF WriteSome, KernelTypeOK, ConnectionTypeOK, ThreadTypeOK
<1>2. PICK n \in 1 .. Len(s), k \in {"dispatch", "write"} :
        /\ out' = [out EXCEPT ![cur[l]] = @ \o SubSeq(s, 1, n)]
        /\ sendBuf' = [sendBuf EXCEPT ![cur[l]] = SubSeq(@, n + 1, Len(@))]
        /\ Goto(l, k)
  BY Zenon DEF WriteSome
<1>3. SubSeq(s, 1, n) \in Seq(Nat) /\ SubSeq(s, n + 1, Len(s)) \in Seq(Nat)
  BY <1>1, CutType
<1>4. out[cur[l]] \o SubSeq(s, 1, n) \in Seq(Nat)
  BY <1>1, <1>3, SMT
<1>5. KernelTypeOK'
  BY <1>1, <1>2, <1>4, Zenon DEF WriteSome, KernelTypeOK
<1>6. ConnectionTypeOK'
  BY <1>1, <1>2, <1>3, Zenon DEF WriteSome, ConnectionTypeOK
<1>7. ThreadTypeOK'
  BY <1>1, <1>2, Zenon DEF WriteSome, ThreadTypeOK, Goto, Labels
<1> QED
  BY <1>5, <1>6, <1>7, Zenon DEF WriteSome, ChannelTypeOK, channelVars

LEMMA ServeType ==
  ASSUME TypeOK, NEW l \in Loops,
         \/ Poll(l) \/ PollAgain(l) \/ ReadAgain(l) \/ ReadEnd(l)
         \/ Close(l) \/ FindConnection(l) \/ DeleteConnection(l)
         \/ MarkOut(l, AfterClose(l)) \/ OnMessage(l)
         \/ WriteAgain(l) \/ WriteError(l) \/ WriteBrokenPipe(l)
  PROVE  TypeOK'
<1>1. l \in Threads /\ <<>> \in Seq(Nat)
  BY ThreadsFact
<1> USE <1>1 DEF TypeOK, KernelTypeOK, ConnectionTypeOK, ChannelTypeOK,
            ThreadTypeOK, kernelVars, connVars, channelVars, Goto, Exit, Labels
<1>2. CASE Poll(l)
  <2>1. Reported(l) \subseteq Clients /\ \A c \in Clients, i \in {"none", "zero", "in", "inET"} :
          Revents(c, i) \in {"none", "IN", "HUP"}
    BY DEF Reported, Revents
  <2>2. ready' \in [Clients -> BOOLEAN]
    BY <1>2, Zenon DEF Poll
  <2>3. KernelTypeOK' /\ ConnectionTypeOK'
    BY <1>2, <2>2, Zenon DEF Poll
  <2>4. revent' \in [Clients -> {"none", "IN", "HUP"}]
    BY <1>2, <2>1, Zenon DEF Poll
  <2>5. ChannelTypeOK'
    BY <1>2, <2>4, Zenon DEF Poll
  <2>6. ThreadTypeOK'
    BY <1>2, <2>1, Zenon DEF Poll
  <2> QED
    BY <2>3, <2>5, <2>6
<1>3. CASE PollAgain(l)
  BY <1>3, Zenon DEF PollAgain
<1>4. CASE ReadAgain(l)
  BY <1>4, Zenon DEF ReadAgain
<1>5. CASE ReadEnd(l)
  BY <1>5, Zenon DEF ReadEnd
<1>6. CASE Close(l)
  BY <1>6, Zenon DEF Close
<1>7. CASE FindConnection(l)
  <2>1. CASE Goto(l, "delete") /\ UNCHANGED exited
    BY <1>7, <2>1, Zenon DEF FindConnection
  <2>2. CASE Goto(l, AfterClose(l)) /\ UNCHANGED exited
    BY <1>7, <2>2, Zenon DEF FindConnection, AfterClose
  <2>3. CASE Exit("race")
    BY <1>7, <2>3, Zenon DEF FindConnection
  <2> QED
    BY <1>7, <2>1, <2>2, <2>3 DEF FindConnection
<1>8. CASE DeleteConnection(l)
  BY <1>8, Zenon DEF DeleteConnection, UpdateChannel
<1>9. CASE MarkOut(l, AfterClose(l))
  BY <1>9, Zenon DEF MarkOut, AfterClose, FlagAfterDelete
<1>10. CASE OnMessage(l)
  BY <1>10, Zenon DEF OnMessage
<1>11. CASE WriteAgain(l)
  BY <1>11, Zenon DEF WriteAgain
<1>12. CASE WriteError(l)
  BY <1>12, Zenon DEF WriteError
<1>13. CASE WriteBrokenPipe(l)
  BY <1>13, Zenon DEF WriteBrokenPipe
<1> QED
  BY <1>2, <1>3, <1>4, <1>5, <1>6, <1>7, <1>8, <1>9, <1>10, <1>11, <1>12,
     <1>13, Zenon

LEMMA TypeStep ==
  ASSUME TypeOK, [Next]_vars
  PROVE  TypeOK'
<1>1. CASE MainStep
  BY <1>1, AcceptType, ConstructionType, EpollCtlType, ThreadsFact
     DEF MainStep, AcceptorStep
<1>2. CASE \E l \in Loops : LoopStep(l)
  BY <1>2, DispatchType, ReadChunkType, WriteSomeType, ServeType, EpollCtlType,
     ThreadsFact DEF LoopStep, HandlerStep
<1>3. CASE UNCHANGED vars
  BY <1>3, Zenon DEF vars, kernelVars, connVars, channelVars, threadVars, TypeOK,
     KernelTypeOK, ConnectionTypeOK, ChannelTypeOK, ThreadTypeOK
<1> QED
  BY <1>1, <1>2, <1>3, ClientType DEF Next

\* Every reachable state is well typed: descriptors stay below RLIMIT_NOFILE,
\* and a thread in the middle of something has a connection in hand.
THEOREM TypeCorrect == Spec => []TypeOK
<1> QED
  BY InitType, TypeStep, PTL DEF Spec

----------------------------------------------------------------------------
(* The registration of channels *)

\* A step that leaves the registration state alone preserves RegInv.
LEMMA RegSame ==
  ASSUME RegInv, exited' # "epoll",
         UNCHANGED <<fd, interest, inEpoll, connections, pc, cur, ret, active>>
  PROVE  RegInv'
BY DEF RegInv, UnacceptedInv, MainInv, LoopInv, ActiveInv, FlagInv, NoExitInv,
       Accepted, LoopOf, Registered

\* So does a loop that moves on without registering or deleting anything.
LEMMA RegWalk ==
  ASSUME TypeOK, RegInv, exited' # "epoll", NEW l \in Loops,
         NEW k \in LoopLabels \ {"mark_out"}, Goto(l, k), pc[l] # "mark_out",
         UNCHANGED <<fd, inEpoll, connections, cur, active>>,
         \A t \in Threads : t # l => ret'[t] = ret[t],
         \A c \in Clients : Registered(c)' <=> Registered(c),
         k = "poll" => active[l] = {},
         k \notin {"poll", "dispatch", "dead"} =>
           pc[l] \notin {"poll", "dispatch", "dead"},
         k \in {"read", "close", "find", "delete", "mod", "del"} =>
           pc[l] \in {"read", "close", "find", "delete", "mod", "del"},
         k \in {"delete", "mod", "del"} => cur[l] \in connections,
         k = "mod" => ret'[l] = "del"
  PROVE  RegInv'
<1>1. pc' = [pc EXCEPT ![l] = k] /\ pc \in [Threads -> Labels]
  BY DEF Goto, TypeOK, ThreadTypeOK
<1>2. /\ pc'[Main] = pc[Main] /\ ret'[Main] = ret[Main]
      /\ pc'[l] = k
      /\ \A m \in Loops : m # l => pc'[m] = pc[m] /\ ret'[m] = ret[m]
  BY <1>1, ThreadsFact
<1>3. UnacceptedInv'
  BY DEF RegInv, UnacceptedInv, Accepted
<1>4. MainInv'
  BY <1>2 DEF RegInv, MainInv, Accepted
<1>5. LoopInv'
  <2> SUFFICES ASSUME NEW m \in Loops
               PROVE  LoopInv!(m)'
    BY DEF LoopInv
  <2>1. CASE m = l
    BY <1>2, <2>1, Zenon DEF RegInv, LoopInv, Accepted, LoopOf
  <2>2. CASE m # l
    BY <1>2, <2>2, Zenon DEF RegInv, LoopInv, Accepted, LoopOf
  <2> QED
    BY <2>1, <2>2
<1>6. ActiveInv'
  BY DEF RegInv, ActiveInv, Accepted, LoopOf, TypeOK, ThreadTypeOK
<1>7. FlagInv'
  BY <1>2 DEF RegInv, FlagInv
<1> QED
  BY <1>3, <1>4, <1>5, <1>6, <1>7 DEF RegInv, NoExitInv

\* Serving a connection, up to the decision to delete it.
LEMMA RegServe ==
  ASSUME TypeOK, RegInv, NEW l \in Loops, exited = "no",
         \/ PollAgain(l) \/ ReadChunk(l) \/ ReadAgain(l) \/ ReadEnd(l)
         \/ Close(l) \/ FindConnection(l) \/ OnMessage(l)
         \/ WriteSome(l) \/ WriteAgain(l) \/ WriteError(l)
         \/ WriteBrokenPipe(l)
  PROVE  RegInv'
<1> DEFINE moves(k) ==
      /\ Goto(l, k)
      /\ UNCHANGED <<fd, interest, inEpoll, connections, cur, ret, active,
                     exited>>
<1> USE DEF connVars, kernelVars, channelVars
<1>1. CASE pc[l] = "dispatch" /\ active[l] = {} /\ moves("poll")
  BY <1>1, RegWalk DEF LoopLabels, Registered
<1>2. CASE pc[l] \in {"message", "write"} /\ \E k \in {"write", "dispatch"} : moves(k)
  BY <1>2, RegWalk DEF LoopLabels, Registered
<1>3. CASE /\ pc[l] \in {"read", "close", "find"}
           /\ \E k \in {"read", "close", "find", "message", "dispatch", "dead"} :
                moves(k)
  BY <1>3, RegWalk DEF LoopLabels, Registered
<1>4. CASE pc[l] = "find" /\ cur[l] \in connections /\ moves("delete")
  BY <1>4, RegWalk DEF LoopLabels, Registered
<1>5. CASE /\ exited' \in {"race", "sigpipe"}
           /\ UNCHANGED <<fd, interest, inEpoll, connections, pc, cur, ret,
                          active>>
  BY <1>5, RegSame
<1>6. CASE PollAgain(l)
  BY <1>1, <1>6 DEF PollAgain
<1>7. CASE ReadChunk(l) \/ ReadAgain(l) \/ ReadEnd(l) \/ Close(l)
  BY <1>3, <1>7 DEF ReadChunk, ReadAgain, ReadEnd, Close, AfterChunk
<1>8. CASE FindConnection(l)
  BY <1>3, <1>4, <1>5, <1>8 DEF FindConnection, AfterClose, Exit
<1>9. CASE OnMessage(l) \/ WriteSome(l) \/ WriteAgain(l) \/ WriteError(l)
  BY <1>2, <1>9 DEF OnMessage, WriteSome, WriteAgain, WriteError
<1>10. CASE WriteBrokenPipe(l)
  BY <1>5, <1>10 DEF WriteBrokenPipe, Exit
<1> QED
  BY <1>6, <1>7, <1>8, <1>9, <1>10

\* deleteConnection finds the channel in epoll, so it modifies and deletes it.
LEMMA RegDelete ==
  ASSUME TypeOK, RegInv, NEW l \in Loops, exited = "no",
         \/ DeleteConnection(l) \/ EpollMod(l) \/ EpollDel(l)
         \/ MarkOut(l, AfterClose(l))
  PROVE  RegInv'
<1> DEFINE c == cur[l]
<1>1. /\ pc[l] \in {"delete", "mod", "del", "mark_out"}
      /\ c \in Clients /\ Accepted(c) /\ LoopOf(c) = l
      /\ c \in connections /\ c \notin active[l]
      /\ pc[l] # "mark_out" => Registered(c)
      /\ pc[l] = "mark_out" => ~Registered(c)
      /\ pc[l] = "mod" => ret[l] = "del"
  BY DEF RegInv, LoopInv, DeleteConnection, EpollMod, EpollDel, MarkOut
<1>2. ~(pc[Main] # "poll" /\ cur[Main] = c)
  BY <1>1 DEF RegInv, MainInv
<1>3. \A m \in Loops : m # l /\ pc[m] \notin {"poll", "dispatch", "dead"} => cur[m] # c
  BY <1>1 DEF RegInv, LoopInv
<1>4. CASE DeleteConnection(l)
  <2>1. inEpoll[c]
    BY <1>1, <1>2, <1>4 DEF RegInv, FlagInv, DeleteConnection
  <2>2. /\ Goto(l, "mod") /\ ret' = [ret EXCEPT ![l] = "del"]
        /\ UNCHANGED <<fd, interest, inEpoll, connections, cur, active, exited>>
    BY <1>4, <2>1 DEF DeleteConnection, UpdateChannel, kernelVars
  <2>3. /\ \A t \in Threads : t # l => ret'[t] = ret[t]
        /\ ret'[l] = "del"
    BY <2>2, ThreadsFact DEF TypeOK, ThreadTypeOK
  <2> QED
    BY <1>1, <1>4, <2>2, <2>3, RegWalk DEF DeleteConnection, LoopLabels, Registered
<1>5. CASE EpollMod(l)
  <2>1. listen[c] # "none"
    BY <1>1 DEF TypeOK, ChannelTypeOK
  <2>2. /\ interest' = [interest EXCEPT ![c] = listen[c]] /\ Goto(l, "del")
        /\ UNCHANGED <<fd, inEpoll, connections, cur, ret, active, exited>>
    BY <1>1, <1>5 DEF EpollMod, Register, connVars, channelVars, Registered
  <2>3. \A d \in Clients : Registered(d)' <=> Registered(d)
    BY <1>1, <1>5, <2>1, <2>2 DEF EpollMod, Registered, TypeOK, KernelTypeOK
  <2> QED
    BY <1>1, <1>5, <2>2, <2>3, RegWalk DEF EpollMod, LoopLabels
<1>6. CASE EpollDel(l)
  <2>1. /\ interest' = [interest EXCEPT ![c] = "none"] /\ Goto(l, "mark_out")
        /\ UNCHANGED <<fd, inEpoll, connections, cur, ret, active, exited>>
    BY <1>1, <1>6 DEF EpollDel, connVars, channelVars, Registered
  <2>2. ~Registered(c)' /\ \A d \in Clients : d # c => (Registered(d)' <=> Registered(d))
    BY <1>1, <2>1 DEF Registered, TypeOK, KernelTypeOK
  <2>3. /\ pc'[Main] = pc[Main] /\ pc'[l] = "mark_out"
        /\ \A m \in Loops : m # l => pc'[m] = pc[m]
    BY <2>1, ThreadsFact DEF Goto, TypeOK, ThreadTypeOK
  <2>4. UnacceptedInv'
    BY <1>1, <2>1, <2>2 DEF RegInv, UnacceptedInv, Accepted
  <2>5. MainInv'
    BY <1>2, <2>1, <2>2, <2>3 DEF RegInv, MainInv, Accepted
  <2>6. LoopInv'
    <3> SUFFICES ASSUME NEW m \in Loops
                 PROVE  LoopInv!(m)'
      BY DEF LoopInv
    <3>1. CASE m = l
      BY <1>1, <2>1, <2>2, <2>3, <3>1, Zenon DEF LoopInv, LoopLabels, Accepted, LoopOf
    <3>2. CASE m # l
      BY <1>3, <2>1, <2>2, <2>3, <3>2, Zenon DEF RegInv, LoopInv, Accepted, LoopOf
    <3> QED
      BY <3>1, <3>2
  <2>7. ActiveInv'
    <3>1. \A m \in Loops : c \notin active[m]
      BY <1>1 DEF RegInv, ActiveInv
    <3> QED
      BY <2>1, <2>2, <3>1 DEF RegInv, ActiveInv, Accepted, LoopOf, TypeOK, ThreadTypeOK
  <2>8. FlagInv'
    <3> SUFFICES ASSUME NEW d \in Clients
                 PROVE  FlagInv!(d)'
      BY DEF FlagInv
    <3>1. CASE d = c
      BY <2>1, <2>2, <2>3, <3>1
    <3>2. CASE d # c
      <4>1. \A m \in Loops : pc[m] = "mark_out" => pc'[m] = "mark_out"
        BY <1>6, <2>3 DEF EpollDel
      <4> QED
        BY <2>1, <2>2, <2>3, <3>2, <4>1, Zenon DEF RegInv, FlagInv
    <3> QED
      BY <3>1, <3>2
  <2> QED
    BY <2>1, <2>4, <2>5, <2>6, <2>7, <2>8 DEF RegInv, NoExitInv
<1>7. CASE MarkOut(l, AfterClose(l))
  <2> DEFINE k == AfterClose(l)
  <2>1. /\ inEpoll' = [inEpoll EXCEPT ![c] = FALSE] /\ Goto(l, k)
        /\ k \in {"message", "dispatch"}
        /\ UNCHANGED <<fd, interest, connections, cur, ret, active, exited>>
    BY <1>7 DEF MarkOut, AfterClose, FlagAfterDelete, connVars, kernelVars
  <2> HIDE DEF k
  <2>2. ~inEpoll'[c] /\ \A d \in Clients : d # c => (inEpoll'[d] <=> inEpoll[d])
    BY <1>1, <2>1 DEF TypeOK, ChannelTypeOK
  <2>3. /\ pc'[Main] = pc[Main] /\ pc'[l] = k
        /\ \A m \in Loops : m # l => pc'[m] = pc[m]
    BY <2>1, ThreadsFact DEF Goto, TypeOK, ThreadTypeOK
  <2>4. UnacceptedInv'
    BY <1>1, <2>1, <2>2 DEF RegInv, UnacceptedInv, Accepted, Registered
  <2>5. MainInv'
    BY <1>2, <2>1, <2>2, <2>3 DEF RegInv, MainInv, Accepted, Registered
  <2>6. LoopInv'
    <3> SUFFICES ASSUME NEW m \in Loops
                 PROVE  LoopInv!(m)'
      BY DEF LoopInv
    <3>1. CASE m = l
      BY <1>1, <2>1, <2>3, <3>1, Zenon DEF LoopInv, LoopLabels, Accepted, LoopOf
    <3>2. CASE m # l
      BY <2>1, <2>3, <3>2, Zenon DEF RegInv, LoopInv, Accepted, LoopOf, Registered
    <3> QED
      BY <3>1, <3>2
  <2>7. ActiveInv'
    BY <2>1 DEF RegInv, ActiveInv, Accepted, LoopOf, Registered
  <2>8. FlagInv'
    <3> SUFFICES ASSUME NEW d \in Clients
                 PROVE  FlagInv!(d)'
      BY DEF FlagInv
    <3>1. CASE d = c
      BY <1>1, <1>7, <2>1, <2>2, <3>1 DEF MarkOut, Registered
    <3>2. CASE d # c
      <4>1. \A m \in Loops : pc[m] = "mark_out" /\ cur[m] = d => pc'[m] = "mark_out"
        BY <2>3, <3>2
      <4> QED
        BY <2>1, <2>2, <2>3, <3>2, <4>1, Zenon DEF RegInv, FlagInv, Registered
    <3> QED
      BY <3>1, <3>2
  <2> QED
    BY <2>1, <2>4, <2>5, <2>6, <2>7, <2>8 DEF RegInv, NoExitInv
<1> QED
  BY <1>4, <1>5, <1>6, <1>7

\* epoll_wait returns registered channels of this loop; dispatching one keeps
\* the others.
LEMMA RegPoll ==
  ASSUME TypeOK, RegInv, NEW l \in Loops, exited = "no", Poll(l)
  PROVE  RegInv'
<1>1. /\ Goto(l, "dispatch") /\ pc[l] = "poll"
      /\ active' = [active EXCEPT ![l] = Reported(l)]
      /\ UNCHANGED <<fd, interest, inEpoll, connections, cur, ret, exited>>
  BY DEF Poll, connVars
<1>2. /\ pc'[Main] = pc[Main] /\ pc'[l] = "dispatch"
      /\ active'[l] = Reported(l)
      /\ \A m \in Loops : m # l => pc'[m] = pc[m] /\ active'[m] = active[m]
  BY <1>1, ThreadsFact DEF Goto, TypeOK, ThreadTypeOK
<1>3. \A c \in Reported(l) : Accepted(c) /\ LoopOf(c) = l /\ Registered(c)
  BY DEF Reported, Revents, Registered
<1>4. UnacceptedInv'
  BY <1>1 DEF RegInv, UnacceptedInv, Accepted, Registered
<1>5. MainInv'
  BY <1>1, <1>2 DEF RegInv, MainInv, Accepted, Registered
<1>6. LoopInv'
  <2> SUFFICES ASSUME NEW m \in Loops
               PROVE  LoopInv!(m)'
    BY DEF LoopInv
  <2>1. CASE m = l
    BY <1>1, <1>2, <2>1, Zenon DEF LoopInv, LoopLabels
  <2>2. CASE m # l
    BY <1>1, <1>2, <2>2, Zenon DEF RegInv, LoopInv, Accepted, LoopOf, Registered
  <2> QED
    BY <2>1, <2>2
<1>7. ActiveInv'
  BY <1>1, <1>2, <1>3 DEF RegInv, ActiveInv, Accepted, LoopOf, Registered
<1>8. FlagInv'
  <2>1. \A m \in Loops : pc[m] = "mark_out" => pc'[m] = "mark_out"
    BY <1>1, <1>2
  <2> QED
    BY <1>1, <1>2, <2>1, Zenon DEF RegInv, FlagInv, Registered
<1> QED
  BY <1>1, <1>4, <1>5, <1>6, <1>7, <1>8 DEF RegInv, NoExitInv

\* What Dispatch does, for some channel of the active list.
DispatchOf(l, c, k) ==
  /\ k \in {"read", "close", "message", "dead", "dispatch"}
  /\ active' = [active EXCEPT ![l] = @ \ {c}]
  /\ cur' = [cur EXCEPT ![l] = c]
  /\ Goto(l, k)
  /\ k = "dead" => ~hasRead[c]
  /\ k = "read" => hasRead[c] /\ state[c] = "Connected"
  /\ k = "close" => revent[c] = "HUP"
  /\ k = "message" => hasRead[c] /\ state[c] # "Connected"
  /\ k = "dispatch" => revent[c] \notin {"IN", "HUP"}
  /\ readBuf' = [readBuf EXCEPT ![c] = IF k = "read" THEN <<>> ELSE @]

LEMMA DispatchFact ==
  ASSUME NEW l \in Loops, Dispatch(l)
  PROVE  \E c \in active[l] :
           \E k \in {"read", "close", "message", "dead", "dispatch"} :
             DispatchOf(l, c, k)
<1> DEFINE reads(c) == revent[c] = "IN" /\ hasRead[c] /\ state[c] = "Connected"
           next(c) == CASE revent[c] = "HUP" -> "close"
                        [] revent[c] = "IN" /\ ~hasRead[c] -> "dead"
                        [] reads(c) -> "read"
                        [] revent[c] = "IN" /\ hasRead[c] /\ ~reads(c) -> "message"
                        [] OTHER -> "dispatch"
<1>1. PICK c \in active[l] : /\ active' = [active EXCEPT ![l] = @ \ {c}]
                             /\ cur' = [cur EXCEPT ![l] = c]
                             /\ readBuf' = [readBuf EXCEPT ![c] = IF reads(c) THEN <<>>
                                                                       ELSE @]
                             /\ Goto(l, next(c))
  BY Zenon DEF Dispatch, ClearedReadBuf
<1>2. /\ next(c) \in {"read", "close", "message", "dead", "dispatch"}
      /\ next(c) = "dead" => ~hasRead[c]
      /\ next(c) = "read" => hasRead[c] /\ state[c] = "Connected"
      /\ next(c) = "close" => revent[c] = "HUP"
      /\ next(c) = "message" => hasRead[c] /\ state[c] # "Connected"
      /\ next(c) = "dispatch" => revent[c] \notin {"IN", "HUP"}
      /\ next(c) = "read" <=> reads(c)
  OBVIOUS
<1> HIDE DEF next, reads
<1> QED
  BY <1>1, <1>2, Zenon DEF DispatchOf

LEMMA RegDispatch ==
  ASSUME TypeOK, RegInv, NEW l \in Loops, exited = "no", Dispatch(l)
  PROVE  RegInv'
<1>1. PICK c \in active[l], k \in {"read", "close", "message", "dead", "dispatch"} :
        DispatchOf(l, c, k)
  BY DispatchFact
<1>2. /\ pc[l] = "dispatch"
      /\ UNCHANGED <<fd, interest, inEpoll, connections, ret, exited>>
  BY DEF Dispatch, kernelVars, channelVars
<1>3. /\ pc'[Main] = pc[Main] /\ cur'[Main] = cur[Main]
      /\ pc'[l] = k /\ cur'[l] = c /\ active'[l] = active[l] \ {c}
      /\ \A m \in Loops : m # l => /\ pc'[m] = pc[m] /\ cur'[m] = cur[m]
                                   /\ active'[m] = active[m]
  BY <1>1, ThreadsFact DEF DispatchOf, Goto, TypeOK, ThreadTypeOK
<1>4. c \in Clients /\ Accepted(c) /\ LoopOf(c) = l /\ Registered(c)
  BY DEF RegInv, ActiveInv, TypeOK, ThreadTypeOK
<1>5. UnacceptedInv'
  BY <1>2 DEF RegInv, UnacceptedInv, Accepted, Registered
<1>6. MainInv'
  BY <1>2, <1>3 DEF RegInv, MainInv, Accepted, Registered
<1>7. LoopInv'
  <2> SUFFICES ASSUME NEW m \in Loops
               PROVE  LoopInv!(m)'
    BY DEF LoopInv
  <2>1. CASE m = l
    BY <1>2, <1>3, <1>4, <2>1 DEF LoopInv, LoopLabels, Accepted, LoopOf, Registered
  <2>2. CASE m # l
    <3>1. LoopInv!(m)
      BY DEF RegInv, LoopInv
    <3> QED
      BY <1>2, <1>3, <2>2, <3>1 DEF Accepted, LoopOf, Registered
  <2> QED
    BY <2>1, <2>2
<1>8. ActiveInv'
  BY <1>2, <1>3 DEF RegInv, ActiveInv, Accepted, LoopOf, Registered
<1>9. FlagInv'
  <2>1. \A m \in Loops : pc[m] = "mark_out" => pc'[m] = "mark_out" /\ cur'[m] = cur[m]
    BY <1>2, <1>3
  <2> QED
    BY <1>2, <1>3, <2>1 DEF RegInv, FlagInv, Registered
<1> QED
  BY <1>2, <1>5, <1>6, <1>7, <1>8, <1>9 DEF RegInv, NoExitInv

\* FlagInv, seen from a step that changes no loop's place: every channel keeps
\* its registration and flag, or is registered and, but for the flag, marked.
LEMMA FlagMain ==
  ASSUME RegInv, \A l \in Loops : pc'[l] = pc[l] /\ cur'[l] = cur[l],
         \A c \in Clients :
           \/ /\ Registered(c)' <=> Registered(c)
              /\ inEpoll'[c] <=> inEpoll[c]
              /\ ~(pc[Main] = "mark_in" /\ cur[Main] = c)
           \/ /\ Registered(c)'
              /\ inEpoll'[c] \/ (pc'[Main] = "mark_in" /\ cur'[Main] = c)
  PROVE  FlagInv'
<1> SUFFICES ASSUME NEW c \in Clients
             PROVE  FlagInv!(c)'
  BY DEF FlagInv
<1>1. FlagInv!(c)
  BY DEF RegInv, FlagInv
<1>2. (\E l \in Loops : pc[l] = "mark_out" /\ cur[l] = c)
        => \E l \in Loops : pc'[l] = "mark_out" /\ cur'[l] = c
  OBVIOUS
<1>3. CASE Registered(c)' /\ (inEpoll'[c] \/ (pc'[Main] = "mark_in" /\ cur'[Main] = c))
  BY <1>3, Zenon
<1>4. CASE /\ Registered(c)' <=> Registered(c)
           /\ inEpoll'[c] <=> inEpoll[c]
           /\ ~(pc[Main] = "mark_in" /\ cur[Main] = c)
  BY <1>1, <1>2, <1>4, Zenon
<1> QED
  BY <1>3, <1>4, Zenon

\* A step of Main leaves the loops' part of the invariant alone as long as the
\* channel it registers is not one they know.
LEMMA RegMainFrame ==
  ASSUME TypeOK, RegInv, exited' # "epoll", UNCHANGED active,
         \A l \in Loops : /\ pc'[l] = pc[l] /\ cur'[l] = cur[l]
                          /\ ret'[l] = ret[l],
         \A c \in Clients : Registered(c) => Registered(c)',
         \A c \in Clients : Registered(c)' /\ ~Registered(c) => c \notin connections,
         \A c \in Clients : Accepted(c) => fd'[c] = fd[c],
         connections \subseteq connections',
         UnacceptedInv', MainInv', FlagInv'
  PROVE  RegInv'
<1>1. \A c \in Clients : Accepted(c) => Accepted(c)' /\ LoopOf(c)' = LoopOf(c)
  BY DEF Accepted, LoopOf
<1>2. LoopInv'
  <2> SUFFICES ASSUME NEW l \in Loops
               PROVE  LoopInv!(l)'
    BY DEF LoopInv
  <2>1. LoopInv!(l)
    BY DEF RegInv, LoopInv
  <2> QED
    BY <1>1, <2>1, Zenon
<1>3. ActiveInv'
  BY <1>1 DEF RegInv, ActiveInv, TypeOK, ThreadTypeOK
<1> QED
  BY <1>2, <1>3 DEF RegInv, NoExitInv

LEMMA RegMain ==
  ASSUME TypeOK, RegInv, exited = "no", MainStep
  PROVE  RegInv'
<1> DEFINE c == cur[Main]
<1>1. \A l \in Loops : l # Main /\ l \in Threads
  BY ThreadsFact
<1>2. CASE \E d \in Clients : Accept(d)
  <2> PICK d \in Clients : Accept(d)
    BY <1>2
  <2>1. CASE NoFdLeft
    BY <2>1, RegSame DEF Accept, Exit
  <2>2. CASE ~NoFdLeft
    <3>1. ~Accepted(d) /\ ~inEpoll[d] /\ ~Registered(d) /\ d \notin connections
      BY DEF Accept, RegInv, UnacceptedInv
    <3>2. /\ fd' = [fd EXCEPT ![d] = nextFd]
          /\ cur' = [cur EXCEPT ![Main] = d] /\ Goto(Main, "add")
          /\ ret' = [ret EXCEPT ![Main] = "use_et"] /\ pc[Main] = "poll"
          /\ UNCHANGED <<interest, inEpoll, connections, active, exited>>
      BY <2>2, <3>1 DEF Accept, UpdateChannel
    <3>3. /\ fd'[d] = nextFd /\ nextFd # NoFd
          /\ \A e \in Clients : e # d => fd'[e] = fd[e]
      BY <3>2, ReactorAssumption DEF TypeOK, KernelTypeOK, ConnectionTypeOK, NoFd
    <3>4. /\ pc'[Main] = "add" /\ cur'[Main] = d /\ ret'[Main] = "use_et"
          /\ \A l \in Loops : /\ pc'[l] = pc[l] /\ cur'[l] = cur[l]
                              /\ ret'[l] = ret[l]
      BY <3>2, ThreadsFact DEF Goto, TypeOK, ThreadTypeOK
    <3>5. UnacceptedInv'
      BY <3>2, <3>3 DEF RegInv, UnacceptedInv, Accepted, Registered
    <3>6. MainInv'
      BY <3>1, <3>2, <3>3, <3>4 DEF MainInv, MainLabels, Accepted, Registered
    <3>7. FlagInv'
      BY <3>2, <3>4, FlagMain DEF Registered
    <3> QED
      BY <3>1, <3>2, <3>3, <3>4, <3>5, <3>6, <3>7, RegMainFrame
         DEF Accepted, Registered
  <2> QED
    BY <2>1, <2>2
<1>3. CASE EpollAdd(Main)
  <2>1. /\ pc[Main] = "add" /\ c \in Clients /\ ~Registered(c) /\ ~inEpoll[c]
        /\ ret[Main] = "use_et" /\ c \notin connections /\ Accepted(c)
    BY <1>3 DEF RegInv, MainInv, EpollAdd
  <2>2. /\ interest' = [interest EXCEPT ![c] = listen[c]]
        /\ Goto(Main, "mark_in")
        /\ UNCHANGED <<fd, inEpoll, connections, cur, ret, active, exited>>
    BY <1>3, <2>1 DEF EpollAdd, Register, AfterAdd, Registered, connVars, channelVars
  <2>3. Registered(c)' /\ \A d \in Clients : d # c => interest'[d] = interest[d]
    BY <2>1, <2>2 DEF Registered, TypeOK, KernelTypeOK, ChannelTypeOK
  <2>4. pc'[Main] = "mark_in" /\ \A l \in Loops : pc'[l] = pc[l]
    BY <2>2, ThreadsFact DEF Goto, TypeOK, ThreadTypeOK
  <2>5. UnacceptedInv'
    BY <2>1, <2>2, <2>3 DEF RegInv, UnacceptedInv, Accepted, Registered
  <2>6. MainInv'
    BY <2>1, <2>2, <2>3, <2>4 DEF MainInv, MainLabels, Accepted, Registered
  <2>7. FlagInv'
    BY <2>1, <2>2, <2>3, <2>4, FlagMain DEF Registered
  <2> QED
    BY <2>1, <2>2, <2>3, <2>4, <2>5, <2>6, <2>7, RegMainFrame
       DEF Accepted, Registered
<1>4. CASE MarkIn(Main)
  <2>1. /\ pc[Main] = "mark_in" /\ c \in Clients /\ Registered(c)
        /\ ret[Main] = "use_et" /\ c \notin connections /\ Accepted(c)
    BY <1>4 DEF RegInv, MainInv, MarkIn
  <2>2. /\ inEpoll' = [inEpoll EXCEPT ![c] = TRUE] /\ Goto(Main, "use_et")
        /\ UNCHANGED <<fd, interest, connections, cur, ret, active, exited>>
    BY <1>4, <2>1 DEF MarkIn, kernelVars, connVars
  <2>3. inEpoll'[c] /\ \A d \in Clients : d # c => (inEpoll'[d] <=> inEpoll[d])
    BY <2>1, <2>2 DEF TypeOK, ChannelTypeOK
  <2>4. pc'[Main] = "use_et" /\ \A l \in Loops : pc'[l] = pc[l]
    BY <2>2, ThreadsFact DEF Goto, TypeOK, ThreadTypeOK
  <2>5. UnacceptedInv'
    BY <2>1, <2>2, <2>3 DEF RegInv, UnacceptedInv, Accepted, Registered
  <2>6. MainInv'
    BY <2>1, <2>2, <2>3, <2>4 DEF MainInv, MainLabels, Accepted, Registered
  <2>7. FlagInv'
    BY <2>1, <2>2, <2>3, <2>4, FlagMain DEF Registered
  <2> QED
    BY <2>1, <2>2, <2>4, <2>5, <2>6, <2>7, RegMainFrame DEF Accepted, Registered
<1>5. CASE UseET
  <2>1. /\ pc[Main] = "use_et" /\ c \in Clients /\ Registered(c) /\ inEpoll[c]
        /\ c \notin connections /\ Accepted(c)
    BY <1>5 DEF RegInv, MainInv, UseET
  <2>2. /\ Goto(Main, "mod") /\ ret' = [ret EXCEPT ![Main] = "connected"]
        /\ UNCHANGED <<fd, interest, inEpoll, connections, cur, active, exited>>
    BY <1>5, <2>1 DEF UseET, UpdateChannel, kernelVars, connVars
  <2>3. /\ pc'[Main] = "mod" /\ ret'[Main] = "connected"
        /\ \A l \in Loops : pc'[l] = pc[l] /\ ret'[l] = ret[l]
    BY <2>2, ThreadsFact DEF Goto, TypeOK, ThreadTypeOK
  <2>4. UnacceptedInv'
    BY <2>2 DEF RegInv, UnacceptedInv, Accepted, Registered
  <2>5. MainInv'
    BY <2>1, <2>2, <2>3 DEF MainInv, MainLabels, Accepted, Registered
  <2>6. FlagInv'
    BY <2>1, <2>2, <2>3, FlagMain DEF Registered
  <2> QED
    BY <2>2, <2>3, <2>4, <2>5, <2>6, RegMainFrame DEF Accepted, Registered
<1>6. CASE EpollMod(Main)
  <2>1. /\ pc[Main] = "mod" /\ c \in Clients /\ Registered(c) /\ inEpoll[c]
        /\ ret[Main] = "connected" /\ c \notin connections /\ Accepted(c)
    BY <1>6 DEF RegInv, MainInv, EpollMod
  <2>2. /\ interest' = [interest EXCEPT ![c] = listen[c]]
        /\ Goto(Main, "connected")
        /\ UNCHANGED <<fd, inEpoll, connections, cur, ret, active, exited>>
    BY <1>6, <2>1 DEF EpollMod, Register, Registered, connVars, channelVars
  <2>3. Registered(c)' /\ \A d \in Clients : d # c => interest'[d] = interest[d]
    BY <2>1, <2>2 DEF Registered, TypeOK, KernelTypeOK, ChannelTypeOK
  <2>4. pc'[Main] = "connected" /\ \A l \in Loops : pc'[l] = pc[l]
    BY <2>2, ThreadsFact DEF Goto, TypeOK, ThreadTypeOK
  <2>5. UnacceptedInv'
    BY <2>1, <2>2, <2>3 DEF RegInv, UnacceptedInv, Accepted, Registered
  <2>6. MainInv'
    BY <2>1, <2>2, <2>3, <2>4 DEF MainInv, MainLabels, Accepted, Registered
  <2>7. FlagInv'
    BY <2>1, <2>2, <2>3, <2>4, FlagMain DEF Registered
  <2> QED
    BY <2>1, <2>2, <2>3, <2>4, <2>5, <2>6, <2>7, RegMainFrame
       DEF Accepted, Registered
<1>7. CASE EpollDel(Main)
  BY <1>7 DEF EpollDel, RegInv, MainInv, MainLabels
<1>8. CASE Construct \/ SetDeleteConnectionCallback \/ SetOnMessageCallback
             \/ BeginInsert
  <2>1. /\ \E k \in {"set_delete", "set_message", "insert", "inserting"} : Goto(Main, k)
        /\ pc[Main] \in {"connected", "set_delete", "set_message", "insert"}
        /\ UNCHANGED <<fd, interest, inEpoll, connections, cur, ret, active, exited>>
    BY <1>8 DEF Construct, SetDeleteConnectionCallback, SetOnMessageCallback,
                BeginInsert, kernelVars, connVars, channelVars
  <2>2. /\ pc'[Main] \in {"set_delete", "set_message", "insert", "inserting"}
        /\ \A l \in Loops : pc'[l] = pc[l]
    BY <2>1, ThreadsFact DEF Goto, TypeOK, ThreadTypeOK
  <2>3. UnacceptedInv'
    BY <2>1 DEF RegInv, UnacceptedInv, Accepted, Registered
  <2>4. MainInv'
    BY <2>1, <2>2 DEF RegInv, MainInv, MainLabels, Accepted, Registered
  <2>5. FlagInv'
    BY <2>1, <2>2, FlagMain DEF Registered
  <2> QED
    BY <2>1, <2>2, <2>3, <2>4, <2>5, RegMainFrame DEF Accepted, Registered
<1>9. CASE EndInsert
  <2>1. /\ Goto(Main, "poll") /\ pc[Main] = "inserting"
        /\ connections' = connections \cup {c}
        /\ UNCHANGED <<fd, interest, inEpoll, cur, ret, active, exited>>
    BY <1>9 DEF EndInsert, kernelVars, channelVars
  <2>2. c \in Clients /\ Accepted(c)
    BY <2>1 DEF RegInv, MainInv
  <2>3. pc'[Main] = "poll" /\ \A l \in Loops : pc'[l] = pc[l]
    BY <2>1, ThreadsFact DEF Goto, TypeOK, ThreadTypeOK
  <2>4. UnacceptedInv'
    BY <2>1, <2>2 DEF RegInv, UnacceptedInv, Accepted, Registered
  <2>5. MainInv'
    BY <2>3 DEF MainInv, MainLabels
  <2>6. FlagInv'
    BY <2>1, <2>3, FlagMain DEF Registered
  <2> QED
    BY <2>1, <2>3, <2>4, <2>5, <2>6, RegMainFrame DEF Accepted, Registered
<1> QED
  BY <1>2, <1>3, <1>4, <1>5, <1>6, <1>7, <1>8, <1>9
     DEF MainStep, AcceptorStep, EpollCtl

----------------------------------------------------------------------------
(* Callbacks, events and wake-ups *)

Idle == {"poll", "dispatch", "dead"}

\* What a step of loop l may do to the state that Main and the other loops use.
LoopEffect(l) ==
  /\ UNCHANGED <<fd, hasDelete, hasRead, connections>>
  /\ pc'[Main] = pc[Main] /\ cur'[Main] = cur[Main]
  /\ \A m \in Loops \ {l} : /\ pc'[m] = pc[m] /\ cur'[m] = cur[m]
                            /\ active'[m] = active[m]
  /\ \A c \in Clients : state'[c] = state[c] \/ (state'[c] = "Closed" /\ hasRead[c])
  /\ \A c \in Clients : listen'[c] = listen[c] \/ c \in connections
  /\ pc'[l] \notin Idle => hasRead[cur'[l]]
  /\ pc'[l] = "mod" => state'[cur'[l]] = "Closed"

LEMMA LoopEffectFact ==
  ASSUME TypeOK, RegInv, BuildInv, EventInv, NEW l \in Loops, LoopStep(l)
  PROVE  LoopEffect(l)
<1> DEFINE c == cur[l]
           pcOnly(k) ==
             /\ Goto(l, k) /\ k # "mod"
             /\ k \notin Idle => pc[l] \notin Idle
             /\ UNCHANGED <<fd, hasDelete, hasRead, connections, listen, cur, active>>
<1>1. /\ l \in Threads /\ Main \in Threads /\ l # Main
      /\ pc \in [Threads -> Labels] /\ active \in [Loops -> SUBSET Clients]
      /\ cur \in [Threads -> Clients \cup {NoClient}]
      /\ state \in [Clients -> {"Invalid", "Connected", "Closed"}]
  BY ThreadsFact DEF TypeOK, ThreadTypeOK, ConnectionTypeOK
<1>2. \A m \in Loops : m \in Threads /\ m # Main
  BY ThreadsFact
<1>3. pc[l] \notin Idle => hasRead[c] /\ c \in Clients
  BY DEF BuildInv, Idle, RegInv, LoopInv
<1>4. ASSUME NEW k, pcOnly(k), UNCHANGED state
      PROVE  LoopEffect(l)
  BY <1>1, <1>2, <1>3, <1>4 DEF LoopEffect, Goto
<1>5. ASSUME NEW k, pcOnly(k), pc[l] \notin Idle,
             state' = [state EXCEPT ![c] = "Closed"]
      PROVE  LoopEffect(l)
  <2>1. \A d \in Clients : state'[d] = state[d] \/ (state'[d] = "Closed" /\ hasRead[d])
    BY <1>1, <1>3, <1>5
  <2> QED
    BY <1>1, <1>2, <1>3, <1>5, <2>1 DEF LoopEffect, Goto
<1>6. ASSUME UNCHANGED <<fd, hasDelete, hasRead, connections, state, listen,
                         pc, cur, active>>
      PROVE  LoopEffect(l)
  BY <1>3, <1>6 DEF LoopEffect, BuildInv
<1> HIDE DEF c
<1> USE DEF connVars, kernelVars, channelVars
<1>7. CASE PollAgain(l)
  <2>1. pcOnly("poll") /\ UNCHANGED state
    BY <1>7 DEF PollAgain, Idle
  <2> QED
    BY <1>4, <2>1
<1>8. CASE ReadChunk(l) \/ ReadAgain(l) \/ FindConnection(l) \/ OnMessage(l)
             \/ WriteSome(l) \/ WriteAgain(l)
  <2>1. CASE \E k \in {"read", "message", "delete", "dispatch", "write"} : Goto(l, k)
    <3> PICK k \in {"read", "message", "delete", "dispatch", "write"} : Goto(l, k)
      BY <2>1
    <3>1. pcOnly(k) /\ UNCHANGED state
      BY <1>8 DEF ReadChunk, ReadAgain, FindConnection, OnMessage, WriteSome,
                  WriteAgain, Idle
    <3> QED
      BY <1>4, <3>1
  <2>2. CASE FindConnection(l) /\ Exit("race")
    BY <1>6, <2>2 DEF FindConnection, Exit
  <2> QED
    BY <1>8, <2>1, <2>2 DEF ReadChunk, AfterChunk, ReadAgain, FindConnection,
       AfterClose, OnMessage, WriteSome, WriteAgain
<1>9. CASE ReadEnd(l) \/ Close(l) \/ WriteError(l)
  <2>1. PICK k \in {"close", "find", "dead", "dispatch"} : Goto(l, k)
    BY <1>9 DEF ReadEnd, Close, WriteError
  <2>2. pcOnly(k) /\ pc[l] \notin Idle /\ state' = [state EXCEPT ![c] = "Closed"]
    BY <1>9, <2>1 DEF ReadEnd, Close, WriteError, Idle, c
  <2> QED
    BY <1>5, <2>2
<1>10. CASE WriteBrokenPipe(l)
  BY <1>6, <1>10 DEF WriteBrokenPipe, Exit
<1>11. CASE DeleteConnection(l)
  <2>1. /\ pc[l] = "delete" /\ c \in connections /\ c \in Clients /\ hasRead[c]
        /\ state' = [state EXCEPT ![c] = "Closed"]
        /\ listen' = [listen EXCEPT ![c] = "zero"]
        /\ Goto(l, IF inEpoll[c] THEN "mod" ELSE "add")
        /\ UNCHANGED <<fd, hasDelete, hasRead, connections, cur, active>>
    BY <1>3, <1>11 DEF DeleteConnection, UpdateChannel, Idle, RegInv, LoopInv, c
  <2>2. /\ \A d \in Clients : state'[d] = state[d] \/ (state'[d] = "Closed" /\ hasRead[d])
        /\ \A d \in Clients : listen'[d] = listen[d] \/ d \in connections
        /\ state'[c] = "Closed"
    BY <1>1, <2>1 DEF TypeOK, ChannelTypeOK
  <2> QED
    BY <1>1, <1>2, <2>1, <2>2 DEF LoopEffect, Goto, c
<1>12. CASE EpollMod(l)
  <2>1. ret[l] = "del" /\ pc[l] = "mod"
    BY <1>12 DEF EpollMod, RegInv, LoopInv
  <2>2. CASE Goto(l, "del")
    <3>1. pcOnly("del") /\ UNCHANGED state
      BY <1>12, <2>1, <2>2 DEF EpollMod, Idle
    <3> QED
      BY <1>4, <3>1
  <2>3. CASE Exit("epoll")
    BY <1>6, <1>12, <2>3 DEF EpollMod, Exit
  <2> QED
    BY <1>12, <2>1, <2>2, <2>3 DEF EpollMod
<1>13. CASE EpollDel(l)
  <2>1. CASE Goto(l, "mark_out")
    <3>1. pcOnly("mark_out") /\ UNCHANGED state
      BY <1>13, <2>1 DEF EpollDel, Idle
    <3> QED
      BY <1>4, <3>1
  <2>2. CASE Exit("epoll")
    BY <1>6, <1>13, <2>2 DEF EpollDel, Exit
  <2> QED
    BY <1>13, <2>1, <2>2 DEF EpollDel
<1>14. CASE MarkOut(l, AfterClose(l))
  <2>1. PICK k \in {"message", "dispatch"} : Goto(l, k)
    BY <1>14 DEF MarkOut, AfterClose
  <2>2. pcOnly(k) /\ UNCHANGED state
    BY <1>14, <2>1 DEF MarkOut, Idle
  <2> QED
    BY <1>4, <2>2
<1>15. CASE EpollAdd(l) \/ MarkIn(l)
  BY <1>15 DEF EpollAdd, MarkIn, RegInv, LoopInv, LoopLabels
<1>16. CASE Poll(l)
  BY <1>1, <1>2, <1>16 DEF Poll, LoopEffect, Goto, Idle
<1>17. CASE Dispatch(l)
  <2>1. PICK d \in active[l], k \in {"read", "close", "message", "dead", "dispatch"} :
          DispatchOf(l, d, k)
    BY <1>17, DispatchFact
  <2>2. revent[d] = "IN"
    BY DEF EventInv
  <2>3. k \notin Idle => hasRead[d]
    BY <2>1, <2>2 DEF DispatchOf, Idle
  <2>4. UNCHANGED <<fd, hasDelete, hasRead, connections, state, listen>>
    BY <1>17 DEF Dispatch
  <2> QED
    BY <1>1, <1>2, <2>1, <2>3, <2>4 DEF DispatchOf, LoopEffect, Goto
<1> QED
  BY <1>7, <1>8, <1>9, <1>10, <1>11, <1>12, <1>13, <1>14, <1>15, <1>16, <1>17
     DEF LoopStep, HandlerStep, EpollCtl

\* The client's steps, and stuttering, touch only sockets.
ClientFrame ==
  UNCHANGED <<interest, connVars, channelVars, threadVars, exited>>

LEMMA ClientFrameFact ==
  ASSUME ClientStep \/ UNCHANGED vars
  PROVE  ClientFrame
BY DEF ClientStep, ClientConnect, ClientSend, ClientFin, ClientReset, vars,
       ClientFrame, kernelVars

LEMMA CallbackStep ==
  ASSUME TypeOK, RegInv, CallbackInv, BuildInv, EventInv, [Next]_vars
  PROVE  CallbackInv'
<1> DEFINE c == cur[Main]
<1>1. CASE ClientFrame
  BY <1>1 DEF ClientFrame, CallbackInv, Accepted, connVars, channelVars, threadVars
<1>2. CASE \E l \in Loops : LoopStep(l)
  <2> PICK l \in Loops : LoopStep(l)
    BY <1>2
  <2>1. LoopEffect(l)
    BY LoopEffectFact
  <2> QED
    BY <2>1 DEF LoopEffect, CallbackInv, Accepted
<1>3. CASE MainStep
  <2>1. /\ pc \in [Threads -> Labels] /\ Main \in Threads
        /\ cur \in [Threads -> Clients \cup {NoClient}]
        /\ pc[Main] \in MainLabels
        /\ pc[Main] # "poll" => c \in Clients
        /\ pc[Main] = "mark_in" => ret[Main] = "use_et"
        /\ pc[Main] = "mod" => ret[Main] = "connected"
    BY ThreadsFact DEF TypeOK, ThreadTypeOK, RegInv, MainInv
  <2>2. hasRead \in [Clients -> BOOLEAN] /\ hasDelete \in [Clients -> BOOLEAN]
    BY DEF TypeOK, ConnectionTypeOK, ChannelTypeOK
  <2>3. CASE \E d \in Clients : Accept(d)
    <3> PICK d \in Clients : Accept(d)
      BY <2>3
    <3>1. CASE NoFdLeft
      BY <3>1 DEF Accept, Exit, CallbackInv, Accepted
    <3>2. CASE ~NoFdLeft
      <4>1. /\ pc[Main] = "poll" /\ cur'[Main] = d /\ pc'[Main] = "add"
            /\ fd' = [fd EXCEPT ![d] = nextFd]
            /\ UNCHANGED <<hasRead, hasDelete>>
        BY <2>1, <3>2 DEF Accept, UpdateChannel, Goto, RegInv, UnacceptedInv
      <4>2. \A e \in Clients : e # d => fd'[e] = fd[e]
        BY <4>1 DEF TypeOK, ConnectionTypeOK
      <4> QED
        BY <4>1, <4>2 DEF CallbackInv, Accepted
    <3> QED
      BY <3>1, <3>2
  <2>4. CASE UseET \/ EpollAdd(Main) \/ MarkIn(Main) \/ EpollMod(Main) \/ Construct
    <3>1. /\ pc[Main] \in {"add", "mark_in", "use_et", "mod", "connected"}
          /\ UNCHANGED <<fd, hasRead, hasDelete, cur>>
      BY <2>4 DEF UseET, EpollAdd, MarkIn, EpollMod, Construct, UpdateChannel,
                  connVars, channelVars
    <3>2. pc'[Main] \in {"add", "mark_in", "use_et", "mod", "connected", "set_delete"}
      BY <2>1, <2>4 DEF UseET, EpollAdd, MarkIn, EpollMod, Construct,
                        UpdateChannel, Goto, Exit, AfterAdd
    <3> QED
      BY <3>1, <3>2 DEF CallbackInv, Accepted
  <2>5. CASE EpollDel(Main)
    BY <2>1, <2>5 DEF EpollDel, MainLabels
  <2>6. CASE SetDeleteConnectionCallback
    <3>1. /\ pc[Main] = "set_delete" /\ pc'[Main] = "set_message"
          /\ hasDelete'[c] /\ \A d \in Clients \ {c} : hasDelete'[d] = hasDelete[d]
          /\ UNCHANGED <<fd, hasRead, cur>>
      BY <2>1, <2>2, <2>6 DEF SetDeleteConnectionCallback, Goto, channelVars
    <3> QED
      BY <3>1 DEF CallbackInv, Accepted
  <2>7. CASE SetOnMessageCallback
    <3>1. /\ pc[Main] = "set_message" /\ pc'[Main] = "insert"
          /\ hasRead'[c] /\ \A d \in Clients \ {c} : hasRead'[d] = hasRead[d]
          /\ UNCHANGED <<fd, hasDelete, cur>>
      BY <2>1, <2>2, <2>7 DEF SetOnMessageCallback, Goto, connVars
    <3> QED
      BY <3>1 DEF CallbackInv, Accepted
  <2>8. CASE BeginInsert \/ EndInsert
    <3>1. /\ pc[Main] \in {"insert", "inserting"}
          /\ UNCHANGED <<fd, hasRead, hasDelete, cur>>
      BY <2>8 DEF BeginInsert, EndInsert, connVars, channelVars
    <3> QED
      BY <3>1 DEF CallbackInv, Accepted
  <2> QED
    BY <1>3, <2>3, <2>4, <2>5, <2>6, <2>7, <2>8 DEF MainStep, AcceptorStep, EpollCtl
<1> QED
  BY <1>1, <1>2, <1>3, ClientFrameFact DEF Next

LEMMA BuildStep ==
  ASSUME TypeOK, RegInv, CallbackInv, BuildInv, EventInv, [Next]_vars
  PROVE  BuildInv'
<1> DEFINE c == cur[Main]
<1>1. CASE ClientFrame
  BY <1>1 DEF ClientFrame, BuildInv, Accepted, connVars, channelVars, threadVars
<1>2. CASE \E l \in Loops : LoopStep(l)
  <2> PICK l \in Loops : LoopStep(l)
    BY <1>2
  <2>1. LoopEffect(l)
    BY LoopEffectFact
  <2>2. pc[Main] # "poll" => c \in Clients /\ c \notin connections
    BY DEF RegInv, MainInv
  <2>3. \A m \in Loops : pc[m] = "mod" => cur[m] \in Clients
    BY DEF RegInv, LoopInv
  <2> QED
    BY <2>1, <2>2, <2>3 DEF LoopEffect, BuildInv, Accepted, Idle
<1>3. CASE MainStep
  <2>1. /\ pc \in [Threads -> Labels] /\ Main \in Threads
        /\ cur \in [Threads -> Clients \cup {NoClient}]
        /\ state \in [Clients -> {"Invalid", "Connected", "Closed"}]
        /\ listen \in [Clients -> {"zero", "in", "inET"}]
        /\ hasRead \in [Clients -> BOOLEAN]
        /\ pc[Main] \in MainLabels
        /\ pc[Main] # "poll" => c \in Clients /\ c \notin connections
        /\ pc[Main] = "mark_in" => ret[Main] = "use_et"
        /\ pc[Main] = "mod" => ret[Main] = "connected"
    BY ThreadsFact DEF TypeOK, ConnectionTypeOK, ChannelTypeOK, ThreadTypeOK,
                       RegInv, MainInv
  <2>2. \A l \in Loops : l \in Threads /\ l # Main
    BY ThreadsFact
  <2>3. \A l \in Loops : /\ pc[l] \notin Idle => cur[l] \in Clients
                         /\ pc[l] = "mod" => cur[l] \in connections
    BY DEF RegInv, LoopInv, Idle
  <2>4. CASE \E d \in Clients : Accept(d)
    <3> PICK d \in Clients : Accept(d)
      BY <2>4
    <3>1. CASE NoFdLeft
      BY <3>1 DEF Accept, Exit, BuildInv, Accepted
    <3>2. CASE ~NoFdLeft
      <4>1. /\ pc[Main] = "poll" /\ cur'[Main] = d /\ pc'[Main] = "add"
            /\ fd' = [fd EXCEPT ![d] = nextFd] /\ ~Accepted(d)
            /\ listen' = [listen EXCEPT ![d] = "in"]
            /\ \A l \in Loops : pc'[l] = pc[l] /\ cur'[l] = cur[l]
            /\ UNCHANGED <<hasRead, state>>
        BY <2>1, <2>2, <3>2 DEF Accept, UpdateChannel, Goto, RegInv, UnacceptedInv
      <4>2. /\ \A e \in Clients : e # d => fd'[e] = fd[e]
            /\ fd'[d] # NoFd
        BY <4>1, ReactorAssumption DEF TypeOK, KernelTypeOK, ConnectionTypeOK, NoFd
      <4>3. listen'[d] = "in"
        BY <2>1, <4>1
      <4> QED
        BY <4>1, <4>2, <4>3 DEF BuildInv, Accepted
    <3> QED
      BY <3>1, <3>2
  <2>5. CASE UseET
    <3>1. /\ pc[Main] = "use_et" /\ pc'[Main] \in {"add", "mod"}
          /\ pc'[Main] = "mod"
          /\ listen'[c] = "inET"
          /\ \A l \in Loops : pc'[l] = pc[l]
          /\ UNCHANGED <<fd, hasRead, state, cur>>
      BY <2>1, <2>2, <2>5 DEF UseET, UpdateChannel, Goto, connVars, RegInv, MainInv
    <3> QED
      BY <3>1 DEF BuildInv, Accepted
  <2>6. CASE EpollAdd(Main) \/ MarkIn(Main) \/ EpollMod(Main)
    <3>1. /\ pc[Main] \in {"add", "mark_in", "mod"}
          /\ pc'[Main] \in {"mark_in", "use_et", "connected", pc[Main]}
          /\ \A l \in Loops : pc'[l] = pc[l]
          /\ UNCHANGED <<fd, hasRead, state, cur, listen>>
      BY <2>1, <2>2, <2>6 DEF EpollAdd, MarkIn, EpollMod, Goto, Exit, AfterAdd,
                              connVars, channelVars
    <3> QED
      BY <3>1 DEF BuildInv, Accepted
  <2>7. CASE EpollDel(Main)
    BY <2>1, <2>7 DEF EpollDel, MainLabels
  <2>8. CASE Construct
    <3>1. /\ pc[Main] = "connected" /\ pc'[Main] = "set_delete"
          /\ state'[c] = "Connected"
          /\ \A d \in Clients \ {c} : state'[d] = state[d]
          /\ \A l \in Loops : pc'[l] = pc[l]
          /\ Accepted(c)
          /\ UNCHANGED <<fd, hasRead, cur, listen>>
      BY <2>1, <2>2, <2>8 DEF Construct, Goto, channelVars, RegInv, MainInv
    <3>2. \A l \in Loops : pc[l] = "mod" => cur[l] # c /\ cur[l] \in Clients
      BY <2>1, <2>3, <3>1 DEF Idle
    <3> QED
      BY <3>1, <3>2 DEF BuildInv, Accepted
  <2>9. CASE SetOnMessageCallback
    <3>1. /\ pc[Main] = "set_message" /\ pc'[Main] = "insert"
          /\ \A d \in Clients \ {c} : hasRead'[d] = hasRead[d]
          /\ hasRead'[c]
          /\ \A l \in Loops : pc'[l] = pc[l]
          /\ UNCHANGED <<fd, state, cur, listen>>
      BY <2>1, <2>2, <2>9 DEF SetOnMessageCallback, Goto, connVars
    <3> QED
      BY <2>3, <3>1 DEF BuildInv, Accepted, Idle
  <2>10. CASE SetDeleteConnectionCallback \/ BeginInsert \/ EndInsert
    <3>1. /\ pc[Main] \in {"set_delete", "insert", "inserting"}
          /\ pc'[Main] \in {"set_message", "inserting", "poll"}
          /\ \A l \in Loops : pc'[l] = pc[l]
          /\ UNCHANGED <<fd, hasRead, state, cur, listen>>
      BY <2>1, <2>2, <2>10 DEF SetDeleteConnectionCallback, BeginInsert, EndInsert,
                               Goto, connVars, channelVars
    <3> QED
      BY <3>1 DEF BuildInv, Accepted
  <2> QED
    BY <1>3, <2>4, <2>5, <2>6, <2>7, <2>8, <2>9, <2>10
       DEF MainStep, AcceptorStep, EpollCtl
<1> QED
  BY <1>1, <1>2, <1>3, ClientFrameFact DEF Next

\* What a step may do to the registrations and to Poll's results.
LEMMA EventStep ==
  ASSUME TypeOK, RegInv, BuildInv, EventInv, [Next]_vars
  PROVE  EventInv'
<1>1. /\ interest \in [Clients -> {"none", "zero", "in", "inET"}]
      /\ pc \in [Threads -> Labels]
      /\ cur \in [Threads -> Clients \cup {NoClient}]
      /\ active \in [Loops -> SUBSET Clients]
  BY DEF TypeOK, KernelTypeOK, ThreadTypeOK
<1>2. CASE ClientFrame
  BY <1>2 DEF ClientFrame, EventInv, channelVars, threadVars
<1>3. CASE MainStep
  <2>1. UNCHANGED <<active, revent>>
    BY <1>3 DEF MainStep, AcceptorStep, EpollCtl, Accept, UseET, Construct,
       SetDeleteConnectionCallback, SetOnMessageCallback, BeginInsert, EndInsert,
       EpollAdd, MarkIn, EpollMod, EpollDel, channelVars
  <2>2. \A l \in Loops : pc'[l] = pc[l] /\ cur'[l] = cur[l]
    BY <1>1, <1>3, ThreadsFact DEF MainStep, AcceptorStep, EpollCtl, Accept,
       UseET, Construct, SetDeleteConnectionCallback, SetOnMessageCallback,
       BeginInsert, EndInsert, EpollAdd, MarkIn, EpollMod, EpollDel,
       UpdateChannel, Goto, Exit
  <2>3. \A c \in Clients : interest'[c] = "zero" => interest[c] = "zero"
    <3>1. CASE EpollAdd(Main) \/ EpollMod(Main)
      BY <1>1, <3>1 DEF EpollAdd, EpollMod, Register, BuildInv
    <3>2. CASE EpollDel(Main)
      BY <1>1, <3>2 DEF EpollDel
    <3>3. CASE \E c \in Clients : Accept(c)
      BY <3>3 DEF Accept
    <3> QED
      BY <1>3, <3>1, <3>2, <3>3 DEF MainStep, AcceptorStep, EpollCtl, UseET,
         Construct, SetDeleteConnectionCallback, SetOnMessageCallback,
         BeginInsert, EndInsert, MarkIn, kernelVars
  <2> QED
    BY <2>1, <2>2, <2>3 DEF EventInv
<1>4. CASE \E l \in Loops : LoopStep(l)
  <2> PICK l \in Loops : LoopStep(l)
    BY <1>4
  <2> DEFINE c == cur[l]
  <2>1. LoopEffect(l)
    BY LoopEffectFact
  <2>2. CASE EpollMod(l)
    <3>1. /\ pc[l] = "mod" /\ Registered(c) /\ c \in Clients /\ ret[l] = "del"
      BY <2>2 DEF EpollMod, RegInv, LoopInv
    <3>2. /\ interest' = [interest EXCEPT ![c] = listen[c]]
          /\ pc'[l] = "del" /\ cur'[l] = c
          /\ UNCHANGED <<active, revent>>
      BY <1>1, <2>2, <3>1, ThreadsFact DEF EpollMod, Register, Registered, Goto, channelVars
    <3> QED
      BY <1>1, <2>1, <3>1, <3>2 DEF EventInv, LoopEffect
  <2>3. CASE EpollDel(l)
    <3>1. /\ pc[l] = "del" /\ Registered(c) /\ c \in Clients
      BY <2>3 DEF EpollDel, RegInv, LoopInv
    <3>2. /\ interest' = [interest EXCEPT ![c] = "none"]
          /\ UNCHANGED <<active, revent>>
      BY <2>3, <3>1 DEF EpollDel, Registered, channelVars
    <3> QED
      BY <1>1, <2>1, <3>1, <3>2 DEF EventInv, LoopEffect
  <2>4. CASE Poll(l)
    <3>1. /\ pc[l] = "poll" /\ active' = [active EXCEPT ![l] = Reported(l)]
          /\ revent' = [d \in Clients |-> IF d \in Reported(l)
                                            THEN Revents(d, interest[d]) ELSE revent[d]]
          /\ UNCHANGED interest
      BY <2>4 DEF Poll
    <3>2. \A d \in Reported(l) : /\ d \in Clients /\ LoopOf(d) = l /\ interest[d] # "zero"
      <4> SUFFICES ASSUME NEW d \in Reported(l), interest[d] = "zero" PROVE FALSE
        BY DEF Reported
      <4>1. d \in Clients /\ LoopOf(d) = l
        BY DEF Reported
      <4>2. PICK m \in Loops : pc[m] = "del" /\ cur[m] = d
        BY <4>1 DEF EventInv
      <4> QED
        BY <3>1, <4>1, <4>2 DEF RegInv, LoopInv
    <3>3. \A d \in Reported(l) : revent'[d] = "IN"
      BY <3>1, <3>2 DEF Reported, Revents
    <3>4. \A m \in Loops \ {l} : \A d \in active[m] : d \in Clients /\ d \notin Reported(l)
      BY <1>1, <3>2 DEF RegInv, ActiveInv
    <3> QED
      BY <1>1, <2>1, <3>1, <3>3, <3>4 DEF EventInv, LoopEffect
  <2>5. CASE Dispatch(l)
    <3>1. /\ pc[l] = "dispatch" /\ UNCHANGED <<interest, revent>>
          /\ active'[l] \subseteq active[l]
      BY <1>1, <2>5 DEF Dispatch, kernelVars, channelVars
    <3> QED
      BY <2>1, <3>1 DEF EventInv, LoopEffect
  <2>6. CASE /\ UNCHANGED <<interest, revent, active>>
             /\ pc[l] # "del"
    BY <2>1, <2>6 DEF EventInv, LoopEffect
  <2>7. CASE EpollAdd(l) \/ MarkIn(l)
    BY <2>7 DEF EpollAdd, MarkIn, RegInv, LoopInv, LoopLabels
  <2> QED
    BY <2>2, <2>3, <2>4, <2>5, <2>6, <2>7 DEF LoopStep, HandlerStep, EpollCtl,
       PollAgain, ReadChunk, ReadAgain, ReadEnd, Close, FindConnection,
       DeleteConnection, MarkOut, OnMessage, WriteSome, WriteAgain, WriteError,
       WriteBrokenPipe, kernelVars, channelVars
<1> QED
  BY <1>2, <1>3, <1>4, ClientFrameFact DEF Next

\* The disjuncts of WakeInv's conclusion.
Awake(c) ==
  \/ ready[c]
  \/ c \in active[LoopOf(c)]
  \/ cur[LoopOf(c)] = c /\ pc[LoopOf(c)] = "read"
  \/ pc[LoopOf(c)] = "dead"

Asleep(c) == interest[c] = "inET" /\ state[c] # "Closed" /\ Readable(c)

LEMMA WakeStep ==
  ASSUME TypeOK, RegInv, BuildInv, EventInv, WakeInv, [Next]_vars
  PROVE  WakeInv'
<1> SUFFICES ASSUME NEW c \in Clients, Asleep(c)'
             PROVE  Awake(c)'
  BY Zenon DEF WakeInv, Asleep, Awake
<1>1. Asleep(c) => Awake(c)
  BY Zenon DEF WakeInv, Asleep, Awake
<1>2. Registered(c) => Accepted(c) /\ LoopOf(c) \in Loops
  <2>1. Registered(c) => Accepted(c)
    BY DEF RegInv, UnacceptedInv
  <2>2. Accepted(c) => fd[c] \in Nat
    BY ReactorAssumption, SMT DEF TypeOK, ConnectionTypeOK, Accepted
  <2>3. fd[c] \in Nat => fd[c] % NumLoops \in 0 .. (NumLoops - 1)
    BY ReactorAssumption, SMT
  <2> QED
    BY <2>1, <2>2, <2>3 DEF LoopOf, Loops
<1>3. /\ interest \in [Clients -> {"none", "zero", "in", "inET"}]
      /\ state \in [Clients -> {"Invalid", "Connected", "Closed"}]
      /\ pc \in [Threads -> Labels]
      /\ cur \in [Threads -> Clients \cup {NoClient}]
      /\ active \in [Loops -> SUBSET Clients]
      /\ ready \in [Clients -> BOOLEAN]
      /\ peer \in [Clients -> {"none", "open", "fin", "rst", "broken"}]
      /\ rx \in [Clients -> Seq(Nat)]
  BY DEF TypeOK, KernelTypeOK, ConnectionTypeOK, ThreadTypeOK
\* A step that leaves c's place and its loop's alone.
<1>4. ASSUME UNCHANGED <<fd, active, pc, cur>>, ready'[c] \/ (Asleep(c) /\ ready'[c] = ready[c])
      PROVE  Awake(c)'
  BY <1>1, <1>4 DEF Awake, LoopOf
<1>5. CASE ClientStep
  <2>1. UNCHANGED <<fd, active, pc, cur, interest, state>>
    BY <1>5, ClientFrameFact DEF ClientFrame, connVars, threadVars
  <2>2. interest[c] = "inET" /\ state[c] # "Closed"
    BY <2>1 DEF Asleep
  <2> PICK d \in Clients : ClientConnect(d) \/ ClientSend(d) \/ ClientFin(d) \/ ClientReset(d)
    BY <1>5 DEF ClientStep
  <2>3. CASE d = c /\ ~ClientConnect(d)
    <3>1. ready'[c]
      BY <1>3, <2>2, <2>3 DEF ClientSend, ClientFin, ClientReset, Wake
    <3> QED
      BY <1>4, <2>1, <3>1
  <2>4. CASE d # c \/ ClientConnect(d)
    <3>1. /\ ready'[c] = ready[c] /\ rx'[c] = rx[c]
          /\ peer'[c] = peer[c] \/ (peer[c] = "none" /\ peer'[c] = "open")
      BY <1>3, <2>4 DEF ClientConnect, ClientSend, ClientFin, ClientReset, Wake
    <3>2. Asleep(c)
      BY <2>2, <3>1 DEF Asleep, Readable
    <3> QED
      BY <1>4, <2>1, <3>1, <3>2
  <2> QED
    BY <2>3, <2>4
<1>6. CASE MainStep
  <2> DEFINE m == cur[Main]
  <2>1. /\ pc[Main] \in MainLabels
        /\ pc[Main] \in {"connected"} => state[m] = "Invalid"
        /\ pc[Main] = "add" => listen[m] = "in"
        /\ pc[Main] # "poll" => m \in Clients /\ Accepted(m)
    BY DEF RegInv, MainInv, BuildInv
  <2>2. /\ UNCHANGED <<active, rx, peer>>
        /\ \A l \in Loops : pc'[l] = pc[l] /\ cur'[l] = cur[l]
    BY <1>3, <1>6, ThreadsFact DEF MainStep, AcceptorStep, EpollCtl, Accept,
       UseET, Construct, SetDeleteConnectionCallback, SetOnMessageCallback,
       BeginInsert, EndInsert, EpollAdd, MarkIn, EpollMod, EpollDel,
       UpdateChannel, Goto, Exit, kernelVars
  <2>3. ASSUME Registered(c), fd'[c] = fd[c],
               ready'[c] \/ (Asleep(c) /\ ready'[c] = ready[c])
        PROVE  Awake(c)'
    <3>1. LoopOf(c)' = LoopOf(c) /\ LoopOf(c) \in Loops
      BY <1>2, <2>3 DEF LoopOf
    <3>2. Awake(c) \/ ready'[c]
      BY <1>1, <2>3
    <3> QED
      BY <2>2, <2>3, <3>1, <3>2 DEF Awake
  <2>4. CASE \E d \in Clients : Accept(d)
    <3> PICK d \in Clients : Accept(d)
      BY <2>4
    <3>1. UNCHANGED <<interest, ready, state>> /\ ~Accepted(d)
      BY DEF Accept
    <3>2. Asleep(c) /\ Registered(c)
      BY <2>2, <3>1 DEF Asleep, Readable, Registered
    <3>3. fd'[c] = fd[c]
      BY <1>2, <3>1, <3>2 DEF Accept, Exit, TypeOK, ConnectionTypeOK
    <3> QED
      BY <2>3, <3>1, <3>2, <3>3
  <2>5. CASE EpollAdd(Main) \/ EpollMod(Main)
    <3>1. /\ UNCHANGED <<fd, state>>
          /\ UNCHANGED <<interest, ready>> \/ Register(m)
          /\ interest[m] # "none" \/ listen[m] = "in"
      BY <2>1, <2>5 DEF EpollAdd, EpollMod, connVars, RegInv, MainInv, Registered
    <3>2. CASE c # m \/ UNCHANGED <<interest, ready>>
      <4>1. interest'[c] = interest[c] /\ ready'[c] = ready[c]
        BY <1>3, <3>1, <3>2 DEF Register
      <4>2. Asleep(c) /\ Registered(c)
        BY <2>2, <3>1, <4>1 DEF Asleep, Readable, Registered
      <4> QED
        BY <2>3, <3>1, <4>1, <4>2
    <3>3. CASE c = m /\ Register(m)
      <4>1. listen[c] = "inET" /\ Registered(c)
        BY <1>3, <3>1, <3>3 DEF Register, Asleep, Registered
      <4>2. Readable(c)
        BY <2>2 DEF Asleep, Readable
      <4>3. ready'[c]
        BY <1>3, <3>3, <4>1, <4>2 DEF Register, Revents
      <4> QED
        BY <2>3, <3>1, <4>1, <4>3
    <3> QED
      BY <3>1, <3>2, <3>3
  <2>6. CASE EpollDel(Main)
    BY <2>1, <2>6 DEF EpollDel, MainLabels
  <2>7. CASE Construct
    <3>1. UNCHANGED <<interest, ready, fd>> /\ (state'[c] = state[c] \/ state[c] = "Invalid")
      BY <1>3, <2>1, <2>7 DEF Construct, kernelVars
    <3>2. Asleep(c) /\ Registered(c)
      BY <2>2, <3>1 DEF Asleep, Readable, Registered
    <3> QED
      BY <2>3, <3>1, <3>2
  <2>8. CASE UNCHANGED <<interest, ready, fd, state>>
    <3>1. Asleep(c) /\ Registered(c)
      BY <2>2, <2>8 DEF Asleep, Readable, Registered
    <3> QED
      BY <2>3, <2>8, <3>1
  <2> QED
    BY <1>6, <2>4, <2>5, <2>6, <2>7, <2>8 DEF MainStep, AcceptorStep, EpollCtl,
       MarkIn, UseET, SetDeleteConnectionCallback, SetOnMessageCallback,
       BeginInsert, EndInsert, kernelVars, connVars
<1>7. CASE \E l \in Loops : LoopStep(l)
  <2> PICK l \in Loops : LoopStep(l)
    BY <1>7
  <2> DEFINE d == cur[l]
  <2>1. LoopEffect(l)
    BY LoopEffectFact
  <2>2. UNCHANGED <<fd, peer>> /\ (state[c] = "Closed" => state'[c] = "Closed")
    BY <2>1 DEF LoopEffect, LoopStep, HandlerStep, EpollCtl, Poll, PollAgain,
       Dispatch, ReadChunk, ReadAgain, ReadEnd, Close, FindConnection,
       DeleteConnection, MarkOut, OnMessage, WriteSome, WriteAgain, WriteError,
       WriteBrokenPipe, EpollAdd, MarkIn, EpollMod, EpollDel, kernelVars
  <2>3. state[c] # "Closed"
    BY <2>2 DEF Asleep
  <2>4. pc[l] \notin Idle => d \in Clients /\ LoopOf(d) = l
    BY DEF RegInv, LoopInv, Idle
  <2>5. pc[l] # "dead"
    BY DEF LoopStep, HandlerStep, EpollCtl, Poll, PollAgain, Dispatch, ReadChunk,
       ReadAgain, ReadEnd, Close, FindConnection, DeleteConnection, MarkOut,
       OnMessage, WriteSome, WriteAgain, WriteError, WriteBrokenPipe, EpollAdd,
       MarkIn, EpollMod, EpollDel
  \* The loop is not the channel's own, or is busy with something else.
  <2>6. ASSUME Asleep(c), ready'[c] = ready[c], LoopOf(c) = l => active'[l] = active[l],
               LoopOf(c) = l => ~(pc[l] = "read" /\ d = c)
        PROVE  Awake(c)'
    <3>1. LoopOf(c)' = LoopOf(c) /\ LoopOf(c) \in Loops /\ Awake(c)
      BY <1>1, <1>2, <2>2, <2>6 DEF LoopOf, Asleep, Registered
    <3>2. CASE LoopOf(c) = l
      BY <2>5, <2>6, <3>1, <3>2 DEF Awake
    <3>3. CASE LoopOf(c) # l
      BY <2>1, <2>6, <3>1, <3>3 DEF Awake, LoopEffect
    <3> QED
      BY <3>2, <3>3
  <2>7. CASE Poll(l)
    <3>1. /\ UNCHANGED <<interest, rx>> /\ pc[l] = "poll"
          /\ active'[l] = Reported(l)
          /\ ready'[c] = (ready[c] /\ (c \in Reported(l) => interest[c] # "inET"))
      BY <1>3, <2>7 DEF Poll
    <3>2. Asleep(c)
      BY <2>2, <2>3, <3>1 DEF Asleep, Readable
    <3>3. c \in Reported(l) => Awake(c)'
      BY <2>2, <3>1 DEF Reported, Awake, LoopOf
    <3>4. CASE c \notin Reported(l)
      <4>1. ready'[c] = ready[c]
        BY <1>3, <3>1, <3>4
      <4>2. active[l] = {}
        BY <3>1 DEF RegInv, LoopInv
      <4>3. LoopOf(c) # l
        <5>1. LoopOf(c) = l => ready[c]
          BY <1>1, <3>1, <3>2, <4>2 DEF Awake
        <5> QED
          BY <1>2, <3>2, <3>4, <5>1 DEF Reported, Revents, Asleep, Registered
      <4> QED
        BY <2>6, <3>2, <4>1, <4>3
    <3> QED
      BY <3>3, <3>4
  <2>8. CASE Dispatch(l)
    <3>1. PICK e \in active[l], k \in {"read", "close", "message", "dead", "dispatch"} :
            DispatchOf(l, e, k)
      BY <2>8, DispatchFact
    <3>2. UNCHANGED <<interest, rx, ready, state>> /\ pc[l] = "dispatch"
      BY <2>8 DEF Dispatch, kernelVars
    <3>3. Asleep(c)
      BY <2>2, <3>2 DEF Asleep, Readable
    <3>4. /\ active'[l] = active[l] \ {e} /\ cur'[l] = e /\ pc'[l] = k
          /\ LoopOf(c)' = LoopOf(c) /\ revent[e] = "IN"
          /\ e \in Clients /\ LoopOf(e) = l
      BY <1>3, <2>2, <3>1, ThreadsFact DEF DispatchOf, Goto, LoopOf, EventInv,
         RegInv, ActiveInv
    <3>5. CASE e = c
      <4>1. hasRead[c] => state[c] = "Connected"
        BY <1>3, <2>3 DEF BuildInv
      <4>2. k \in {"read", "dead"}
        BY <3>1, <3>4, <3>5, <4>1 DEF DispatchOf
      <4> QED
        BY <3>4, <3>5, <4>2 DEF Awake
    <3>6. CASE e # c
      <4>1. Awake(c) /\ LoopOf(c) \in Loops
        BY <1>1, <1>2, <3>3 DEF Asleep, Registered
      <4>2. CASE LoopOf(c) = l
        BY <2>5, <3>2, <3>4, <3>6, <4>1, <4>2 DEF Awake
      <4>3. CASE LoopOf(c) # l
        BY <2>1, <3>2, <3>4, <4>1, <4>3 DEF Awake, LoopEffect
      <4> QED
        BY <4>2, <4>3
    <3> QED
      BY <3>5, <3>6
  <2>9. CASE ReadChunk(l)
    <3>1. /\ UNCHANGED <<interest, ready, state, active, cur>>
          /\ pc[l] = "read" /\ pc'[l] = "read"
          /\ \A e \in Clients \ {d} : rx'[e] = rx[e]
      BY <1>3, <2>9, ThreadsFact DEF ReadChunk, AfterChunk, Goto
    <3>2. CASE c = d
      BY <2>2, <2>4, <3>1, <3>2 DEF Awake, LoopOf, Idle
    <3>3. CASE c # d
      <4>1. Asleep(c)
        BY <2>2, <3>1, <3>3 DEF Asleep, Readable
      <4> QED
        BY <2>6, <3>1, <3>3, <4>1
    <3> QED
      BY <3>2, <3>3
  <2>10. CASE ReadAgain(l)
    <3>1. /\ UNCHANGED <<interest, rx, ready, state, active>> /\ ~Readable(d)
      BY <2>10 DEF ReadAgain, kernelVars, connVars
    <3>2. Asleep(c) /\ c # d
      BY <2>2, <3>1 DEF Asleep, Readable
    <3> QED
      BY <2>6, <3>1, <3>2
  <2>11. CASE ReadEnd(l)
    <3>1. /\ UNCHANGED <<interest, rx, ready, active>> /\ pc[l] = "read"
          /\ state' = [state EXCEPT ![d] = "Closed"]
      BY <2>11 DEF ReadEnd, kernelVars
    <3>2. Asleep(c) /\ c # d
      BY <1>3, <2>2, <2>3, <3>1 DEF Asleep, Readable
    <3> QED
      BY <2>6, <3>1, <3>2
  <2>12. CASE EpollMod(l)
    <3>1. pc[l] = "mod" /\ state[d] = "Closed" /\ UNCHANGED <<rx, active>>
      BY <2>12 DEF EpollMod, BuildInv
    <3>2. interest'[c] = interest[c] /\ ready'[c] = ready[c]
      BY <1>3, <2>3, <2>12, <3>1 DEF EpollMod, Register
    <3>3. Asleep(c)
      BY <2>2, <2>3, <3>1, <3>2 DEF Asleep, Readable
    <3> QED
      BY <2>6, <3>1, <3>2, <3>3
  <2>13. CASE EpollDel(l)
    <3>1. pc[l] = "del" /\ UNCHANGED <<rx, active>>
      BY <2>13 DEF EpollDel
    <3>2. interest'[c] = interest[c] /\ ready'[c] = ready[c]
      BY <1>3, <2>13 DEF EpollDel, Asleep
    <3>3. Asleep(c)
      BY <2>2, <2>3, <3>1, <3>2 DEF Asleep, Readable
    <3> QED
      BY <2>6, <3>1, <3>2, <3>3
  <2>14. CASE EpollAdd(l) \/ MarkIn(l)
    BY <2>14 DEF EpollAdd, MarkIn, RegInv, LoopInv, LoopLabels
  <2>15. CASE UNCHANGED <<interest, rx, ready, active>> /\ pc[l] # "read"
    <3>1. Asleep(c)
      BY <2>2, <2>3, <2>15 DEF Asleep, Readable
    <3> QED
      BY <2>6, <2>15, <3>1
  <2> QED
    BY <2>7, <2>8, <2>9, <2>10, <2>11, <2>12, <2>13, <2>14, <2>15
       DEF LoopStep, HandlerStep, EpollCtl, PollAgain, Close, FindConnection,
           DeleteConnection, MarkOut, OnMessage, WriteSome, WriteAgain,
           WriteError, WriteBrokenPipe, kernelVars, UpdateChannel
<1>8. CASE UNCHANGED vars
  <2>1. UNCHANGED <<fd, active, pc, cur, ready>> /\ Asleep(c)
    BY <1>8 DEF vars, kernelVars, connVars, threadVars, Asleep, Readable
  <2> QED
    BY <1>4, <2>1
<1> QED
  BY <1>5, <1>6, <1>7, <1>8 DEF Next

----------------------------------------------------------------------------
(* The theorems *)

LEMMA InitInv == Init => IInv
<1> SUFFICES ASSUME Init PROVE IInv
  OBVIOUS
<1>1. TypeOK
  BY InitType
<1>2. /\ \A c \in Clients : /\ fd[c] = NoFd /\ interest[c] = "none"
                            /\ ~inEpoll[c] /\ ~hasRead[c] /\ state[c] = "Invalid"
      /\ connections = {} /\ exited = "no"
      /\ \A t \in Threads : pc[t] = "poll"
      /\ \A l \in Loops : active[l] = {}
  BY DEF Init
<1>3. RegInv
  BY <1>2, ThreadsFact DEF RegInv, UnacceptedInv, MainInv, LoopInv, ActiveInv,
     FlagInv, NoExitInv, MainLabels, LoopLabels, Accepted, Registered
<1>4. CallbackInv /\ BuildInv /\ EventInv /\ WakeInv
  BY <1>2, ThreadsFact DEF CallbackInv, BuildInv, EventInv, WakeInv, Accepted
<1> QED
  BY <1>1, <1>3, <1>4 DEF IInv

LEMMA RegStep ==
  ASSUME TypeOK, RegInv, [Next]_vars
  PROVE  RegInv'
<1>1. CASE ClientFrame
  BY <1>1, RegSame DEF ClientFrame, connVars, channelVars, threadVars, RegInv,
     NoExitInv
<1>2. CASE MainStep
  BY <1>2, RegMain DEF MainStep
<1>3. CASE \E l \in Loops : LoopStep(l)
  <2> PICK l \in Loops : LoopStep(l)
    BY <1>3
  <2>1. ~(EpollAdd(l) \/ MarkIn(l))
    BY DEF EpollAdd, MarkIn, RegInv, LoopInv, LoopLabels
  <2> QED
    BY <2>1, RegServe, RegDelete, RegPoll, RegDispatch
       DEF LoopStep, HandlerStep, EpollCtl
<1> QED
  BY <1>1, <1>2, <1>3, ClientFrameFact DEF Next

LEMMA InvStep == IInv /\ [Next]_vars => IInv'
BY TypeStep, RegStep, CallbackStep, BuildStep, EventStep, WakeStep DEF IInv

\* The inductive invariant of the reactor.
THEOREM Invariant == Spec => []IInv
<1> QED
  BY InitInv, InvStep, PTL DEF Spec

\* No epoll_ctl ever fails, for any number of clients, loops and chunks.
THEOREM EpollNeverFails == Spec => []NoEpollError
<1>1. IInv => NoEpollError
  BY DEF IInv, RegInv, NoExitInv, NoEpollError
<1> QED
  BY <1>1, Invariant, PTL

\* in_epoll_ mirrors the registration outside the two steps that change both.
THEOREM FlagMirrorsEpoll == Spec => []FlagAgrees
<1>1. IInv => FlagAgrees
  BY ThreadsFact DEF IInv, RegInv, FlagInv, FlagAgrees, Registered
<1> QED
  BY <1>1, Invariant, PTL

\* Loop never handles an event of a channel that has been deleted.
THEOREM EventsAreFresh == Spec => []NoStaleEvent
<1>1. IInv => NoStaleEvent
  BY DEF IInv, RegInv, ActiveInv, NoStaleEvent, Registered
<1> QED
  BY <1>1, Invariant, PTL

\* Edge triggering loses no wake-up.
THEOREM WakeupsAreKept == Spec => []NoLostWakeup
<1>1. IInv => NoLostWakeup
  BY Zenon DEF IInv, WakeInv, NoLostWakeup
<1> QED
  BY <1>1, Invariant, PTL

\* Only a connection that Main is still constructing can end a loop's thread.
THEOREM LoopsDieInConstruction == Spec => LoopDiesOnlyInConstruction
<1> DEFINE pcs == {"mark_in", "use_et", "mod", "connected", "set_delete",
                   "set_message"}
           Dies(l) == pc[l] # "dead" /\ pc'[l] = "dead"
           Excused(l) == cur'[l] = cur[Main] /\ pc[Main] \in pcs
<1>1. ASSUME IInv, [Next]_vars, NEW l \in Loops, Dies(l)
      PROVE  Excused(l)
  <2>1. /\ pc \in [Threads -> Labels] /\ cur \in [Threads -> Clients \cup {NoClient}]
        /\ active \in [Loops -> SUBSET Clients]
        /\ l \in Threads /\ l # Main /\ Main \in Threads
    BY <1>1, ThreadsFact DEF IInv, TypeOK, ThreadTypeOK
  <2>2. ASSUME NEW c \in Clients, Registered(c), ~hasRead[c] \/ ~hasDelete[c]
        PROVE  cur[Main] = c /\ pc[Main] \in pcs
    <3>1. Accepted(c)
      BY <1>1, <2>2 DEF IInv, RegInv, UnacceptedInv
    <3>2. /\ cur[Main] = c
          /\ pc[Main] \in {"add", "mark_in", "use_et", "mod", "connected",
                           "set_delete", "set_message"}
      BY <1>1, <2>2, <3>1 DEF IInv, CallbackInv
    <3>3. pc[Main] # "add"
      BY <1>1, <2>2, <3>2 DEF IInv, RegInv, MainInv
    <3> QED
      BY <3>2, <3>3
  <2>3. LoopStep(l)
    <3>1. CASE ClientFrame
      BY <1>1, <3>1 DEF ClientFrame, threadVars
    <3>2. CASE MainStep
      BY <1>1, <2>1, <3>2 DEF MainStep, AcceptorStep, EpollCtl, Accept, UseET,
         Construct, SetDeleteConnectionCallback, SetOnMessageCallback, BeginInsert,
         EndInsert, EpollAdd, MarkIn, EpollMod, EpollDel, UpdateChannel, Goto, Exit
    <3>3. ASSUME NEW m \in Loops, LoopStep(m), m # l
          PROVE  FALSE
      BY <1>1, <3>3, LoopEffectFact DEF IInv, LoopEffect
    <3> QED
      BY <1>1, <3>1, <3>2, <3>3, ClientFrameFact DEF Next
  <2>4. CASE Dispatch(l)
    <3>1. PICK c \in active[l], k \in {"read", "close", "message", "dead", "dispatch"} :
            DispatchOf(l, c, k)
      BY <2>4, DispatchFact
    <3>2. c \in Clients /\ Registered(c) /\ ~hasRead[c] /\ cur'[l] = c
      BY <1>1, <2>1, <3>1 DEF DispatchOf, Goto, IInv, RegInv, ActiveInv
    <3> QED
      BY <2>2, <3>2
  <2>5. CASE Close(l)
    <3>1. cur[l] \in Clients /\ Registered(cur[l]) /\ ~hasDelete[cur[l]] /\ cur' = cur
      BY <1>1, <2>1, <2>5 DEF Close, Goto, IInv, RegInv, LoopInv
    <3> QED
      BY <2>2, <3>1
  <2>6. CASE ~Dispatch(l) /\ ~Close(l)
    <3>1. /\ pc[l] = "mark_in" => FALSE
          /\ pc[l] = "mod" => ret[l] = "del"
      BY <1>1 DEF IInv, RegInv, LoopInv, LoopLabels
    <3> QED
      BY <1>1, <2>1, <2>3, <2>6, <3>1 DEF LoopStep, HandlerStep, EpollCtl, Poll,
         PollAgain, ReadChunk, AfterChunk, ReadAgain, ReadEnd, FindConnection,
         AfterClose, DeleteConnection, UpdateChannel, MarkOut, OnMessage, WriteSome,
         WriteAgain, WriteError, WriteBrokenPipe, EpollAdd, AfterAdd, MarkIn,
         EpollMod, EpollDel, Goto, Exit
  <2> QED
    BY <2>4, <2>5, <2>6
<1>2. IInv /\ [Next]_vars =>
        [\A l \in Loops :
           pc[l] # "dead" /\ pc'[l] = "dead" =>
             /\ cur'[l] = cur[Main]
             /\ pc[Main] \in {"mark_in", "use_et", "mod", "connected",
                              "set_delete", "set_message"}]_vars
  BY <1>1
<1> QED
  BY <1>2, Invariant, PTL DEF Spec, LoopDiesOnlyInConstruction

----------------------------------------------------------------------------
(* The order of the echo *)

Rising(s) == \A i, j \in 1 .. Len(s) : i < j => s[i] < s[j]

Before(s, t) == \A i \in 1 .. Len(s), j \in 1 .. Len(t) : s[i] < t[j]

Within(s, n) == \A i \in 1 .. Len(s) : s[i] \in 1 .. n

\* Chunks that are written, to be written, read and to be read, of n sent.
Chain(o, s, b, r, n) ==
  /\ Rising(o) /\ Rising(s) /\ Rising(b) /\ Rising(r)
  /\ Within(o, n) /\ Within(s, n) /\ Within(b, n) /\ Within(r, n)
  /\ Before(o, s) /\ Before(o, r) /\ Before(s, r) /\ Before(b, r)

ChainInv ==
  \A c \in Clients : Chain(out[c], sendBuf[c], readBuf[c], rx[c], sent[c])

\* What Read leaves for the echo has not been written before.
FreshInv ==
  \A l \in Loops :
    pc[l] = "read" \/ (pc[l] = "message" /\ state[cur[l]] = "Connected") =>
      Before(out[cur[l]], readBuf[cur[l]])

\* From Close() on the connection is Closed.
ClosedInv ==
  \A l \in Loops :
    pc[l] \in {"find", "delete", "mod", "del", "mark_out"} =>
      state[cur[l]] = "Closed"

OrderInv == ChainInv /\ FreshInv /\ ClosedInv

\* The empty sequence is in every order.
LEMMA EmptyFact ==
  /\ Len(<<>>) = 0 /\ Rising(<<>>)
  /\ \A s : Before(s, <<>>) /\ Before(<<>>, s)
  /\ \A n : Within(<<>>, n)
BY DEF Rising, Before, Within

\* One number more, behind the others.
LEMMA OneMore ==
  ASSUME NEW s \in Seq(Nat), NEW x \in Nat
  PROVE  /\ Append(s, x) \in Seq(Nat)
         /\ Rising(s) /\ (\A i \in 1 .. Len(s) : s[i] < x) => Rising(Append(s, x))
         /\ \A n \in Nat : Within(s, n) /\ x \in 1 .. n => Within(Append(s, x), n)
         /\ \A t \in Seq(Nat) :
              Before(t, s) /\ (\A i \in 1 .. Len(t) : t[i] < x)
                => Before(t, Append(s, x))
         /\ \A t \in Seq(Nat) :
              Before(s, t) /\ (\A i \in 1 .. Len(t) : x < t[i])
                => Before(Append(s, x), t)
<1> DEFINE p == Append(s, x)
<1>1. /\ p \in Seq(Nat) /\ Len(s) \in Nat /\ Len(p) = Len(s) + 1
      /\ p[Len(s) + 1] = x /\ \A i \in 1 .. Len(s) : p[i] = s[i]
  BY AppendProperties
<1> HIDE DEF p
<1>2. \A i \in 1 .. Len(p) : \/ i \in 1 .. Len(s) /\ p[i] = s[i]
                             \/ i = Len(s) + 1 /\ p[i] = x
  BY <1>1
<1>3. ASSUME Rising(s), \A i \in 1 .. Len(s) : s[i] < x PROVE Rising(p)
  <2> SUFFICES ASSUME NEW i \in 1 .. Len(p), NEW j \in 1 .. Len(p), i < j
               PROVE  p[i] < p[j]
    BY DEF Rising
  <2>1. i \in 1 .. Len(s) /\ p[i] = s[i]
    BY <1>1, <1>2
  <2>2. CASE j \in 1 .. Len(s) /\ p[j] = s[j]
    BY <1>3, <2>1, <2>2 DEF Rising
  <2>3. CASE p[j] = x
    BY <1>3, <2>1, <2>3
  <2> QED
    BY <1>2, <2>2, <2>3
<1>4. ASSUME NEW n \in Nat, Within(s, n), x \in 1 .. n PROVE Within(p, n)
  BY <1>2, <1>4 DEF Within
<1>5. ASSUME NEW t \in Seq(Nat), Before(t, s), \A i \in 1 .. Len(t) : t[i] < x
      PROVE  Before(t, p)
  <2> SUFFICES ASSUME NEW i \in 1 .. Len(t), NEW j \in 1 .. Len(p)
               PROVE  t[i] < p[j]
    BY DEF Before
  <2>1. CASE j \in 1 .. Len(s) /\ p[j] = s[j]
    BY <1>5, <2>1 DEF Before
  <2>2. CASE p[j] = x
    BY <1>5, <2>2
  <2> QED
    BY <1>2, <2>1, <2>2
<1>6. ASSUME NEW t \in Seq(Nat), Before(s, t), \A i \in 1 .. Len(t) : x < t[i]
      PROVE  Before(p, t)
  <2> SUFFICES ASSUME NEW i \in 1 .. Len(p), NEW j \in 1 .. Len(t)
               PROVE  p[i] < t[j]
    BY DEF Before
  <2>1. CASE i \in 1 .. Len(s) /\ p[i] = s[i]
    BY <1>6, <2>1 DEF Before
  <2>2. CASE p[i] = x
    BY <1>6, <2>2
  <2> QED
    BY <1>2, <2>1, <2>2
<1> QED
  BY <1>1, <1>3, <1>4, <1>5, <1>6 DEF p

\* A piece of a sequence.
LEMMA Piece ==
  ASSUME NEW s \in Seq(Nat), NEW q \in Seq(Nat), NEW k \in Nat,
         \A i \in 1 .. Len(q) : i + k \in 1 .. Len(s) /\ q[i] = s[i + k]
  PROVE  /\ Rising(s) => Rising(q)
         /\ \A n : Within(s, n) => Within(q, n)
         /\ \A t : Before(t, s) => Before(t, q)
         /\ \A t : Before(s, t) => Before(q, t)
<1>1. ASSUME Rising(s) PROVE Rising(q)
  <2> SUFFICES ASSUME NEW i \in 1 .. Len(q), NEW j \in 1 .. Len(q), i < j
               PROVE  q[i] < q[j]
    BY DEF Rising
  <2>1. i + k \in 1 .. Len(s) /\ j + k \in 1 .. Len(s)
    OBVIOUS
  <2>2. i + k < j + k
    OBVIOUS
  <2>3. s[i + k] < s[j + k]
    BY <1>1, <2>1, <2>2 DEF Rising
  <2> QED
    BY <2>3
<1>2. ASSUME NEW n, Within(s, n) PROVE Within(q, n)
  BY <1>2, Zenon DEF Within
<1>3. ASSUME NEW t, Before(t, s) PROVE Before(t, q)
  <2> SUFFICES ASSUME NEW i \in 1 .. Len(t), NEW j \in 1 .. Len(q)
               PROVE  t[i] < q[j]
    BY DEF Before
  <2>1. j + k \in 1 .. Len(s) /\ q[j] = s[j + k]
    OBVIOUS
  <2>2. t[i] < s[j + k]
    BY <1>3, <2>1, Zenon DEF Before
  <2> QED
    BY <2>1, <2>2
<1>4. ASSUME NEW t, Before(s, t) PROVE Before(q, t)
  <2> SUFFICES ASSUME NEW i \in 1 .. Len(q), NEW j \in 1 .. Len(t)
               PROVE  q[i] < t[j]
    BY DEF Before
  <2>1. i + k \in 1 .. Len(s) /\ q[i] = s[i + k]
    OBVIOUS
  <2>2. s[i + k] < t[j]
    BY <1>4, <2>1, Zenon DEF Before
  <2> QED
    BY <2>1, <2>2
<1> QED
  BY <1>1, <1>2, <1>3, <1>4, Zenon

\* Two sequences one after the other.
LEMMA Both ==
  ASSUME NEW s \in Seq(Nat), NEW t \in Seq(Nat)
  PROVE  /\ Rising(s) /\ Rising(t) /\ Before(s, t) => Rising(s \o t)
         /\ \A n : Within(s, n) /\ Within(t, n) => Within(s \o t, n)
         /\ \A r : Before(s, r) /\ Before(t, r) => Before(s \o t, r)
<1> DEFINE u == s \o t
<1>1. /\ Len(s) \in Nat /\ Len(t) \in Nat /\ Len(u) = Len(s) + Len(t)
      /\ \A i \in 1 .. Len(s) + Len(t) :
           u[i] = IF i <= Len(s) THEN s[i] ELSE t[i - Len(s)]
  BY ConcatProperties
<1> HIDE DEF u
<1>2. ASSUME NEW i \in 1 .. Len(u)
      PROVE  \/ i \in 1 .. Len(s) /\ u[i] = s[i]
             \/ i > Len(s) /\ i - Len(s) \in 1 .. Len(t) /\ u[i] = t[i - Len(s)]
  BY <1>1
<1>3. ASSUME Rising(s), Rising(t), Before(s, t) PROVE Rising(u)
  <2> SUFFICES ASSUME NEW i \in 1 .. Len(u), NEW j \in 1 .. Len(u), i < j
               PROVE  u[i] < u[j]
    BY DEF Rising
  <2>1. CASE j \in 1 .. Len(s) /\ u[j] = s[j]
    <3>1. i \in 1 .. Len(s) /\ u[i] = s[i]
      BY <1>1, <1>2, <2>1
    <3> QED
      BY <1>3, <2>1, <3>1 DEF Rising
  <2>2. CASE j > Len(s) /\ j - Len(s) \in 1 .. Len(t) /\ u[j] = t[j - Len(s)]
    <3>1. CASE i \in 1 .. Len(s) /\ u[i] = s[i]
      <4>1. s[i] < t[j - Len(s)]
        BY <1>3, <2>2, <3>1, Zenon DEF Before
      <4> QED
        BY <2>2, <3>1, <4>1
    <3>2. CASE i > Len(s) /\ i - Len(s) \in 1 .. Len(t) /\ u[i] = t[i - Len(s)]
      <4>1. i - Len(s) < j - Len(s)
        BY <1>1
      <4>2. t[i - Len(s)] < t[j - Len(s)]
        BY <1>3, <2>2, <3>2, <4>1, Zenon DEF Rising
      <4> QED
        BY <2>2, <3>2, <4>2
    <3> QED
      BY <1>2, <3>1, <3>2
  <2> QED
    BY <1>2, <2>1, <2>2
<1>4. ASSUME NEW n, Within(s, n), Within(t, n) PROVE Within(u, n)
  <2> SUFFICES ASSUME NEW i \in 1 .. Len(u) PROVE u[i] \in 1 .. n
    BY DEF Within
  <2> QED
    BY <1>2, <1>4, Zenon DEF Within
<1>5. ASSUME NEW r, Before(s, r), Before(t, r) PROVE Before(u, r)
  <2> SUFFICES ASSUME NEW i \in 1 .. Len(u), NEW j \in 1 .. Len(r)
               PROVE  u[i] < r[j]
    BY DEF Before
  <2>1. CASE i \in 1 .. Len(s) /\ u[i] = s[i]
    BY <1>5, <2>1 DEF Before
  <2>2. CASE i > Len(s) /\ i - Len(s) \in 1 .. Len(t) /\ u[i] = t[i - Len(s)]
    <3>1. t[i - Len(s)] < r[j]
      BY <1>5, <2>2, Zenon DEF Before
    <3> QED
      BY <2>2, <3>1
  <2> QED
    BY <1>2, <2>1, <2>2
<1> QED
  BY <1>3, <1>4, <1>5 DEF u

\* The client sends.
LEMMA ChainSend ==
  ASSUME NEW o \in Seq(Nat), NEW s \in Seq(Nat), NEW b \in Seq(Nat),
         NEW r \in Seq(Nat), NEW n \in Nat, Chain(o, s, b, r, n)
  PROVE  Chain(o, s, b, Append(r, n + 1), n + 1)
<1> DEFINE m == n + 1
<1>m. m \in Nat /\ m \in 1 .. m /\ n < m
  OBVIOUS
<1> HIDE DEF m
<1>1. ASSUME NEW t \in Seq(Nat), Within(t, n)
      PROVE  /\ Within(t, m)
             /\ Before(t, r) => Before(t, Append(r, m))
  <2>1. Within(t, m) /\ \A i \in 1 .. Len(t) : t[i] < m
    BY <1>m, <1>1 DEF Within
  <2> QED
    BY <1>m, <2>1, OneMore
<1>2. Rising(Append(r, m)) /\ Within(Append(r, m), m)
  <2>1. \A i \in 1 .. Len(r) : r[i] < m
    BY <1>m DEF Chain, Within
  <2>2. Within(r, m)
    BY <1>1 DEF Chain
  <2> QED
    BY <1>m, <2>1, <2>2, OneMore DEF Chain
<1>3. Chain(o, s, b, Append(r, m), m)
  BY <1>1, <1>2 DEF Chain
<1> QED
  BY <1>3 DEF m

\* A read() moves the oldest chunk to the read buffer.
LEMMA ChainRead ==
  ASSUME NEW o \in Seq(Nat), NEW s \in Seq(Nat), NEW b \in Seq(Nat),
         NEW r \in Seq(Nat), NEW n \in Nat, Chain(o, s, b, r, n), r # <<>>
  PROVE  /\ Chain(o, s, Append(b, Head(r)), Tail(r), n)
         /\ Before(o, b) => Before(o, Append(b, Head(r)))
<1> DEFINE x == Head(r)
           q == Tail(r)
<1>1. /\ Len(r) \in Nat \ {0} /\ x = r[1] /\ x \in Nat
      /\ Len(q) = Len(r) - 1 /\ q \in Seq(Nat)
      /\ \A i \in 1 .. Len(q) : q[i] = r[i + 1]
  BY EmptySeq, HeadTailProperties
<1> HIDE DEF x, q
<1>2. \A i \in 1 .. Len(q) : i + 1 \in 1 .. Len(r) /\ q[i] = r[i + 1]
  BY <1>1
<1>3. /\ Rising(q) /\ Within(q, n)
      /\ Before(o, q) /\ Before(s, q) /\ Before(b, q)
  BY <1>1, <1>2, Piece DEF Chain
<1>4. 1 \in 1 .. Len(r) /\ x \in 1 .. n
  BY <1>1 DEF Chain, Within
<1>5. \A j \in 1 .. Len(q) : x < q[j]
  <2> SUFFICES ASSUME NEW j \in 1 .. Len(q) PROVE x < q[j]
    OBVIOUS
  <2>1. j + 1 \in 1 .. Len(r) /\ 1 < j + 1
    BY <1>1
  <2>2. r[1] < r[j + 1]
    BY <1>4, <2>1, Zenon DEF Chain, Rising
  <2> QED
    BY <1>1, <2>2
<1>6. \A t : Before(t, r) => \A i \in 1 .. Len(t) : t[i] < x
  BY <1>1, <1>4 DEF Before
<1>7. /\ Rising(Append(b, x)) /\ Within(Append(b, x), n)
      /\ Before(Append(b, x), q)
  BY <1>1, <1>3, <1>4, <1>5, <1>6, OneMore DEF Chain
<1>8. Before(o, b) => Before(o, Append(b, x))
  BY <1>1, <1>6, OneMore DEF Chain
<1> QED
  BY <1>3, <1>7, <1>8 DEF Chain, x, q

\* The application echoes what was read, which is later than what was written.
LEMMA ChainEcho ==
  ASSUME NEW o, NEW s, NEW b, NEW r, NEW n, Chain(o, s, b, r, n), Before(o, b)
  PROVE  Chain(o, b, b, r, n)
BY DEF Chain

\* The read buffer is cleared, or what is left of a write is dropped.
LEMMA ChainClear ==
  ASSUME NEW o, NEW s, NEW b, NEW r, NEW n, Chain(o, s, b, r, n)
  PROVE  Chain(o, s, <<>>, r, n) /\ Chain(o, <<>>, b, r, n)
BY EmptyFact DEF Chain

\* The kernel takes some of what is to be written.
LEMMA ChainWrite ==
  ASSUME NEW o \in Seq(Nat), NEW s \in Seq(Nat), NEW b \in Seq(Nat),
         NEW r \in Seq(Nat), NEW n \in Nat, Chain(o, s, b, r, n),
         NEW k \in 1 .. Len(s)
  PROVE  Chain(o \o SubSeq(s, 1, k), SubSeq(s, k + 1, Len(s)), b, r, n)
<1> DEFINE p == SubSeq(s, 1, k)
           q == SubSeq(s, k + 1, Len(s))
<1>1. Len(s) \in Nat /\ k \in Nat \ {0} /\ k <= Len(s)
  OBVIOUS
<1>2. p \in Seq(Nat) /\ \A i \in 1 .. Len(p) : i + 0 \in 1 .. Len(s) /\ p[i] = s[i + 0]
  <2>1. \A i \in 1 .. k : s[i] \in Nat
    BY <1>1
  <2>2. /\ p \in Seq(Nat) /\ Len(p) = IF 1 <= k THEN k - 1 + 1 ELSE 0
        /\ \A i \in 1 .. k - 1 + 1 : p[i] = s[1 + i - 1]
    BY <1>1, <2>1, SubSeqProperties
  <2> HIDE DEF p
  <2> QED
    BY <1>1, <2>2
<1>3. q \in Seq(Nat) /\ \A i \in 1 .. Len(q) : i + k \in 1 .. Len(s) /\ q[i] = s[i + k]
  <2>1. \A i \in (k + 1) .. Len(s) : s[i] \in Nat
    BY <1>1
  <2>2. /\ q \in Seq(Nat)
        /\ Len(q) = IF k + 1 <= Len(s) THEN Len(s) - (k + 1) + 1 ELSE 0
        /\ \A i \in 1 .. Len(s) - (k + 1) + 1 : q[i] = s[k + 1 + i - 1]
    BY <1>1, <2>1, SubSeqProperties
  <2> HIDE DEF q
  <2>3. Len(q) = Len(s) - k /\ Len(s) - (k + 1) + 1 = Len(s) - k
    BY <1>1, <2>2
  <2>4. ASSUME NEW i \in 1 .. Len(q) PROVE i + k \in 1 .. Len(s) /\ q[i] = s[i + k]
    <3>1. k + 1 + i - 1 = i + k /\ i \in 1 .. Len(s) - (k + 1) + 1
      BY <1>1, <2>3
    <3> QED
      BY <1>1, <2>2, <2>3, <3>1
  <2> QED
    BY <2>2, <2>4
<1> HIDE DEF p, q
<1>4. Rising(p) /\ Within(p, n) /\ Before(o, p) /\ Before(p, r)
  BY <1>2, Piece DEF Chain
<1>5. Rising(q) /\ Within(q, n) /\ Before(o, q) /\ Before(q, r)
  BY <1>1, <1>3, Piece DEF Chain
<1>6. Before(p, q)
  <2> SUFFICES ASSUME NEW i \in 1 .. Len(p), NEW j \in 1 .. Len(q)
               PROVE  p[i] < q[j]
    BY DEF Before
  <2>1. i <= k
    <3>1. Len(p) = k
      BY <1>1, SubSeqProperties DEF p
    <3> QED
      BY <1>1, <3>1
  <2>2. i \in 1 .. Len(s) /\ p[i] = s[i] /\ i + 0 = i
    BY <1>2
  <2>3. j + k \in 1 .. Len(s) /\ q[j] = s[j + k] /\ i < j + k
    BY <1>1, <1>3, <2>1
  <2>4. s[i] < s[j + k]
    BY <2>2, <2>3, Zenon DEF Chain, Rising
  <2> QED
    BY <2>2, <2>3, <2>4
<1>7. Rising(o \o p) /\ Within(o \o p, n) /\ Before(o \o p, q) /\ Before(o \o p, r)
  BY <1>2, <1>4, <1>5, <1>6, Both DEF Chain
<1> QED
  BY <1>5, <1>7 DEF Chain, p, q

\* One connection changes, and only its own loop has it in hand.
LEMMA OrderFrame ==
  ASSUME TypeOK, RegInv, OrderInv, NEW l \in Loops, LoopEffect(l),
         NEW d \in Clients, LoopOf(d) = l,
         \A c \in Clients :
           c # d => /\ out'[c] = out[c] /\ sendBuf'[c] = sendBuf[c]
                    /\ readBuf'[c] = readBuf[c] /\ rx'[c] = rx[c],
         sent' = sent,
         Chain(out[d], sendBuf[d], readBuf[d], rx[d], sent[d])',
         pc'[l] \notin Idle => cur'[l] = d,
         pc'[l] = "read" \/ (pc'[l] = "message" /\ state'[d] = "Connected")
           => Before(out[d], readBuf[d])',
         pc'[l] \in {"find", "delete", "mod", "del", "mark_out"}
           => state'[d] = "Closed"
  PROVE  OrderInv'
<1>1. ChainInv'
  BY DEF OrderInv, ChainInv
<1>2. ASSUME NEW m \in Loops, m # l, pc[m] \notin Idle
      PROVE  /\ pc'[m] = pc[m] /\ cur'[m] = cur[m] /\ cur[m] \in Clients
             /\ cur[m] # d
             /\ state'[cur[m]] = "Connected" => state[cur[m]] = "Connected"
             /\ state[cur[m]] = "Closed" => state'[cur[m]] = "Closed"
  BY <1>2 DEF LoopEffect, RegInv, LoopInv, Idle
<1>3. \A m \in Loops : m # l => pc'[m] = pc[m]
  BY DEF LoopEffect
<1>4. FreshInv'
  <2> SUFFICES ASSUME NEW m \in Loops,
                      \/ pc'[m] = "read"
                      \/ pc'[m] = "message" /\ state'[cur'[m]] = "Connected"
               PROVE  Before(out'[cur'[m]], readBuf'[cur'[m]])
    BY DEF FreshInv
  <2>1. pc'[m] \notin Idle
    BY DEF Idle
  <2>2. CASE m = l
    BY <2>1, <2>2
  <2>3. CASE m # l
    <3>1. /\ cur'[m] = cur[m] /\ cur[m] \in Clients /\ cur[m] # d
          /\ pc[m] = "read" \/ (pc[m] = "message" /\ state[cur[m]] = "Connected")
      BY <1>2, <1>3, <2>1, <2>3
    <3>2. Before(out[cur[m]], readBuf[cur[m]])
      BY <3>1 DEF OrderInv, FreshInv
    <3> QED
      BY <3>1, <3>2
  <2> QED
    BY <2>2, <2>3
<1>5. ClosedInv'
  <2> SUFFICES ASSUME NEW m \in Loops,
                      pc'[m] \in {"find", "delete", "mod", "del", "mark_out"}
               PROVE  state'[cur'[m]] = "Closed"
    BY DEF ClosedInv
  <2>1. pc'[m] \notin Idle
    BY DEF Idle
  <2>2. CASE m = l
    BY <2>1, <2>2
  <2>3. CASE m # l
    BY <1>2, <1>3, <2>1, <2>3 DEF OrderInv, ClosedInv
  <2> QED
    BY <2>2, <2>3
<1> QED
  BY <1>1, <1>4, <1>5 DEF OrderInv

\* A step that leaves every queue alone, and no more loops at work.
LEMMA OrderSame ==
  ASSUME TypeOK, OrderInv,
         UNCHANGED <<out, sendBuf, readBuf, rx, sent>>,
         \A l \in Loops :
           /\ pc'[l] = pc[l] /\ cur'[l] = cur[l]
           /\ pc[l] \notin Idle => state'[cur[l]] = state[cur[l]]
  PROVE  OrderInv'
<1>1. ChainInv'
  BY DEF OrderInv, ChainInv
<1>2. FreshInv' /\ ClosedInv'
  BY DEF OrderInv, FreshInv, ClosedInv, Idle
<1> QED
  BY <1>1, <1>2 DEF OrderInv

\* The chunks a client sends come after all that it sent before.
LEMMA OrderClient ==
  ASSUME TypeOK, OrderInv, ClientStep
  PROVE  OrderInv'
<1> PICK c \in Clients : ClientConnect(c) \/ ClientSend(c) \/ ClientFin(c)
                           \/ ClientReset(c)
  BY DEF ClientStep
<1>1. CASE ClientSend(c)
  <2>1. /\ sent[c] \in Nat /\ rx[c] \in Seq(Nat) /\ out[c] \in Seq(Nat)
        /\ sendBuf[c] \in Seq(Nat) /\ readBuf[c] \in Seq(Nat)
        /\ sent \in [Clients -> Nat] /\ rx \in [Clients -> Seq(Nat)]
    BY DEF TypeOK, KernelTypeOK, ConnectionTypeOK
  <2>2. /\ sent' = [sent EXCEPT ![c] = @ + 1]
        /\ rx' = [rx EXCEPT ![c] = Append(@, sent[c] + 1)]
        /\ UNCHANGED <<out, sendBuf, readBuf, pc, cur, state>>
    BY <1>1 DEF ClientSend, connVars, threadVars
  <2>3. Chain(out[c], sendBuf[c], readBuf[c], rx[c], sent[c])
    BY DEF OrderInv, ChainInv
  <2>4. Chain(out[c], sendBuf[c], readBuf[c], Append(rx[c], sent[c] + 1), sent[c] + 1)
    BY <2>1, <2>3, ChainSend, Zenon
  <2>5. rx'[c] = Append(rx[c], sent[c] + 1) /\ sent'[c] = sent[c] + 1
    BY <2>1, <2>2, Zenon
  <2>6. \A d \in Clients : d # c => rx'[d] = rx[d] /\ sent'[d] = sent[d]
    BY <2>1, <2>2, Zenon
  <2>7. ChainInv'
    <3> SUFFICES ASSUME NEW d \in Clients
                 PROVE  Chain(out[d], sendBuf[d], readBuf[d], rx'[d], sent'[d])
      BY <2>2 DEF ChainInv
    <3>1. CASE d = c
      BY <2>4, <2>5, <3>1
    <3>2. CASE d # c
      BY <2>6, <3>2 DEF OrderInv, ChainInv
    <3> QED
      BY <3>1, <3>2
  <2>8. FreshInv' /\ ClosedInv'
    BY <2>2 DEF OrderInv, FreshInv, ClosedInv
  <2> QED
    BY <2>7, <2>8 DEF OrderInv
<1>2. CASE ClientConnect(c) \/ ClientFin(c) \/ ClientReset(c)
  BY <1>2, OrderSame DEF ClientConnect, ClientFin, ClientReset, connVars, threadVars
<1> QED
  BY <1>1, <1>2

\* Main neither reads nor writes; it makes Connected only what was Invalid.
LEMMA OrderMain ==
  ASSUME TypeOK, RegInv, BuildInv, OrderInv, MainStep
  PROVE  OrderInv'
<1>1. UNCHANGED <<out, sendBuf, readBuf, rx, sent>>
  BY DEF MainStep, AcceptorStep, EpollCtl, Accept, UseET, Construct,
     SetDeleteConnectionCallback, SetOnMessageCallback, BeginInsert, EndInsert,
     EpollAdd, MarkIn, EpollMod, EpollDel, kernelVars, connVars
<1>2. pc[Main] \in MainLabels /\ (pc[Main] # "poll" => cur[Main] \in Clients)
  BY DEF RegInv, MainInv
<1>3. \A l \in Loops : pc'[l] = pc[l] /\ cur'[l] = cur[l]
  BY ThreadsFact DEF MainStep, AcceptorStep, EpollCtl, Accept,
     UseET, Construct, SetDeleteConnectionCallback, SetOnMessageCallback,
     BeginInsert, EndInsert, EpollAdd, MarkIn, EpollMod, EpollDel,
     UpdateChannel, Goto, Exit, TypeOK, ThreadTypeOK
<1>4. ASSUME NEW l \in Loops, pc[l] \notin Idle
      PROVE  state'[cur[l]] = state[cur[l]]
  <2>1. hasRead[cur[l]] /\ cur[l] \in Clients
    BY <1>4 DEF BuildInv, RegInv, LoopInv, Idle
  <2>2. CASE Construct
    BY <1>2, <2>1, <2>2 DEF Construct, BuildInv, TypeOK, ConnectionTypeOK
  <2>3. CASE ~Construct
    <3>1. state' = state
      BY <1>2, <2>3 DEF MainStep, AcceptorStep, EpollCtl, Accept, UseET,
         SetDeleteConnectionCallback, SetOnMessageCallback, BeginInsert, EndInsert,
         EpollAdd, MarkIn, EpollMod, EpollDel, connVars
    <3> QED
      BY <3>1
  <2> QED
    BY <2>2, <2>3
<1> QED
  BY <1>1, <1>3, <1>4, OrderSame

\* A step of a loop moves chunks of the connection it has in hand from one queue
\* to the next.
LEMMA OrderLoop ==
  ASSUME IInv, OrderInv, NEW l \in Loops, LoopStep(l)
  PROVE  OrderInv'
<1> DEFINE d == cur[l]
<1> USE DEF IInv
<1>1. LoopEffect(l)
  BY LoopEffectFact
<1>2. /\ l \in Threads /\ pc \in [Threads -> Labels]
      /\ cur \in [Threads -> Clients \cup {NoClient}]
  BY ThreadsFact DEF TypeOK, ThreadTypeOK
<1>3. /\ sent \in [Clients -> Nat] /\ rx \in [Clients -> Seq(Nat)]
      /\ out \in [Clients -> Seq(Nat)] /\ readBuf \in [Clients -> Seq(Nat)]
      /\ sendBuf \in [Clients -> Seq(Nat)]
      /\ state \in [Clients -> {"Invalid", "Connected", "Closed"}]
  BY DEF TypeOK, KernelTypeOK, ConnectionTypeOK
<1>4. \A c \in Clients : Chain(out[c], sendBuf[c], readBuf[c], rx[c], sent[c])
  BY DEF OrderInv, ChainInv
<1>5. pc[l] \notin Idle => d \in Clients /\ LoopOf(d) = l
  BY DEF RegInv, LoopInv, Idle
<1>6. /\ pc[l] = "read" \/ (pc[l] = "message" /\ state[d] = "Connected")
           => Before(out[d], readBuf[d])
      /\ pc[l] \in {"find", "delete", "mod", "del", "mark_out"}
           => state[d] = "Closed"
  BY DEF OrderInv, FreshInv, ClosedInv
\* Steps that touch no queue.
<1>7. ASSUME UNCHANGED <<out, sendBuf, readBuf, rx, sent>>, cur'[l] = cur[l],
             pc'[l] \notin Idle => pc[l] \notin Idle,
             pc'[l] = "read" \/ (pc'[l] = "message" /\ state'[d] = "Connected")
               => Before(out[d], readBuf[d]),
             pc'[l] \in {"find", "delete", "mod", "del", "mark_out"}
               => state'[d] = "Closed"
      PROVE  OrderInv'
  <2>1. CASE pc[l] \notin Idle
    <3>1. Chain(out[d], sendBuf[d], readBuf[d], rx[d], sent[d])'
      BY <1>4, <1>5, <1>7, <2>1
    <3> QED
      BY <1>1, <1>5, <1>7, <2>1, <3>1, OrderFrame
  <2>2. CASE pc[l] \in Idle
    <3>1. pc'[l] \in Idle
      BY <1>7, <2>2
    <3>2. ChainInv'
      BY <1>4, <1>7 DEF ChainInv
    <3>3. ASSUME NEW m \in Loops, pc'[m] \notin Idle
          PROVE  /\ m # l /\ pc'[m] = pc[m] /\ cur'[m] = cur[m]
                 /\ cur[m] \in Clients
                 /\ state'[cur[m]] = state[cur[m]] \/ state'[cur[m]] = "Closed"
      BY <1>1, <3>1, <3>3 DEF LoopEffect, RegInv, LoopInv, Idle
    <3>4. FreshInv' /\ ClosedInv'
      BY <1>7, <3>3 DEF OrderInv, FreshInv, ClosedInv, Idle
    <3> QED
      BY <3>2, <3>4 DEF OrderInv
  <2> QED
    BY <2>1, <2>2
<1>8. CASE PollAgain(l) \/ Poll(l)
  <2>1. /\ UNCHANGED <<out, sendBuf, readBuf, rx, sent>> /\ cur' = cur
        /\ pc'[l] \in Idle
    BY <1>2, <1>8 DEF PollAgain, Poll, Goto, Idle, kernelVars, connVars
  <2> QED
    BY <1>7, <2>1 DEF Idle
<1>9. CASE Dispatch(l)
  <2>1. PICK c \in active[l], k \in {"read", "close", "message", "dead", "dispatch"} :
          DispatchOf(l, c, k)
    BY <1>9, DispatchFact
  <2>2. c \in Clients /\ LoopOf(c) = l
    BY DEF RegInv, ActiveInv, TypeOK, ThreadTypeOK
  <2>3. /\ UNCHANGED <<out, sendBuf, rx, sent, state>>
        /\ pc'[l] = k /\ cur'[l] = c
        /\ readBuf' = [readBuf EXCEPT ![c] = IF k = "read" THEN <<>> ELSE @]
        /\ k = "message" => state[c] # "Connected"
    BY <1>2, <1>9, <2>1 DEF Dispatch, DispatchOf, Goto, kernelVars
  <2>4. /\ readBuf'[c] = IF k = "read" THEN <<>> ELSE readBuf[c]
        /\ \A e \in Clients : e # c => readBuf'[e] = readBuf[e]
    BY <1>3, <2>2, <2>3, Zenon
  <2>5. Chain(out[c], sendBuf[c], readBuf'[c], rx[c], sent[c])
    BY <1>4, <2>2, <2>4, ChainClear
  <2>6. k = "read" => Before(out[c], readBuf'[c])
    BY <2>4, EmptyFact
  <2> QED
    BY <1>1, <2>2, <2>3, <2>4, <2>5, <2>6, OrderFrame
<1>10. CASE ReadChunk(l)
  <2>1. /\ pc[l] = "read" /\ d \in Clients /\ LoopOf(d) = l /\ rx[d] # <<>>
        /\ readBuf' = [readBuf EXCEPT ![d] = Append(@, Head(rx[d]))]
        /\ rx' = [rx EXCEPT ![d] = Tail(@)]
        /\ UNCHANGED <<out, sendBuf, sent, state, cur>> /\ pc'[l] = "read"
    BY <1>2, <1>5, <1>10 DEF ReadChunk, AfterChunk, Goto, Idle
  <2>2. readBuf'[d] = Append(readBuf[d], Head(rx[d])) /\ rx'[d] = Tail(rx[d])
    BY <1>3, <2>1, Zenon
  <2>3. \A c \in Clients : c # d => readBuf'[c] = readBuf[c] /\ rx'[c] = rx[c]
    BY <1>3, <2>1, Zenon
  <2>4. /\ Chain(out[d], sendBuf[d], Append(readBuf[d], Head(rx[d])), Tail(rx[d]), sent[d])
        /\ Before(out[d], Append(readBuf[d], Head(rx[d])))
    <3>1. /\ out[d] \in Seq(Nat) /\ sendBuf[d] \in Seq(Nat) /\ readBuf[d] \in Seq(Nat)
          /\ rx[d] \in Seq(Nat) /\ sent[d] \in Nat
      BY <1>3, <2>1
    <3>2. Chain(out[d], sendBuf[d], readBuf[d], rx[d], sent[d]) /\ Before(out[d], readBuf[d])
      BY <1>4, <1>6, <2>1
    <3> QED
      BY <2>1, <3>1, <3>2, ChainRead, Zenon
  <2>5. Chain(out[d], sendBuf[d], readBuf[d], rx[d], sent[d])' /\ Before(out[d], readBuf[d])'
    BY <2>1, <2>2, <2>4
  <2>6. cur'[l] = d /\ out' = out /\ sendBuf' = sendBuf /\ sent' = sent
    BY <2>1
  <2> QED
    BY <1>1, <2>1, <2>3, <2>5, <2>6, OrderFrame
<1>11. CASE \/ ReadAgain(l) \/ ReadEnd(l) \/ Close(l) \/ FindConnection(l)
            \/ DeleteConnection(l) \/ EpollMod(l) \/ EpollDel(l)
            \/ MarkOut(l, AfterClose(l)) \/ WriteBrokenPipe(l)
  <2>1. UNCHANGED <<out, sendBuf, readBuf, rx, sent, cur>> /\ pc[l] \notin Idle
    BY <1>11 DEF ReadAgain, ReadEnd, Close, FindConnection, DeleteConnection,
       UpdateChannel, EpollMod, EpollDel, MarkOut, WriteBrokenPipe, kernelVars,
       connVars, Idle
  <2>2. d \in Clients
    BY <1>5, <2>1
  <2>3. state'[d] = state[d] \/ state'[d] = "Closed"
    BY <1>1, <2>2 DEF LoopEffect
  <2>4. \/ pc'[l] = pc[l]
        \/ pc[l] = "read" /\ pc'[l] \in {"message", "close"}
        \/ pc'[l] \in {"dead", "dispatch"}
        \/ pc'[l] = "find" /\ state'[d] = "Closed"
        \/ /\ pc[l] \in {"find", "delete", "mod", "del", "mark_out"}
           /\ pc'[l] \in {"delete", "mod", "del", "mark_out", "message", "add"}
    <3>1. CASE ReadAgain(l) \/ ReadEnd(l)
      BY <1>2, <3>1 DEF ReadAgain, ReadEnd, Goto
    <3>2. CASE Close(l)
      BY <1>2, <1>3, <2>2, <3>2 DEF Close, Goto
    <3>3. CASE FindConnection(l) \/ MarkOut(l, AfterClose(l))
      BY <1>2, <3>3 DEF FindConnection, MarkOut, AfterClose, Goto, Exit
    <3>4. CASE DeleteConnection(l)
      BY <1>2, <3>4 DEF DeleteConnection, UpdateChannel, Goto
    <3>5. CASE EpollMod(l) \/ EpollDel(l) \/ WriteBrokenPipe(l)
      BY <1>2, <3>5 DEF EpollMod, EpollDel, WriteBrokenPipe, Goto, Exit, RegInv, LoopInv
    <3> QED
      BY <1>11, <3>1, <3>2, <3>3, <3>4, <3>5
  <2> QED
    BY <1>6, <1>7, <2>1, <2>3, <2>4
<1>12. CASE OnMessage(l)
  <2>1. pc[l] = "message" /\ d \in Clients /\ LoopOf(d) = l
    BY <1>5, <1>12 DEF OnMessage, Idle
  <2>2. /\ UNCHANGED <<out, readBuf, rx, sent, cur>>
        /\ \/ /\ pc'[l] = "write" /\ state[d] = "Connected"
              /\ sendBuf' = [sendBuf EXCEPT ![d] = readBuf[d]]
           \/ pc'[l] = "dispatch" /\ sendBuf' = sendBuf
    BY <1>2, <1>3, <1>12, <2>1 DEF OnMessage, Goto, kernelVars
  <2>3. CASE sendBuf' = [sendBuf EXCEPT ![d] = readBuf[d]] /\ state[d] = "Connected"
    <3>1. sendBuf'[d] = readBuf[d] /\ \A c \in Clients : c # d => sendBuf'[c] = sendBuf[c]
      BY <1>3, <2>1, <2>3, Zenon
    <3>2. Chain(out[d], readBuf[d], readBuf[d], rx[d], sent[d])
      BY <1>4, <1>6, <2>1, <2>3, ChainEcho
    <3>3. Chain(out[d], sendBuf[d], readBuf[d], rx[d], sent[d])'
      BY <2>2, <3>1, <3>2
    <3>4. cur'[l] = d /\ pc'[l] \in {"write", "dispatch"}
      BY <2>2
    <3> QED
      BY <1>1, <2>1, <2>2, <3>1, <3>3, <3>4, OrderFrame
  <2>4. CASE sendBuf' = sendBuf /\ pc'[l] = "dispatch"
    BY <1>7, <2>2, <2>4 DEF Idle
  <2> QED
    BY <2>2, <2>3, <2>4
<1>13. CASE WriteSome(l)
  <2>1. pc[l] = "write" /\ d \in Clients /\ LoopOf(d) = l
    BY <1>5, <1>13 DEF WriteSome, Idle
  <2>2. PICK n \in 1 .. Len(sendBuf[d]) :
          /\ out' = [out EXCEPT ![d] = @ \o SubSeq(sendBuf[d], 1, n)]
          /\ sendBuf' = [sendBuf EXCEPT ![d] = SubSeq(@, n + 1, Len(@))]
          /\ Goto(l, IF n = Len(sendBuf[d]) THEN "dispatch" ELSE "write")
    BY <1>13, Zenon DEF WriteSome
  <2>3. /\ out'[d] = out[d] \o SubSeq(sendBuf[d], 1, n)
        /\ sendBuf'[d] = SubSeq(sendBuf[d], n + 1, Len(sendBuf[d]))
        /\ \A c \in Clients : c # d => out'[c] = out[c] /\ sendBuf'[c] = sendBuf[c]
    BY <1>3, <2>1, <2>2, Zenon
  <2>4. UNCHANGED <<readBuf, rx, sent, cur>> /\ pc'[l] \in {"write", "dispatch"}
    <3>1. pc'[l] \in {"write", "dispatch"}
      BY <1>2, <2>2 DEF Goto
    <3> QED
      BY <1>13, <3>1 DEF WriteSome
  <2>5. Chain(out[d] \o SubSeq(sendBuf[d], 1, n),
              SubSeq(sendBuf[d], n + 1, Len(sendBuf[d])), readBuf[d], rx[d], sent[d])
    <3>1. /\ out[d] \in Seq(Nat) /\ sendBuf[d] \in Seq(Nat) /\ readBuf[d] \in Seq(Nat)
          /\ rx[d] \in Seq(Nat) /\ sent[d] \in Nat
      BY <1>3, <2>1
    <3>2. Chain(out[d], sendBuf[d], readBuf[d], rx[d], sent[d])
      BY <1>4, <2>1
    <3> QED
      BY <3>1, <3>2, ChainWrite, Zenon
  <2>6. Chain(out[d], sendBuf[d], readBuf[d], rx[d], sent[d])'
    BY <2>3, <2>4, <2>5
  <2>7. cur'[l] = d
    BY <2>4
  <2> QED
    BY <1>1, <2>1, <2>3, <2>4, <2>6, <2>7, OrderFrame
<1>14. CASE WriteAgain(l) \/ WriteError(l)
  <2>1. /\ pc[l] = "write" /\ d \in Clients /\ LoopOf(d) = l
        /\ UNCHANGED <<out, readBuf, rx, sent, cur>> /\ pc'[l] = "dispatch"
        /\ sendBuf' = [sendBuf EXCEPT ![d] = <<>>]
    BY <1>2, <1>5, <1>14 DEF WriteAgain, WriteError, Goto, kernelVars, Idle
  <2>2. sendBuf'[d] = <<>> /\ \A c \in Clients : c # d => sendBuf'[c] = sendBuf[c]
    BY <1>3, <2>1, Zenon
  <2>3. Chain(out[d], <<>>, readBuf[d], rx[d], sent[d])
    BY <1>4, <2>1, ChainClear
  <2>4. Chain(out[d], sendBuf[d], readBuf[d], rx[d], sent[d])' /\ cur'[l] = d
    BY <2>1, <2>2, <2>3
  <2> QED
    BY <1>1, <2>1, <2>2, <2>4, OrderFrame
<1>15. CASE EpollAdd(l) \/ MarkIn(l)
  BY <1>15 DEF EpollAdd, MarkIn, RegInv, LoopInv, LoopLabels
<1> QED
  BY <1>8, <1>9, <1>10, <1>11, <1>12, <1>13, <1>14, <1>15
     DEF LoopStep, HandlerStep, EpollCtl

\* The echo is in order, for any number of clients, loops and chunks.
THEOREM EchoIsInOrder == Spec => []EchoInOrder
<1>1. Init => OrderInv
  <2> SUFFICES ASSUME Init PROVE OrderInv
    OBVIOUS
  <2>1. ChainInv
    BY EmptyFact DEF Init, ChainInv, Chain
  <2>2. FreshInv /\ ClosedInv
    BY ThreadsFact DEF Init, FreshInv, ClosedInv
  <2> QED
    BY <2>1, <2>2 DEF OrderInv
<1>2. IInv /\ OrderInv /\ [Next]_vars => OrderInv'
  <2> SUFFICES ASSUME IInv, OrderInv, [Next]_vars PROVE OrderInv'
    OBVIOUS
  <2>1. CASE UNCHANGED vars
    BY <2>1, OrderSame DEF vars, kernelVars, connVars, threadVars, IInv
  <2> QED
    BY <2>1, OrderClient, OrderMain, OrderLoop DEF IInv, Next
<1>3. OrderInv => EchoInOrder
  BY DEF OrderInv, ChainInv, Chain, Rising, Within, EchoInOrder
<1> QED
  BY <1>1, <1>2, <1>3, Invariant, PTL DEF Spec

----------------------------------------------------------------------------
(* Half of the loops stay idle *)

\* With an even divisor the remainder keeps the parity.
LEMMA EvenDivisor ==
  ASSUME NEW n \in Nat \ {0}, n % 2 = 0, NEW x \in Nat
  PROVE  (x % n) % 2 = x % 2
<1>1. PICK k \in Nat : n = 2 * k
  OBVIOUS
<1>2. PICK q \in Nat : x = n * q + (x % n)
  <2>1. x = n * (x \div n) + (x % n)
    OBVIOUS
  <2>2. x \div n \in Nat
    OBVIOUS
  <2> QED
    BY <2>1, <2>2, Zenon
<1> DEFINE r == x % n
           m == k * q
<1>3. r \in Nat /\ m \in Nat
  OBVIOUS
<1>4. x = 2 * m + r
  BY <1>1, <1>2
<1> HIDE DEF r, m
<1> QED
  BY <1>3, <1>4 DEF r

\* Accepted descriptors, and the next one, differ from the first by an even
\* number.
ParityInv ==
  /\ nextFd % 2 = FirstFd % 2
  /\ \A c \in Clients : Accepted(c) => fd[c] % 2 = FirstFd % 2

BusyInv == NumLoops % 2 = 0 =>
             \A l \in Loops : pc[l] # "poll" => l % 2 = FirstFd % 2

\* Half of an even number of sub reactors never leaves epoll_wait.
THEOREM HalfIsIdle == Spec => []HalfTheLoopsIdle
<1>1. Init => ParityInv /\ BusyInv
  BY ThreadsFact DEF Init, ParityInv, BusyInv, Accepted
<1>2. IInv /\ ParityInv /\ BusyInv /\ [Next]_vars => ParityInv' /\ BusyInv'
  <2> SUFFICES ASSUME IInv, ParityInv, BusyInv, [Next]_vars
               PROVE  ParityInv' /\ BusyInv'
    OBVIOUS
  <2>1. /\ nextFd \in FirstFd .. MaxFd /\ pc \in [Threads -> Labels]
        /\ fd \in [Clients -> {NoFd} \cup FirstFd .. (MaxFd - 1)]
    BY DEF IInv, TypeOK, KernelTypeOK, ConnectionTypeOK, ThreadTypeOK
  <2>2. CASE \E c \in Clients : Accept(c)
    <3> PICK c \in Clients : Accept(c)
      BY <2>2
    <3>1. CASE NoFdLeft
      BY <3>1 DEF Accept, Exit, ParityInv, BusyInv, Accepted
    <3>2. CASE ~NoFdLeft
      <4>1. /\ fd' = [fd EXCEPT ![c] = nextFd] /\ nextFd' = nextFd + 2
            /\ \A l \in Loops : pc'[l] = pc[l]
        BY <2>1, <3>2, ThreadsFact DEF Accept, FdsPerConnection, UpdateChannel, Goto
      <4>2. nextFd' % 2 = FirstFd % 2
        BY <2>1, <4>1, ReactorAssumption DEF ParityInv
      <4>3. ASSUME NEW d \in Clients, fd'[d] # NoFd PROVE fd'[d] % 2 = FirstFd % 2
        BY <2>1, <4>1, <4>3 DEF ParityInv, Accepted
      <4> QED
        BY <4>1, <4>2, <4>3 DEF ParityInv, BusyInv, Accepted
    <3> QED
      BY <3>1, <3>2
  <2>3. CASE MainStep /\ ~\E c \in Clients : Accept(c)
    <3>1. UNCHANGED <<fd, nextFd>> /\ \A l \in Loops : pc'[l] = pc[l]
      BY <2>1, <2>3, ThreadsFact DEF MainStep, AcceptorStep, EpollCtl,
         UseET, Construct, SetDeleteConnectionCallback, SetOnMessageCallback,
         BeginInsert, EndInsert, EpollAdd, MarkIn, EpollMod, EpollDel,
         UpdateChannel, Goto, Exit, kernelVars, connVars
    <3> QED
      BY <3>1 DEF ParityInv, BusyInv, Accepted
  <2>4. CASE ClientStep \/ UNCHANGED vars
    <3>1. UNCHANGED <<fd, nextFd, pc>>
      BY <2>4 DEF ClientStep, ClientConnect, ClientSend, ClientFin, ClientReset,
         vars, kernelVars, connVars, threadVars
    <3> QED
      BY <3>1 DEF ParityInv, BusyInv, Accepted
  <2>5. CASE \E l \in Loops : LoopStep(l)
    <3> PICK l \in Loops : LoopStep(l)
      BY <2>5
    <3>1. LoopEffect(l)
      BY LoopEffectFact DEF IInv
    <3>2. nextFd' = nextFd
      BY DEF LoopStep, HandlerStep, EpollCtl, Poll, PollAgain, Dispatch, ReadChunk,
         ReadAgain, ReadEnd, Close, FindConnection, DeleteConnection, MarkOut,
         OnMessage, WriteSome, WriteAgain, WriteError, WriteBrokenPipe, EpollAdd,
         MarkIn, EpollMod, EpollDel, kernelVars
    <3>3. ASSUME NumLoops % 2 = 0, pc'[l] # "poll" PROVE l % 2 = FirstFd % 2
      <4>1. CASE pc[l] # "poll"
        BY <3>3, <4>1 DEF BusyInv
      <4>2. CASE pc[l] = "poll"
        <5>1. Poll(l)
          BY <3>3, <4>2 DEF LoopStep, HandlerStep, EpollCtl, PollAgain, Dispatch,
             ReadChunk, ReadAgain, ReadEnd, Close, FindConnection,
             DeleteConnection, MarkOut, OnMessage, WriteSome, WriteAgain,
             WriteError, WriteBrokenPipe, EpollAdd, MarkIn, EpollMod, EpollDel
        <5>2. PICK c \in Clients : Accepted(c) /\ LoopOf(c) = l
          BY <5>1 DEF Poll, Reported
        <5>3. fd[c] \in Nat /\ fd[c] % 2 = FirstFd % 2
          BY <2>1, <5>2, ReactorAssumption DEF Accepted, ParityInv
        <5> QED
          BY <3>3, <5>2, <5>3, EvenDivisor, ReactorAssumption DEF LoopOf
      <4> QED
        BY <4>1, <4>2
    <3> QED
      BY <3>1, <3>2, <3>3 DEF LoopEffect, ParityInv, BusyInv, Accepted
  <2> QED
    BY <2>2, <2>3, <2>4, <2>5 DEF Next
<1>3. ParityInv /\ BusyInv => HalfTheLoopsIdle
  BY DEF BusyInv, HalfTheLoopsIdle
<1> QED
  BY <1>1, <1>2, <1>3, Invariant, PTL DEF Spec
=============================================================================
