-------------------------- MODULE IdleReaperProofs --------------------------
(***************************************************************************)
(* Proofs about IdleReaper, for any number of connections, any limit and   *)
(* period, any modulus of the clock and any stall of Main.                 *)
(***************************************************************************)
EXTENDS IdleReaper, TLAPS

\* A connection that Main has not accepted is in nobody's hands.
Untouched(c) ==
  /\ interest[c] = "none" /\ ~inEpoll[c]
  /\ out[c] = "echoes" /\ state[c] = "Invalid"
  /\ c \notin todo /\ c \notin again /\ c \notin twice
  /\ cur[Main] # c /\ cur[Loop] # c

NewInv == \A c \in Conns : peer[c] = "none" => Untouched(c)

\* What each thread does, and what it knows of its connection.
ThreadInv ==
  /\ pc[Main] \notin {"dispatch", "message", "stamp"}
  /\ pc[Loop] \notin {"walk", "judge", "delete_after", "arm"}
  /\ pc[Main] \in {"add", "mark_in", "mod", "del", "mark_out"} => state[cur[Main]] = "Closed"
  /\ pc[Loop] \in {"delete", "add", "mark_in", "mod", "del", "mark_out"} =>
       peer[cur[Loop]] \notin {"none", "open"}
  /\ pc[Loop] = "dispatch" /\ revent = "HUP" => Gone(cur[Loop])

\* As long as no two threads send on a connection at a time, each finds its own text
\* in the buffers, and nobody is sending after it was cleared.
HasText(t, text) ==
  /\ pc[t] = "send" => sendBuf[cur[t]] = text
  /\ pc[t] = "write" => buf[t] = text

SentInTurn(c) ==
  /\ ~(Sending(Main, c) /\ Sending(Loop, c))
  /\ cur[Main] = c => HasText(Main, "clear")
  /\ cur[Loop] = c => HasText(Loop, "echo")
  /\ out[c] # "more"
  /\ out[c] = "cleared" =>
       /\ ~Sending(Loop, c)
       /\ ~(cur[Main] = c /\ pc[Main] = "write")
       /\ state[c] = "Closed" \/ (cur[Main] = c /\ pc[Main] = "delete")

SendInv == \A c \in Conns \ mixed : SentInTurn(c)

\* What is registered, by where the one thread is that deletes a connection.
Registered(c, label) ==
  /\ label \in {"add", "mark_out"} => interest[c] = "none"
  /\ label \in {"mark_in", "mod", "del"} => interest[c] # "none"
  /\ label \in {"add", "mark_in"} => ~inEpoll[c]
  /\ label \in {"mod", "del", "mark_out"} => inEpoll[c]

DeletedInTurn(c) ==
  /\ ~(Deleting(Main, c) /\ Deleting(Loop, c))
  /\ ~Deleting(Main, c) /\ ~Deleting(Loop, c) => (inEpoll[c] <=> interest[c] # "none")
  /\ Deleting(Main, c) => Registered(c, pc[Main])
  /\ Deleting(Loop, c) => Registered(c, pc[Loop])

RegInv == \A c \in Conns \ twice : DeletedInTurn(c)

\* A loop deletes a connection only when its client has gone.
TwiceInv == \A c \in twice : peer[c] \notin {"none", "open"}

\* What the clock says of how long a connection has been idle.
Timed(c) ==
  /\ context[c] <= now
  /\ \/ quiet[c] = now - context[c]
     \/ quiet[c] = TooLong /\ now - context[c] >= TooLong

QuietInv == \A c \in Conns \ wrapped : peer[c] # "none" => Timed(c)

\* What Judge has found stays true until the connection is deleted.
Judged(c) ==
  cur[Main] = c /\ pc[Main] \in {"send", "write", "delete"} =>
    /\ ~(cur[Loop] = c /\ pc[Loop] \in {"send", "write", "stamp"})
    /\ quiet[c] > Limit \/ c \in wrapped \/ context[c] # last

JudgedInv == \A c \in Conns \ (mixed \cup again) : Judged(c)

\* The timer runs on in front of the end of the clock.
Early == due # Never /\ due + MaxStall < Wrap

\* Main has looked at c in this walk, and is not about to delete it.
Looked(c) ==
  /\ pc[Main] \notin {"poll", "arm"}
  /\ c \notin todo
  /\ ~(cur[Main] = c /\ pc[Main] \in {"judge", "send", "write", "delete"})

OnTime ==
  /\ wrapped = {}
  /\ now <= due + stall
  /\ due - Period <= now
  /\ pc[Main] \notin {"poll", "arm"} => due <= now
  /\ pc[Main] = "judge" => last <= context[cur[Main]]

SeenInTime(c) ==
  /\ due - Period - Limit <= context[c]
  /\ Looked(c) => due - Limit <= context[c]

\* A walk looks at a connection once, and takes it from delete_after at its end.
TodoInv ==
  /\ pc[Main] \in {"poll", "arm"} => again = {}
  /\ again \cap todo = {}
  /\ pc[Main] \in {"judge", "send", "write"} => cur[Main] \notin todo \cup again
  /\ pc[Main] \in {"delete", "add", "mark_in", "mod", "del", "mark_out"} =>
       /\ cur[Main] \notin todo
       /\ cur[Main] \in again => todo = {}
  /\ pc[Main] = "delete_after" => todo = {}

DueInv == pc[Main] # "poll" => due # Never
OnTimeInv == Early => OnTime
SeenInv == Early => \A c \in Conns : state[c] = "Connected" => SeenInTime(c)

IInv ==
  /\ TypeOK /\ NewInv /\ ThreadInv /\ SendInv /\ RegInv /\ TwiceInv
  /\ QuietInv /\ JudgedInv /\ TodoInv /\ DueInv /\ OnTimeInv /\ SeenInv /\ ExitIsExplained

----------------------------------------------------------------------------
\* A thread that sends or deletes has a connection in hand.
LEMMA InHand ==
  ASSUME ThreadTypeOK, NEW t \in Threads,
         pc[t] \in {"send", "write", "delete", "add", "mark_in", "mod", "del", "mark_out"}
  PROVE  cur[t] \in Conns
<1>1. CASE t = Main
  BY <1>1 DEF ThreadTypeOK
<1>2. CASE t = Loop
  BY <1>2 DEF ThreadTypeOK
<1> QED
  BY <1>1, <1>2 DEF Threads

\* Every step keeps the types; one lemma for each part of TypeOK.
\* The clock stays below its modulus, and the expiration is a time or Never.
LEMMA TimeType == ASSUME IInv, Next PROVE TimeTypeOK'
<1>1. TimeTypeOK /\ KernelTypeOK /\ ConnTypeOK /\ ThreadTypeOK /\ HistoryTypeOK
  BY DEF IInv, TypeOK
<1>2. ASSUME NEW c \in Conns,
             ClientSend(c) \/ ClientFin(c) \/ ClientReset(c) \/ Accept(c) \/
             Look(c) \/ DeleteAgain(c)
      PROVE  TimeTypeOK'
  BY <1>1, IdleAssumption, <1>2 DEF ClientSend, ClientFin, ClientReset, Accept,
     Stamp, Look, Goto, DeleteAgain, TimeTypeOK, timeVars, kernelVars
<1>3. ASSUME NEW c \in Conns, Poll(c)
      PROVE  TimeTypeOK'
  BY <1>1, IdleAssumption, <1>3 DEF Poll, Goto, TimeTypeOK, timeVars, kernelVars
<1>4. ASSUME NEW t \in Threads,
             Write(t) \/ WriteNonBlocking(t) \/ WriteBrokenPipe(t) \/
             DeleteConnection(t) \/ EpollFails(t) \/ EpollAdd(t)
      PROVE  TimeTypeOK'
  BY <1>1, IdleAssumption, <1>4 DEF Write, Goto, WriteNonBlocking, WriteBrokenPipe,
     Exit, DeleteConnection, EpollFails, EpollAdd, Disabled, TimeTypeOK, timeVars,
     kernelVars
<1>5. ASSUME NEW t \in Threads, MarkIn(t) \/ EpollMod(t) \/ EpollDel(t) \/ MarkOut(t)
      PROVE  TimeTypeOK'
  BY <1>1, IdleAssumption, <1>5 DEF MarkIn, Goto, EpollMod, Disabled, EpollDel,
     MarkOut, TimeTypeOK, timeVars, kernelVars
<1>6. CASE SendRace \/ Walk \/ Judge \/ WalkEnds \/ HandleHup \/ Read
  BY <1>1, IdleAssumption, <1>6 DEF SendRace, Exit, Walk, Goto, Judge,
     SetSendBuffer, WalkEnds, HandleHup, Read, TimeTypeOK, timeVars, kernelVars
<1>7. CASE OnMessage \/ SetContext
  BY <1>1, IdleAssumption, <1>7 DEF OnMessage, Goto, SetSendBuffer, SetContext,
     Stamp, TimeTypeOK, timeVars, kernelVars
<1>8. CASE Tick
  BY <1>1, IdleAssumption, <1>8 DEF Tick, TimeTypeOK, NextClock
<1>9. CASE Restart
  BY <1>1, IdleAssumption, <1>9 DEF Restart, Goto, TimeTypeOK, Never
<1>10. CASE Arm
  BY <1>1, IdleAssumption, <1>10 DEF Arm, Goto, TimeTypeOK, Never
<1> QED
  BY <1>2, <1>3, <1>4, <1>5, <1>6, <1>7, <1>8, <1>9, <1>10 DEF Next, ClientStep,
     MainStep, LoopStep, Both

\* The sockets and epoll's registrations keep their types.
LEMMA KernelType == ASSUME IInv, Next PROVE KernelTypeOK'
<1>1. TimeTypeOK /\ KernelTypeOK /\ ConnTypeOK /\ ThreadTypeOK /\ HistoryTypeOK
  BY DEF IInv, TypeOK
<1>2. ASSUME NEW c \in Conns,
             ClientSend(c) \/ ClientFin(c) \/ ClientReset(c) \/ Accept(c) \/
             Look(c) \/ DeleteAgain(c)
      PROVE  KernelTypeOK'
  BY <1>1, <1>2 DEF ClientSend, ClientFin, ClientReset, Accept, Stamp, Look, Goto,
     DeleteAgain, KernelTypeOK, kernelVars
<1>3. ASSUME NEW c \in Conns, Poll(c)
      PROVE  KernelTypeOK'
  BY <1>1, <1>3 DEF Poll, Goto, KernelTypeOK, kernelVars
<1>4. ASSUME NEW t \in Threads,
             Write(t) \/ WriteBrokenPipe(t) \/ DeleteConnection(t) \/
             EpollFails(t) \/ MarkIn(t) \/ MarkOut(t)
      PROVE  KernelTypeOK'
  BY <1>1, <1>4 DEF Write, Goto, WriteBrokenPipe, Exit, DeleteConnection,
     EpollFails, MarkIn, MarkOut, KernelTypeOK, kernelVars
<1>5. CASE Tick \/ SendRace \/ Walk \/ Judge \/ WalkEnds \/ Restart
  BY <1>1, <1>5 DEF Tick, SendRace, Exit, Walk, Goto, Judge, SetSendBuffer,
     WalkEnds, Restart, KernelTypeOK, kernelVars
<1>6. CASE Arm \/ HandleHup \/ OnMessage \/ SetContext
  BY <1>1, <1>6 DEF Arm, Goto, HandleHup, OnMessage, SetSendBuffer, SetContext,
     Stamp, KernelTypeOK, kernelVars
<1>7. ASSUME NEW t \in Threads, WriteNonBlocking(t) PROVE KernelTypeOK'
  <2>1. cur[t] \in Conns
    BY <1>1, <1>7, InHand DEF WriteNonBlocking
  <2>2. out' \in [Conns -> {"echoes", "cleared", "more"}]
    <3>1. Written(cur[t], buf[t]) \in {"echoes", "cleared", "more"}
      BY <1>1, <2>1 DEF KernelTypeOK, Written
    <3> QED
      BY <1>1, <1>7, <2>1, <3>1 DEF WriteNonBlocking, KernelTypeOK
  <2>3. peer' \in [Conns -> {"none", "open", "fin", "rst", "broken"}]
    <3>1. peer' = peer \/ peer' = [peer EXCEPT ![cur[t]] = "broken"]
      BY <1>7, Zenon DEF WriteNonBlocking, ErrorTaken
    <3> QED
      BY <1>1, <3>1 DEF KernelTypeOK
  <2> QED
    BY <1>1, <1>7, <2>2, <2>3 DEF WriteNonBlocking, KernelTypeOK
<1>8. ASSUME NEW t \in Threads, EpollAdd(t) PROVE KernelTypeOK'
  <2>1. cur[t] \in Conns 
    BY <1>1, <1>8, InHand DEF EpollAdd
  <2>2. Gone(cur[t]) \in BOOLEAN
    BY DEF Gone
  <2> QED
    BY <1>1, <1>8, <2>1, <2>2, Zenon DEF EpollAdd, Disabled, KernelTypeOK
<1>9. ASSUME NEW t \in Threads, EpollMod(t) PROVE KernelTypeOK'
  <2>1. cur[t] \in Conns 
    BY <1>1, <1>9, InHand DEF EpollMod
  <2>2. Gone(cur[t]) \in BOOLEAN
    BY DEF Gone
  <2> QED
    BY <1>1, <1>9, <2>1, <2>2, Zenon DEF EpollMod, Disabled, KernelTypeOK
<1>10. ASSUME NEW t \in Threads, EpollDel(t) PROVE KernelTypeOK'
  BY <1>1, IdleAssumption, <1>10 DEF EpollDel, Goto, KernelTypeOK, kernelVars,
     ThreadTypeOK, Threads, Main, Loop
<1>11. CASE Read
  BY <1>1, IdleAssumption, <1>11 DEF Read, Goto, KernelTypeOK, kernelVars,
     ThreadTypeOK, Threads, Main, Loop, ErrorTaken
<1> QED
  BY <1>2, <1>3, <1>4, <1>5, <1>6, <1>7, <1>8, <1>9, <1>10, <1>11 DEF Next,
     ClientStep, MainStep, LoopStep, Both

\* The connections' fields keep their types.
LEMMA ConnType == ASSUME IInv, Next PROVE ConnTypeOK'
<1>1. TimeTypeOK /\ KernelTypeOK /\ ConnTypeOK /\ ThreadTypeOK /\ HistoryTypeOK
  BY DEF IInv, TypeOK
<1>2. ASSUME NEW c \in Conns,
             ClientSend(c) \/ ClientFin(c) \/ ClientReset(c) \/ Look(c) \/
             DeleteAgain(c) \/ Poll(c)
      PROVE  ConnTypeOK'
  BY <1>1, <1>2 DEF ClientSend, ClientFin, ClientReset, Look, Goto, DeleteAgain,
     Poll, ConnTypeOK, connVars
<1>3. ASSUME NEW t \in Threads,
             Write(t) \/ WriteNonBlocking(t) \/ WriteBrokenPipe(t) \/
             DeleteConnection(t) \/ EpollFails(t) \/ EpollAdd(t)
      PROVE  ConnTypeOK'
  BY <1>1, <1>3 DEF Write, Goto, WriteNonBlocking, WriteBrokenPipe, Exit,
     DeleteConnection, EpollFails, EpollAdd, Disabled, ConnTypeOK, connVars
<1>4. ASSUME NEW t \in Threads, MarkIn(t) \/ EpollMod(t) \/ EpollDel(t)
      PROVE  ConnTypeOK'
  BY <1>1, <1>4 DEF MarkIn, Goto, EpollMod, Disabled, EpollDel, ConnTypeOK,
     connVars
<1>5. CASE Tick \/ SendRace \/ Walk \/ Judge \/ WalkEnds \/ Restart
  BY <1>1, <1>5 DEF Tick, SendRace, Exit, Walk, Goto, Judge, SetSendBuffer,
     WalkEnds, Restart, ConnTypeOK, connVars
<1>6. CASE Arm \/ HandleHup \/ Read \/ OnMessage
  BY <1>1, <1>6 DEF Arm, Goto, HandleHup, Read, OnMessage, SetSendBuffer,
     ConnTypeOK, connVars
<1>7. ASSUME NEW c \in Conns, Accept(c) PROVE ConnTypeOK'
  BY <1>1, IdleAssumption, <1>7 DEF Accept, Stamp, ConnTypeOK, connVars, TimeTypeOK
<1>8. ASSUME NEW t \in Threads, MarkOut(t) PROVE ConnTypeOK'
  BY <1>1, IdleAssumption, <1>8 DEF MarkOut, Goto, ConnTypeOK, connVars,
     FlagAfterDelete
<1>9. CASE SetContext
  BY <1>1, IdleAssumption, <1>9 DEF SetContext, Goto, Stamp, ConnTypeOK, connVars,
     TimeTypeOK
<1> QED
  BY <1>2, <1>3, <1>4, <1>5, <1>6, <1>7, <1>8, <1>9 DEF Next, ClientStep, MainStep,
     LoopStep, Both

\* The threads' positions and what they hold keep their types.
LEMMA ThreadType == ASSUME IInv, Next PROVE ThreadTypeOK'
<1>1. TimeTypeOK /\ KernelTypeOK /\ ConnTypeOK /\ ThreadTypeOK /\ HistoryTypeOK
  BY DEF IInv, TypeOK
<1>2. ASSUME NEW c \in Conns,
             ClientSend(c) \/ ClientFin(c) \/ ClientReset(c) \/ Accept(c) \/
             DeleteAgain(c)
      PROVE  ThreadTypeOK'
  <2>1. CASE ClientSend(c)
    BY <1>1, <2>1 DEF ClientSend, ThreadTypeOK, threadVars, Labels, Threads,
       Main, Loop
  <2>2. CASE ClientFin(c)
    BY <1>1, <2>2 DEF ClientFin, ThreadTypeOK, threadVars, Labels, Threads,
       Main, Loop
  <2>3. CASE ClientReset(c)
    BY <1>1, <2>3 DEF ClientReset, ThreadTypeOK, threadVars, Labels, Threads,
       Main, Loop
  <2>4. CASE Accept(c)
    BY <1>1, <2>4 DEF Accept, Stamp, ThreadTypeOK, threadVars, Labels,
       Threads, Main, Loop
  <2>5. CASE DeleteAgain(c)
    BY <1>1, <2>5 DEF DeleteAgain, Goto, ThreadTypeOK, Labels, Threads, Main,
       Loop
  <2> QED
    BY <1>2, <2>1, <2>2, <2>3, <2>4, <2>5
<1>3. CASE Tick \/ SendRace \/ Judge \/ WalkEnds \/ Restart \/ Arm
  <2>1. CASE Tick
    BY <1>1, <2>1 DEF Tick, ThreadTypeOK, threadVars, Labels, Threads, Main,
       Loop
  <2>2. CASE SendRace
    BY <1>1, <2>2 DEF SendRace, Exit, ThreadTypeOK, Labels, Threads, Main,
       Loop
  <2>3. CASE Judge
    BY <1>1, <2>3 DEF Judge, Goto, SetSendBuffer, ThreadTypeOK, Labels,
       Threads, Main, Loop
  <2>4. CASE WalkEnds
    BY <1>1, <2>4 DEF Goto, WalkEnds, ThreadTypeOK, Labels, Threads, Main,
       Loop
  <2>5. CASE Restart
    BY <1>1, <2>5 DEF Goto, Restart, ThreadTypeOK, Labels, Threads, Main,
       Loop
  <2>6. CASE Arm
    BY <1>1, <2>6 DEF Goto, Arm, ThreadTypeOK, Labels, Threads, Main, Loop
  <2> QED
    BY <1>3, <2>1, <2>2, <2>3, <2>4, <2>5, <2>6
<1>4. CASE HandleHup \/ Read \/ OnMessage \/ SetContext
  <2>1. CASE HandleHup
    BY <1>1, <2>1 DEF HandleHup, Goto, ThreadTypeOK, Labels, Threads, Main,
       Loop
  <2>2. CASE Read
    BY <1>1, <2>2 DEF Goto, Read, ThreadTypeOK, Labels, Threads, Main, Loop
  <2>3. CASE OnMessage
    BY <1>1, <2>3 DEF Goto, OnMessage, SetSendBuffer, ThreadTypeOK, Labels,
       Threads, Main, Loop
  <2>4. CASE SetContext
    BY <1>1, <2>4 DEF Goto, SetContext, Stamp, ThreadTypeOK, Labels, Threads,
       Main, Loop
  <2> QED
    BY <1>4, <2>1, <2>2, <2>3, <2>4
<1>5. ASSUME NEW t \in Threads, Write(t) PROVE ThreadTypeOK'
  <2>1. /\ buf' \in [Threads -> {"", "echo", "clear"}]
        /\ UNCHANGED <<cur, revent, last, todo, again, exited>>
    BY <1>1, <1>5, InHand DEF Write, ThreadTypeOK, ConnTypeOK
  <2>2. \/ pc' = [pc EXCEPT ![t] = "write"]
        \/ pc' = [pc EXCEPT ![t] = "delete"]
        \/ pc' = [pc EXCEPT ![t] = "stamp"]
    BY <1>5 DEF Write, AfterSend, Goto
  <2>3. pc' \in [Threads -> Labels]
    BY <1>1, <2>2 DEF ThreadTypeOK, Labels
  <2>4. cur[t] \in Conns
    BY <1>1, <1>5, InHand DEF Write
  <2>5. /\ pc'[Loop] # "poll" => cur[Loop] \in Conns
        /\ pc'[Main] \notin {"poll", "walk", "delete_after", "arm"} => cur[Main] \in Conns
    BY <1>1, <1>5, <2>2, <2>4 DEF ThreadTypeOK, Threads, Main, Loop
  <2> QED
    BY <1>1, <1>5, <2>1, <2>3, <2>5 DEF Write, ThreadTypeOK
<1>6. ASSUME NEW t \in Threads, WriteNonBlocking(t) PROVE ThreadTypeOK'
  BY <1>1, IdleAssumption, <1>6 DEF WriteNonBlocking, Goto, ThreadTypeOK,
     threadVars, Labels, Threads, Main, Loop, AfterSend
<1>7. ASSUME NEW t \in Threads, WriteBrokenPipe(t) PROVE ThreadTypeOK'
  BY <1>1, IdleAssumption, <1>7 DEF WriteBrokenPipe, Exit, ThreadTypeOK,
     threadVars, Labels, Threads, Main, Loop
<1>8. ASSUME NEW t \in Threads, DeleteConnection(t) PROVE ThreadTypeOK'
  BY <1>1, IdleAssumption, <1>8 DEF DeleteConnection, Goto, ThreadTypeOK,
     threadVars, Labels, Threads, Main, Loop
<1>9. ASSUME NEW t \in Threads, EpollFails(t) PROVE ThreadTypeOK'
  BY <1>1, IdleAssumption, <1>9 DEF EpollFails, Exit, ThreadTypeOK, threadVars,
     Labels, Threads, Main, Loop
<1>10. ASSUME NEW t \in Threads, EpollAdd(t) PROVE ThreadTypeOK'
  BY <1>1, IdleAssumption, <1>10 DEF EpollAdd, Goto, Disabled, ThreadTypeOK,
     threadVars, Labels, Threads, Main, Loop
<1>11. ASSUME NEW t \in Threads, MarkIn(t) PROVE ThreadTypeOK'
  BY <1>1, IdleAssumption, <1>11 DEF MarkIn, Goto, ThreadTypeOK, threadVars,
     Labels, Threads, Main, Loop
<1>12. ASSUME NEW t \in Threads, EpollMod(t) PROVE ThreadTypeOK'
  BY <1>1, IdleAssumption, <1>12 DEF EpollMod, Goto, Disabled, ThreadTypeOK,
     threadVars, Labels, Threads, Main, Loop
<1>13. ASSUME NEW t \in Threads, EpollDel(t) PROVE ThreadTypeOK'
  BY <1>1, IdleAssumption, <1>13 DEF EpollDel, Goto, ThreadTypeOK, threadVars,
     Labels, Threads, Main, Loop
<1>14. ASSUME NEW t \in Threads, MarkOut(t) PROVE ThreadTypeOK'
  <2>1. cur[t] \in Conns /\ t \in {Main, Loop}
    BY <1>1, <1>14, InHand DEF MarkOut, Threads
  <2>2. again' \subseteq Conns
    BY <1>1, <1>14, <2>1 DEF MarkOut, ThreadTypeOK
  <2>3. \/ t = Loop /\ pc' = [pc EXCEPT ![t] = "poll"]
        \/ t = Main /\ pc' = [pc EXCEPT ![t] = "delete_after"]
        \/ t = Main /\ pc' = [pc EXCEPT ![t] = "walk"]
    BY <1>14, <2>1 DEF MarkOut, Goto
  <2>4. pc' \in [Threads -> Labels]
    BY <1>1, <2>3 DEF ThreadTypeOK, Labels
  <2> QED
    BY <1>1, <1>14, <2>2, <2>3, <2>4 DEF MarkOut, ThreadTypeOK, Threads, Main, Loop
<1>15. CASE Walk
  BY <1>1, IdleAssumption, <1>15 DEF Walk, Goto, ThreadTypeOK, threadVars, Labels,
     Threads, Main, Loop, Accepted
<1>16. ASSUME NEW c \in Conns, Look(c) PROVE ThreadTypeOK'
  BY <1>1, IdleAssumption, <1>16 DEF Look, Goto, ThreadTypeOK, threadVars, Labels,
     Threads, Main, Loop, ConnTypeOK
<1>17. ASSUME NEW c \in Conns, Poll(c) PROVE ThreadTypeOK'
  BY <1>1, IdleAssumption, <1>17 DEF Poll, Goto, ThreadTypeOK, threadVars, Labels,
     Threads, Main, Loop, Revents
<1> QED
  BY <1>2, <1>3, <1>4, <1>5, <1>6, <1>7, <1>8, <1>9, <1>10, <1>11, <1>12, <1>13,
     <1>14,
     <1>15, <1>16, <1>17 DEF Next, ClientStep, MainStep, LoopStep, Both

\* The history keeps its types.
LEMMA HistoryType == ASSUME IInv, Next PROVE HistoryTypeOK'
<1>1. TimeTypeOK /\ KernelTypeOK /\ ConnTypeOK /\ ThreadTypeOK /\ HistoryTypeOK
  BY DEF IInv, TypeOK
<1>2. ASSUME NEW c \in Conns,
             ClientSend(c) \/ ClientFin(c) \/ ClientReset(c) \/ Look(c) \/
             DeleteAgain(c) \/ Poll(c)
      PROVE  HistoryTypeOK'
  BY <1>1, <1>2 DEF ClientSend, ClientFin, ClientReset, Look, Goto, DeleteAgain,
     Poll, HistoryTypeOK, historyVars
<1>3. ASSUME NEW t \in Threads,
             Write(t) \/ WriteNonBlocking(t) \/ WriteBrokenPipe(t) \/
             EpollFails(t) \/ EpollAdd(t) \/ MarkIn(t)
      PROVE  HistoryTypeOK'
  BY <1>1, <1>3 DEF Write, Goto, WriteNonBlocking, WriteBrokenPipe, Exit,
     EpollFails, EpollAdd, Disabled, MarkIn, HistoryTypeOK, historyVars
<1>4. ASSUME NEW t \in Threads, EpollMod(t) \/ EpollDel(t) \/ MarkOut(t)
      PROVE  HistoryTypeOK'
  BY <1>1, <1>4 DEF EpollMod, Goto, Disabled, EpollDel, MarkOut, HistoryTypeOK,
     historyVars
<1>5. CASE SendRace \/ Walk \/ WalkEnds \/ Restart \/ Arm \/ HandleHup
  BY <1>1, <1>5 DEF SendRace, Exit, Walk, Goto, WalkEnds, Restart, Arm, HandleHup,
     HistoryTypeOK, historyVars
<1>6. CASE Read
  BY <1>1, <1>6 DEF Read, Goto, HistoryTypeOK, historyVars
<1>7. CASE Tick
  BY <1>1, IdleAssumption, <1>7 DEF Tick, HistoryTypeOK, historyVars, TooLong,
     Accepted
<1>8. ASSUME NEW c \in Conns, Accept(c) PROVE HistoryTypeOK'
  BY <1>1, IdleAssumption, <1>8 DEF Accept, Stamp, HistoryTypeOK, historyVars,
     TooLong
<1>9. ASSUME NEW t \in Threads, DeleteConnection(t) PROVE HistoryTypeOK'
  BY <1>1, IdleAssumption, <1>9 DEF DeleteConnection, Goto, HistoryTypeOK,
     historyVars, ThreadTypeOK, Threads, Main, Loop
<1>10. CASE Judge
  BY <1>1, IdleAssumption, <1>10 DEF Judge, Goto, SetSendBuffer, HistoryTypeOK,
     historyVars, ThreadTypeOK, Threads, Main, Loop
<1>11. CASE OnMessage
  <2>1. mixed' \subseteq Conns
    BY <1>1, <1>11 DEF OnMessage, SetSendBuffer, HistoryTypeOK, ThreadTypeOK
  <2> QED
    BY <1>1, <1>11, <2>1 DEF OnMessage, HistoryTypeOK
<1>12. CASE SetContext
  <2>1. cur[Loop] \in Conns
    BY <1>1, <1>12 DEF SetContext, ThreadTypeOK
  <2>2. 0 \in 0 .. TooLong
    BY IdleAssumption DEF TooLong
  <2> QED
    BY <1>1, <1>12, <2>1, <2>2 DEF SetContext, Stamp, HistoryTypeOK
<1> QED
  BY <1>2, <1>3, <1>4, <1>5, <1>6, <1>7, <1>8, <1>9, <1>10, <1>11, <1>12 DEF Next,
     ClientStep, MainStep, LoopStep, Both

----------------------------------------------------------------------------
\* What happened to a client stays so.
PeerGoesOn(c) ==
  /\ peer[c] # "none" => peer'[c] # "none"
  /\ peer[c] \notin {"none", "open"} => peer'[c] \notin {"none", "open"}
  /\ Gone(c) => Gone(c)'

\* No client comes back.
LEMMA PeerStep == ASSUME IInv, Next PROVE \A d \in Conns : PeerGoesOn(d)
<1>1. TimeTypeOK /\ KernelTypeOK /\ ConnTypeOK /\ ThreadTypeOK /\ HistoryTypeOK
  BY DEF IInv, TypeOK
<1> SUFFICES ASSUME NEW d \in Conns PROVE PeerGoesOn(d)
  OBVIOUS
<1>2. ASSUME NEW c \in Conns,
             ClientSend(c) \/ ClientFin(c) \/ ClientReset(c) \/ Accept(c) \/
             Look(c) \/ DeleteAgain(c)
      PROVE  PeerGoesOn(d)
  BY <1>1, <1>2 DEF ClientSend, ClientFin, ClientReset, Accept, Stamp, Look, Goto,
     DeleteAgain, PeerGoesOn, Gone, KernelTypeOK, timeVars, kernelVars, connVars,
     threadVars, historyVars
<1>3. ASSUME NEW c \in Conns, Poll(c)
      PROVE  PeerGoesOn(d)
  BY <1>1, <1>3 DEF Poll, Goto, PeerGoesOn, Gone, KernelTypeOK, timeVars,
     kernelVars, connVars, threadVars, historyVars
<1>4. ASSUME NEW t \in Threads,
             Write(t) \/ WriteBrokenPipe(t) \/ DeleteConnection(t) \/
             EpollFails(t) \/ EpollAdd(t) \/ MarkIn(t)
      PROVE  PeerGoesOn(d)
  BY <1>1, <1>4 DEF Write, Goto, WriteBrokenPipe, Exit, DeleteConnection,
     EpollFails, EpollAdd, Disabled, MarkIn, PeerGoesOn, Gone, KernelTypeOK,
     timeVars, kernelVars, connVars, threadVars, historyVars
<1>5. ASSUME NEW t \in Threads, EpollMod(t) \/ EpollDel(t) \/ MarkOut(t)
      PROVE  PeerGoesOn(d)
  BY <1>1, <1>5 DEF EpollMod, Goto, Disabled, EpollDel, MarkOut, PeerGoesOn, Gone,
     KernelTypeOK, timeVars, kernelVars, connVars, threadVars, historyVars
<1>6. CASE Tick \/ SendRace \/ Walk \/ Judge \/ WalkEnds \/ Restart
  BY <1>1, <1>6 DEF Tick, SendRace, Exit, Walk, Goto, Judge, SetSendBuffer,
     WalkEnds, Restart, PeerGoesOn, Gone, KernelTypeOK, timeVars, kernelVars,
     connVars, threadVars, historyVars
<1>7. CASE Arm \/ HandleHup \/ OnMessage \/ SetContext
  BY <1>1, <1>7 DEF Arm, Goto, HandleHup, OnMessage, SetSendBuffer, SetContext,
     Stamp, PeerGoesOn, Gone, KernelTypeOK, timeVars, kernelVars, connVars,
     threadVars, historyVars
<1>8. ASSUME NEW t \in Threads, WriteNonBlocking(t) PROVE PeerGoesOn(d)
  BY <1>1, <1>8 DEF WriteNonBlocking, Goto, PeerGoesOn, Gone, KernelTypeOK,
     kernelVars, ErrorTaken
<1>9. CASE Read
  BY <1>1, <1>9 DEF Read, Goto, PeerGoesOn, Gone, KernelTypeOK, kernelVars,
     ErrorTaken
<1> QED
  BY <1>2, <1>3, <1>4, <1>5, <1>6, <1>7, <1>8, <1>9 DEF Next, ClientStep, MainStep,
     LoopStep, Both

\* Only Accept takes a connection into anyone's hands.
LEMMA NewStep == ASSUME IInv, Next PROVE NewInv'
<1>1. TimeTypeOK /\ KernelTypeOK /\ ConnTypeOK /\ ThreadTypeOK /\ HistoryTypeOK
  BY DEF IInv, TypeOK
<1>0. NewInv
  BY DEF IInv
<1> SUFFICES ASSUME NEW d \in Conns, peer'[d] = "none" PROVE Untouched(d)'
  BY DEF NewInv
<1>d. peer[d] = "none" /\ Untouched(d)
  BY <1>0, <1>1, PeerStep DEF PeerGoesOn, NewInv, KernelTypeOK
<1>2. CASE Tick \/ SendRace \/ Judge \/ WalkEnds \/ Restart \/ Arm
  BY <1>1, <1>d, <1>2 DEF Tick, SendRace, Exit, Judge, Goto, SetSendBuffer,
     WalkEnds, Restart, Arm, Untouched, KernelTypeOK, ConnTypeOK, ThreadTypeOK,
     Threads, Main, Loop, timeVars, kernelVars, connVars, threadVars, historyVars
<1>3. CASE HandleHup \/ Read \/ OnMessage \/ SetContext
  BY <1>1, <1>d, <1>3 DEF HandleHup, Goto, Read, OnMessage, SetSendBuffer,
     SetContext, Stamp, Untouched, KernelTypeOK, ConnTypeOK, ThreadTypeOK, Threads,
     Main, Loop, timeVars, kernelVars, connVars, threadVars, historyVars
<1>4. ASSUME NEW c \in Conns, ClientSend(c) PROVE Untouched(d)'
  BY <1>d, <1>1, <1>4 DEF ClientSend, Untouched, Gone, Revents, Accepted,
     FlagAfterDelete, Written, KernelTypeOK, ConnTypeOK, ThreadTypeOK, Threads,
     Main, Loop, timeVars, kernelVars, connVars, threadVars, historyVars
<1>5. ASSUME NEW c \in Conns, ClientFin(c) PROVE Untouched(d)'
  BY <1>d, <1>1, <1>5 DEF ClientFin, Untouched, Gone, Revents, Accepted,
     FlagAfterDelete, Written, KernelTypeOK, ConnTypeOK, ThreadTypeOK, Threads,
     Main, Loop, timeVars, kernelVars, connVars, threadVars, historyVars
<1>6. ASSUME NEW c \in Conns, ClientReset(c) PROVE Untouched(d)'
  BY <1>d, <1>1, <1>6 DEF ClientReset, Untouched, Gone, Revents, Accepted,
     FlagAfterDelete, Written, KernelTypeOK, ConnTypeOK, ThreadTypeOK, Threads,
     Main, Loop, timeVars, kernelVars, connVars, threadVars, historyVars
<1>7. ASSUME NEW c \in Conns, Accept(c) PROVE Untouched(d)'
  BY <1>d, <1>1, <1>7 DEF Accept, Stamp, Untouched, Gone, Revents, Accepted,
     FlagAfterDelete, Written, KernelTypeOK, ConnTypeOK, ThreadTypeOK, Threads,
     Main, Loop, timeVars, kernelVars, connVars, threadVars, historyVars
<1>8. ASSUME NEW t \in Threads, Write(t) PROVE Untouched(d)'
  BY <1>d, <1>1, <1>8 DEF Write, Goto, Untouched, Gone, Revents, Accepted,
     FlagAfterDelete, Written, KernelTypeOK, ConnTypeOK, ThreadTypeOK, Threads,
     Main, Loop, timeVars, kernelVars, connVars, threadVars, historyVars
<1>9. ASSUME NEW t \in Threads, WriteNonBlocking(t) PROVE Untouched(d)'
  <2>1. cur[t] # d /\ cur[t] \in Conns
    BY <1>1, <1>d, <1>9, InHand DEF WriteNonBlocking, Untouched, Threads
  <2> QED
    BY <1>d, <1>1, <1>9, <2>1 DEF WriteNonBlocking, Goto, Untouched, KernelTypeOK,
       ConnTypeOK, historyVars
<1>10. ASSUME NEW t \in Threads, WriteBrokenPipe(t) PROVE Untouched(d)'
  BY <1>d, <1>1, <1>10 DEF WriteBrokenPipe, Exit, Untouched, Gone, Revents,
     Accepted, FlagAfterDelete, Written, KernelTypeOK, ConnTypeOK, ThreadTypeOK,
     Threads, Main, Loop, timeVars, kernelVars, connVars, threadVars, historyVars
<1>11. ASSUME NEW t \in Threads, DeleteConnection(t) PROVE Untouched(d)'
  BY <1>d, <1>1, <1>11 DEF DeleteConnection, Goto, Untouched, Gone, Revents,
     Accepted, FlagAfterDelete, Written, KernelTypeOK, ConnTypeOK, ThreadTypeOK,
     Threads, Main, Loop, timeVars, kernelVars, connVars, threadVars, historyVars
<1>12. ASSUME NEW t \in Threads, EpollFails(t) PROVE Untouched(d)'
  BY <1>d, <1>1, <1>12 DEF EpollFails, Exit, Untouched, Gone, Revents, Accepted,
     FlagAfterDelete, Written, KernelTypeOK, ConnTypeOK, ThreadTypeOK, Threads,
     Main, Loop, timeVars, kernelVars, connVars, threadVars, historyVars
<1>13. ASSUME NEW t \in Threads, EpollAdd(t) PROVE Untouched(d)'
  BY <1>d, <1>1, <1>13 DEF EpollAdd, Goto, Disabled, Untouched, Gone, Revents,
     Accepted, FlagAfterDelete, Written, KernelTypeOK, ConnTypeOK, ThreadTypeOK,
     Threads, Main, Loop, timeVars, kernelVars, connVars, threadVars, historyVars
<1>14. ASSUME NEW t \in Threads, MarkIn(t) PROVE Untouched(d)'
  BY <1>d, <1>1, <1>14 DEF MarkIn, Goto, Untouched, Gone, Revents, Accepted,
     FlagAfterDelete, Written, KernelTypeOK, ConnTypeOK, ThreadTypeOK, Threads,
     Main, Loop, timeVars, kernelVars, connVars, threadVars, historyVars
<1>15. ASSUME NEW t \in Threads, EpollMod(t) PROVE Untouched(d)'
  BY <1>d, <1>1, <1>15 DEF EpollMod, Goto, Disabled, Untouched, Gone, Revents,
     Accepted, FlagAfterDelete, Written, KernelTypeOK, ConnTypeOK, ThreadTypeOK,
     Threads, Main, Loop, timeVars, kernelVars, connVars, threadVars, historyVars
<1>16. ASSUME NEW t \in Threads, EpollDel(t) PROVE Untouched(d)'
  BY <1>d, <1>1, <1>16 DEF EpollDel, Goto, Untouched, Gone, Revents, Accepted,
     FlagAfterDelete, Written, KernelTypeOK, ConnTypeOK, ThreadTypeOK, Threads,
     Main, Loop, timeVars, kernelVars, connVars, threadVars, historyVars
<1>17. ASSUME NEW t \in Threads, MarkOut(t) PROVE Untouched(d)'
  <2>1. cur[t] # d /\ cur[t] \in Conns
    BY <1>1, <1>d, <1>17, InHand DEF MarkOut, Untouched, Threads
  <2>2. d \notin again'
    <3>1. again' \in {again, again \ {cur[t]}, again \cup {cur[t]}}
      BY <1>17 DEF MarkOut, Threads
    <3> QED
      BY <1>d, <2>1, <3>1 DEF Untouched
  <2>3. inEpoll'[d] = inEpoll[d]
    BY <1>1, <1>17, <2>1 DEF MarkOut, ConnTypeOK
  <2> QED
    BY <1>d, <1>17, <2>2, <2>3 DEF MarkOut, Untouched, historyVars, kernelVars
<1>18. CASE Walk
  BY <1>d, <1>1, <1>18 DEF Walk, Goto, Untouched, Gone, Revents, Accepted,
     FlagAfterDelete, Written, KernelTypeOK, ConnTypeOK, ThreadTypeOK, Threads,
     Main, Loop, timeVars, kernelVars, connVars, threadVars, historyVars
<1>19. ASSUME NEW c \in Conns, Look(c) PROVE Untouched(d)'
  BY <1>d, <1>1, <1>19 DEF Look, Goto, Untouched, Gone, Revents, Accepted,
     FlagAfterDelete, Written, KernelTypeOK, ConnTypeOK, ThreadTypeOK, Threads,
     Main, Loop, timeVars, kernelVars, connVars, threadVars, historyVars
<1>20. ASSUME NEW c \in Conns, DeleteAgain(c) PROVE Untouched(d)'
  BY <1>d, <1>1, <1>20 DEF DeleteAgain, Goto, Untouched, Gone, Revents, Accepted,
     FlagAfterDelete, Written, KernelTypeOK, ConnTypeOK, ThreadTypeOK, Threads,
     Main, Loop, timeVars, kernelVars, connVars, threadVars, historyVars
<1>21. ASSUME NEW c \in Conns, Poll(c) PROVE Untouched(d)'
  BY <1>d, <1>1, <1>21 DEF Poll, Goto, Untouched, Gone, Revents, Accepted,
     FlagAfterDelete, Written, KernelTypeOK, ConnTypeOK, ThreadTypeOK, Threads,
     Main, Loop, timeVars, kernelVars, connVars, threadVars, historyVars
<1> QED
  BY <1>2, <1>3, <1>4, <1>5, <1>6, <1>7, <1>8, <1>9, <1>10, <1>11, <1>12, <1>13,
     <1>14,
     <1>15, <1>16, <1>17, <1>18, <1>19, <1>20, <1>21
     DEF Next, ClientStep, MainStep, LoopStep, Both

----------------------------------------------------------------------------
\* What a thread does on its connection, and what it leaves alone.
BothFlow(t) ==
  /\ UNCHANGED <<timeVars, context, cur, revent, last, todo, quiet, wrapped>>
  /\ pc'[Other(t)] = pc[Other(t)]
  /\ \A c \in Conns : /\ state'[c] = state[c] \/ state'[c] = "Closed"
                      /\ peer[c] = "none" => peer'[c] = "none"
  /\ \/ pc'[t] = pc[t]
     \/ pc[t] = "send" /\ pc'[t] \in {"write", AfterSend(t)}
     \/ pc[t] = "write" /\ pc'[t] = AfterSend(t)
     \/ pc[t] = "delete" /\ pc'[t] \in {"mod", "add"} /\ state'[cur[t]] = "Closed"
     \/ pc[t] \in {"add", "mark_in", "mod", "del"} /\ pc'[t] \in {"mark_in", "del", "mark_out"}
     \/ pc[t] = "mark_out" /\ t = Loop /\ pc'[t] = "poll"
     \/ pc[t] = "mark_out" /\ t = Main /\ pc'[t] \in {"walk", "delete_after"}

\* What the clients do, and the loop but for the context it sets, is not Main's business.
Elsewhere ==
  ClientStep \/ SendRace \/ HandleHup \/ Read \/ OnMessage \/ \E c \in Conns : Poll(c)

\* A thread that sends or deletes goes where BothFlow says.
LEMMA BothFrame ==
  ASSUME TypeOK, NEW t \in Threads, Both(t)
  PROVE  BothFlow(t)
<1>1. ThreadTypeOK /\ ConnTypeOK /\ KernelTypeOK
  BY DEF TypeOK
<1>2. Other(t) \in Threads /\ Other(t) # t
  BY DEF Other, Threads, Main, Loop
<1> USE DEF BothFlow, timeVars, kernelVars, connVars, historyVars
<1>3. CASE Write(t)
  BY <1>1, <1>2, <1>3 DEF Write, Goto, ThreadTypeOK
<1>4. CASE WriteNonBlocking(t)
  <2>1. \A c \in Conns : peer[c] = "none" => peer'[c] = "none"
    BY <1>1, <1>4 DEF WriteNonBlocking, ErrorTaken, KernelTypeOK
  <2> QED
    BY <1>1, <1>2, <1>4, <2>1 DEF WriteNonBlocking, Goto, ThreadTypeOK, ConnTypeOK
<1>5. CASE WriteBrokenPipe(t) \/ EpollFails(t)
  BY <1>1, <1>2, <1>5 DEF WriteBrokenPipe, EpollFails, Exit
<1>6. CASE DeleteConnection(t)
  <2>1. cur[t] \in Conns
    BY <1>1, <1>6, InHand DEF DeleteConnection
  <2> QED
    BY <1>1, <1>2, <1>6, <2>1 DEF DeleteConnection, Goto, ThreadTypeOK, ConnTypeOK
<1>7. CASE EpollAdd(t) \/ MarkIn(t)
  BY <1>1, <1>2, <1>7 DEF EpollAdd, MarkIn, Goto, ThreadTypeOK
<1>8. CASE EpollMod(t) \/ EpollDel(t)
  BY <1>1, <1>2, <1>8 DEF EpollMod, EpollDel, Goto, ThreadTypeOK
<1>9. CASE MarkOut(t)
  BY <1>1, <1>2, <1>9 DEF MarkOut, Goto, ThreadTypeOK, Threads
<1> QED
  BY <1>3, <1>4, <1>5, <1>6, <1>7, <1>8, <1>9 DEF Both

\* None of these steps moves Main, the clock or a context, or connects anything.
LEMMA ElsewhereFrame ==
  ASSUME TypeOK, Elsewhere
  PROVE  /\ UNCHANGED <<timeVars, context, last, todo, again, quiet, wrapped>>
         /\ cur'[Main] = cur[Main] /\ pc'[Main] = pc[Main]
         /\ \A c \in Conns : /\ state'[c] = state[c] \/ state'[c] = "Closed"
                             /\ peer[c] = "none" => peer'[c] = "none"
<1>1. ThreadTypeOK /\ ConnTypeOK /\ KernelTypeOK
  BY DEF TypeOK
<1> USE DEF timeVars, kernelVars, connVars, threadVars, historyVars
<1>2. CASE ClientStep \/ SendRace
  BY <1>1, <1>2 DEF ClientStep, ClientSend, ClientFin, ClientReset, SendRace, Exit,
     KernelTypeOK
<1>3. CASE HandleHup \/ Read
  <2>1. \A c \in Conns : peer[c] = "none" => peer'[c] = "none"
    BY <1>1, <1>3 DEF HandleHup, Read, ErrorTaken, KernelTypeOK
  <2> QED
    BY <1>1, <1>3, <2>1 DEF HandleHup, Read, Goto, ThreadTypeOK, ConnTypeOK,
       Threads, Main, Loop
<1>4. CASE OnMessage
  BY <1>1, <1>4 DEF OnMessage, SetSendBuffer, Goto, ThreadTypeOK, Threads, Main,
     Loop
<1>5. ASSUME NEW c \in Conns, Poll(c)
      PROVE  /\ UNCHANGED <<timeVars, connVars, peer, last, todo, again, quiet, wrapped>>
             /\ cur'[Main] = cur[Main] /\ pc'[Main] = pc[Main]
  BY <1>1, <1>5 DEF Poll, Goto, ThreadTypeOK, Threads, Main, Loop
<1> QED
  BY <1>2, <1>3, <1>4, <1>5 DEF Elsewhere

\* Each thread has its own part of the code.
OwnCode ==
  /\ pc[Main] \notin {"dispatch", "message", "stamp"}
  /\ pc[Loop] \notin {"walk", "judge", "delete_after", "arm"}

\* Main deletes closed connections; the loop those whose client has gone.
MainDeletes ==
  pc[Main] \in {"add", "mark_in", "mod", "del", "mark_out"} => state[cur[Main]] = "Closed"

LoopDeletes ==
  /\ pc[Loop] \in {"delete", "add", "mark_in", "mod", "del", "mark_out"} =>
       peer[cur[Loop]] \notin {"none", "open"}
  /\ pc[Loop] = "dispatch" /\ revent = "HUP" => Gone(cur[Loop])

\* A thread stays in its own code.
LEMMA OwnCodeStep == ASSUME IInv, Next PROVE OwnCode'
<1>1. TimeTypeOK /\ KernelTypeOK /\ ConnTypeOK /\ ThreadTypeOK /\ HistoryTypeOK
  BY DEF IInv, TypeOK
<1>n. NewInv /\ ThreadInv /\ OwnCode /\ MainDeletes /\ LoopDeletes
  BY DEF IInv, ThreadInv, OwnCode, MainDeletes, LoopDeletes
<1>f. TypeOK
  BY DEF IInv
<1>2. ASSUME NEW c \in Conns,
             ClientSend(c) \/ ClientFin(c) \/ ClientReset(c) \/ Accept(c) \/
             Look(c) \/ DeleteAgain(c)
      PROVE  OwnCode'
  BY <1>1, <1>n, <1>2 DEF ClientSend, ClientFin, ClientReset, Accept, Stamp, Look,
     Goto, DeleteAgain, OwnCode, ThreadTypeOK, Threads, Main, Loop, timeVars,
     kernelVars, connVars, threadVars, historyVars
<1>3. ASSUME NEW c \in Conns, Poll(c)
      PROVE  OwnCode'
  BY <1>1, <1>n, <1>3 DEF Poll, Goto, OwnCode, ThreadTypeOK, Threads, Main, Loop,
     timeVars, kernelVars, connVars, threadVars, historyVars
<1>4. CASE Tick \/ SendRace \/ Walk \/ Judge \/ WalkEnds \/ Restart
  BY <1>1, <1>n, <1>4 DEF Tick, SendRace, Exit, Walk, Goto, Judge, SetSendBuffer,
     WalkEnds, Restart, OwnCode, ThreadTypeOK, Threads, Main, Loop, timeVars,
     kernelVars, connVars, threadVars, historyVars
<1>5. CASE Arm \/ HandleHup \/ Read \/ OnMessage \/ SetContext
  BY <1>1, <1>n, <1>5 DEF Arm, Goto, HandleHup, Read, OnMessage, SetSendBuffer,
     SetContext, Stamp, OwnCode, ThreadTypeOK, Threads, Main, Loop, timeVars,
     kernelVars, connVars, threadVars, historyVars
<1>6. ASSUME NEW t \in Threads, Both(t) PROVE OwnCode'
  <2>1. BothFlow(t) /\ t \in {Main, Loop}
    BY <1>f, <1>6, BothFrame DEF Threads
  <2> QED
    BY <1>n, <2>1 DEF BothFlow, AfterSend, Other, OwnCode, Main, Loop
<1> QED
  BY <1>2, <1>3, <1>4, <1>5, <1>6 DEF Next, ClientStep, MainStep, LoopStep

\* Main goes on deleting a connection only after it has closed it.
LEMMA MainDeletesStep == ASSUME IInv, Next PROVE MainDeletes'
<1>1. TimeTypeOK /\ KernelTypeOK /\ ConnTypeOK /\ ThreadTypeOK /\ HistoryTypeOK
  BY DEF IInv, TypeOK
<1>n. NewInv /\ ThreadInv /\ OwnCode /\ MainDeletes /\ LoopDeletes
  BY DEF IInv, ThreadInv, OwnCode, MainDeletes, LoopDeletes
<1>f. TypeOK
  BY DEF IInv
<1>2. CASE Tick \/ Walk \/ Judge \/ WalkEnds \/ Restart \/ Arm
  <2>1. /\ state' = state /\ cur' = cur
        /\ \/ pc'[Main] = pc[Main]
           \/ pc'[Main] \in {"poll", "walk", "send", "delete_after", "arm"}
    BY <1>1, <1>2 DEF Tick, Walk, Judge, WalkEnds, Restart, Arm, SetSendBuffer, Goto,
       connVars, threadVars, ThreadTypeOK, Threads, Main, Loop
  <2> QED
    BY <1>n, <2>1 DEF MainDeletes
<1>3. ASSUME NEW c \in Conns, Accept(c) PROVE MainDeletes'
  BY <1>1, <1>n, <1>3 DEF Accept, Stamp, ThreadTypeOK, ConnTypeOK, KernelTypeOK,
     Threads, Main, Loop, MainDeletes, threadVars
<1>4. ASSUME NEW c \in Conns, Look(c) PROVE MainDeletes'
  BY <1>1, <1>n, <1>4 DEF Look, Goto, ThreadTypeOK, ConnTypeOK, KernelTypeOK,
     Threads, Main, Loop, MainDeletes, OwnCode, connVars, threadVars
<1>5. ASSUME NEW c \in Conns, DeleteAgain(c) PROVE MainDeletes'
  BY <1>1, <1>n, <1>5 DEF DeleteAgain, Goto, ThreadTypeOK, ConnTypeOK,
     KernelTypeOK, Threads, Main, Loop, MainDeletes, OwnCode, connVars, threadVars
<1>6. CASE SetContext
  BY <1>1, <1>n, <1>6 DEF SetContext, Goto, Stamp, ThreadTypeOK, ConnTypeOK,
     KernelTypeOK, Threads, Main, Loop, MainDeletes, OwnCode, connVars, threadVars
<1>7. ASSUME NEW t \in Threads, Both(t) PROVE MainDeletes'
  <2>1. BothFlow(t) /\ t \in {Main, Loop}
    BY <1>f, <1>7, BothFrame DEF Threads
  <2>2. pc[Main] \notin {"poll", "walk", "delete_after", "arm"} => cur[Main] \in Conns
    BY <1>1 DEF ThreadTypeOK
  <2> QED
    BY <1>n, <2>1, <2>2 DEF BothFlow, AfterSend, Other, OwnCode, MainDeletes, Main,
       Loop
<1>8. CASE Elsewhere
  <2>1. pc[Main] \in {"add", "mark_in", "mod", "del", "mark_out"} => cur[Main] \in Conns
    BY <1>1 DEF ThreadTypeOK
  <2> QED
    BY <1>n, <1>f, <1>8, <2>1, ElsewhereFrame DEF MainDeletes
<1> QED
  BY <1>2, <1>3, <1>4, <1>5, <1>6, <1>7, <1>8 DEF Next, ClientStep, MainStep,
     LoopStep, Elsewhere

\* The loop comes to delete a connection only by a FIN, a reset or an error.
LEMMA LoopDeletesStep == ASSUME IInv, Next PROVE LoopDeletes'
<1>1. TimeTypeOK /\ KernelTypeOK /\ ConnTypeOK /\ ThreadTypeOK /\ HistoryTypeOK
  BY DEF IInv, TypeOK
<1>n. NewInv /\ ThreadInv /\ OwnCode /\ MainDeletes /\ LoopDeletes
  BY DEF IInv, ThreadInv, OwnCode, MainDeletes, LoopDeletes
<1>f. TypeOK
  BY DEF IInv
<1>2. CASE Tick \/ SendRace \/ Walk \/ Judge \/ WalkEnds \/ Restart
  <2>1. CASE Tick
    BY <1>1, <1>n, <2>1 DEF Tick, LoopDeletes, OwnCode, Gone, ThreadTypeOK,
       ConnTypeOK, KernelTypeOK, Threads, Main, Loop, kernelVars, connVars,
       threadVars
  <2>2. CASE SendRace
    BY <1>1, <1>n, <2>2 DEF SendRace, Exit, LoopDeletes, OwnCode, Gone,
       ThreadTypeOK, ConnTypeOK, KernelTypeOK, Threads, Main, Loop, timeVars,
       kernelVars, connVars, historyVars
  <2>3. CASE Walk
    BY <1>1, <1>n, <2>3 DEF Walk, Goto, LoopDeletes, OwnCode, Gone,
       ThreadTypeOK, ConnTypeOK, KernelTypeOK, Threads, Main, Loop, timeVars,
       kernelVars, connVars, historyVars
  <2>4. CASE Judge
    <3>1. pc'[Loop] = pc[Loop] /\ UNCHANGED <<cur, revent, peer>>
      BY <1>1, <2>4 DEF Judge, SetSendBuffer, Goto, kernelVars, ThreadTypeOK, Threads,
         Main, Loop
    <3> QED
      BY <1>n, <3>1 DEF LoopDeletes, Gone
  <2>5. CASE WalkEnds
    BY <1>1, <1>n, <2>5 DEF Goto, WalkEnds, LoopDeletes, OwnCode, Gone,
       ThreadTypeOK, ConnTypeOK, KernelTypeOK, Threads, Main, Loop, timeVars,
       kernelVars, connVars, historyVars
  <2>6. CASE Restart
    BY <1>1, <1>n, <2>6 DEF Goto, Restart, LoopDeletes, OwnCode, Gone,
       ThreadTypeOK, ConnTypeOK, KernelTypeOK, Threads, Main, Loop,
       kernelVars, connVars, historyVars
  <2> QED
    BY <1>2, <2>1, <2>2, <2>3, <2>4, <2>5, <2>6
<1>3. CASE Arm
  BY <1>1, <1>n, <1>3 DEF Arm, Goto, LoopDeletes, OwnCode, Gone, ThreadTypeOK,
     ConnTypeOK, KernelTypeOK, Threads, Main, Loop, timeVars, kernelVars, connVars,
     threadVars, historyVars
<1>4. ASSUME NEW c \in Conns, ClientSend(c) PROVE LoopDeletes'
  BY <1>1, <1>n, <1>4 DEF ClientSend, ThreadTypeOK, ConnTypeOK, KernelTypeOK,
     Threads, Main, Loop, LoopDeletes, OwnCode, kernelVars, threadVars, Gone
<1>5. ASSUME NEW c \in Conns, ClientFin(c) PROVE LoopDeletes'
  BY <1>1, <1>n, <1>5 DEF ClientFin, ThreadTypeOK, ConnTypeOK, KernelTypeOK,
     Threads, Main, Loop, LoopDeletes, OwnCode, kernelVars, threadVars, Gone
<1>6. ASSUME NEW c \in Conns, ClientReset(c) PROVE LoopDeletes'
  BY <1>1, <1>n, <1>6 DEF ClientReset, ThreadTypeOK, ConnTypeOK, KernelTypeOK,
     Threads, Main, Loop, LoopDeletes, OwnCode, kernelVars, threadVars, Gone
<1>7. ASSUME NEW c \in Conns, Accept(c) PROVE LoopDeletes'
  BY <1>1, <1>n, <1>7 DEF Accept, Stamp, ThreadTypeOK, ConnTypeOK, KernelTypeOK,
     Threads, Main, Loop, LoopDeletes, NewInv, Untouched, threadVars, Gone
<1>8. ASSUME NEW c \in Conns, Look(c) PROVE LoopDeletes'
  BY <1>1, <1>n, <1>8 DEF Look, Goto, ThreadTypeOK, ConnTypeOK, KernelTypeOK,
     Threads, Main, Loop, LoopDeletes, OwnCode, kernelVars, threadVars, Gone
<1>9. ASSUME NEW c \in Conns, DeleteAgain(c) PROVE LoopDeletes'
  BY <1>1, <1>n, <1>9 DEF DeleteAgain, Goto, ThreadTypeOK, ConnTypeOK,
     KernelTypeOK, Threads, Main, Loop, LoopDeletes, OwnCode, kernelVars,
     threadVars, Gone
<1>10. ASSUME NEW c \in Conns, Poll(c) PROVE LoopDeletes'
  BY <1>1, <1>n, <1>10 DEF Poll, Goto, ThreadTypeOK, ConnTypeOK, KernelTypeOK,
     Threads, Main, Loop, LoopDeletes, Revents, Gone, OwnCode
<1>11. CASE HandleHup
  BY <1>1, <1>n, <1>11 DEF HandleHup, Goto, ThreadTypeOK, ConnTypeOK, KernelTypeOK,
     Threads, Main, Loop, LoopDeletes, OwnCode, kernelVars, threadVars, Gone
<1>12. CASE Read
  <2>1. /\ pc[Loop] = "dispatch" /\ cur' = cur
        /\ pc'[Loop] \in {"poll", "message", "delete"}
        /\ pc'[Loop] = "delete" => peer[cur[Loop]] # "open"
    BY <1>1, <1>12 DEF Read, Goto, ThreadTypeOK, Threads, Main, Loop
  <2>2. cur[Loop] \in Conns
    BY <1>1, <1>12 DEF Read, ThreadTypeOK
  <2>3. peer[cur[Loop]] # "none"
    BY <1>n, <2>2 DEF NewInv, Untouched
  <2> QED
    BY <2>1, <2>2, <2>3, PeerStep DEF LoopDeletes, PeerGoesOn
<1>13. CASE OnMessage
  <2>1. pc'[Loop] \in {"send", "poll"} /\ UNCHANGED <<cur, revent, peer>>
    BY <1>1, <1>13 DEF OnMessage, SetSendBuffer, Goto, kernelVars, ThreadTypeOK,
       Threads
  <2> QED
    BY <1>n, <2>1 DEF LoopDeletes, Gone
<1>14. CASE SetContext
  BY <1>1, <1>n, <1>14 DEF SetContext, Goto, Stamp, ThreadTypeOK, ConnTypeOK,
     KernelTypeOK, Threads, Main, Loop, LoopDeletes, OwnCode, kernelVars,
     threadVars, Gone
<1>15. ASSUME NEW t \in Threads, Both(t) PROVE LoopDeletes'
  <2>1. BothFlow(t) /\ t \in {Main, Loop}
    BY <1>f, <1>15, BothFrame DEF Threads
  <2>2. pc[Loop] # "poll" => PeerGoesOn(cur[Loop])
    BY <1>1, PeerStep DEF ThreadTypeOK
  <2> QED
    BY <1>n, <2>1, <2>2 DEF BothFlow, AfterSend, Other, LoopDeletes, PeerGoesOn,
       Main, Loop
<1> QED
  BY <1>2, <1>3, <1>4, <1>5, <1>6, <1>7, <1>8, <1>9, <1>10, <1>11, <1>12, <1>13,
     <1>14,
     <1>15 DEF Next, ClientStep, MainStep, LoopStep

\* The three together are ThreadInv.
LEMMA ThreadStep == ASSUME IInv, Next PROVE ThreadInv'
BY OwnCodeStep, MainDeletesStep, LoopDeletesStep DEF ThreadInv, OwnCode, MainDeletes,
   LoopDeletes

\* Only a deletion by a loop makes one that is under way the second.
LEMMA TwiceStep == ASSUME IInv, Next PROVE TwiceInv'
<1>1. /\ TypeOK /\ ThreadInv /\ TwiceInv /\ ThreadInv'
      /\ \A d \in Conns : PeerGoesOn(d)
  BY PeerStep, ThreadStep DEF IInv
<1> SUFFICES ASSUME NEW d \in twice' PROVE peer'[d] \notin {"none", "open"}
  BY DEF TwiceInv
<1>2. CASE d \in twice
  BY <1>1, <1>2 DEF TwiceInv, PeerGoesOn, TypeOK, HistoryTypeOK
<1>3. CASE d \notin twice
  <2>1. PICK t \in Threads : DeleteConnection(t) /\ cur[t] = d /\ Deleting(Other(t), d)
    <3>1. CASE Tick \/ ClientStep \/ SendRace
      BY <1>3, <3>1 DEF Tick, ClientStep, SendRace, ClientSend, ClientFin,
         ClientReset, historyVars
    <3>2. CASE MainStep
      BY <1>3, <3>2 DEF MainStep, Walk, Judge, WalkEnds, Restart, Arm, Accept,
         Look, DeleteAgain, historyVars
    <3>3. CASE LoopStep
      BY <1>3, <3>3 DEF LoopStep, HandleHup, Read, OnMessage, SetContext, Poll,
         historyVars
    <3>4. ASSUME NEW t \in Threads, Both(t)
          PROVE  DeleteConnection(t) /\ cur[t] = d /\ Deleting(Other(t), d)
      BY <1>3, <3>4 DEF Both, Write, WriteNonBlocking, WriteBrokenPipe,
         DeleteConnection, EpollFails, EpollAdd, MarkIn, EpollMod, EpollDel,
         MarkOut, historyVars
    <3> QED
      BY <3>1, <3>2, <3>3, <3>4 DEF Next
  <2>2. /\ cur[Loop] = d
        /\ pc[Loop] \in {"delete", "add", "mark_in", "mod", "del", "mark_out"}
    BY <2>1 DEF DeleteConnection, Deleting, Other, Threads, Main, Loop
  <2>3. cur[Loop] \in Conns
    BY <1>1, <2>2 DEF TypeOK, ThreadTypeOK
  <2> QED
    BY <1>1, <2>2, <2>3 DEF ThreadInv, PeerGoesOn
<1> QED
  BY <1>2, <1>3

\* An epoll_ctl fails on a connection that both threads delete.
LEMMA ExitStep == ASSUME IInv, Next PROVE ExitIsExplained'
<1>1. TypeOK /\ RegInv /\ TwiceInv /\ exited = "no" /\ TwiceInv'
  BY TwiceStep DEF IInv, Next
<1> SUFFICES ASSUME exited' = "epoll" PROVE ExitIsExplained'
  BY DEF ExitIsExplained
<1>2. PICK t \in Threads : EpollFails(t)
  <2>1. CASE Tick \/ ClientStep \/ SendRace
    BY <1>1, <2>1 DEF Tick, ClientStep, SendRace, ClientSend, ClientFin,
       ClientReset, Exit
  <2>2. CASE MainStep
    BY <1>1, <2>2 DEF MainStep, Walk, Judge, WalkEnds, Restart, Arm, Accept, Look,
       DeleteAgain
  <2>3. CASE LoopStep
    BY <1>1, <2>3 DEF LoopStep, HandleHup, Read, OnMessage, SetContext, Poll
  <2>4. ASSUME NEW t \in Threads, Both(t) PROVE EpollFails(t)
    BY <1>1, <2>4 DEF Both, Write, WriteNonBlocking, WriteBrokenPipe,
       DeleteConnection, EpollFails, EpollAdd, MarkIn, EpollMod, EpollDel, MarkOut,
       Exit
  <2> QED
    BY <2>1, <2>2, <2>3, <2>4 DEF Next
<1>3. cur[t] \in Conns
  BY <1>1, <1>2, InHand DEF EpollFails, TypeOK
<1>4. cur[t] \in twice
  BY <1>1, <1>2, <1>3 DEF EpollFails, RegInv, DeletedInTurn, Deleting, Registered,
     Threads
<1>5. twice' = twice
  BY <1>2 DEF EpollFails, historyVars
<1> QED
  BY <1>1, <1>4, <1>5 DEF ExitIsExplained, TwiceInv

----------------------------------------------------------------------------
\* A race stays on record.
LEMMA RacesStay == ASSUME Next PROVE mixed \subseteq mixed' /\ twice \subseteq twice'
<1>1. ASSUME NEW c \in Conns,
             ClientSend(c) \/ ClientFin(c) \/ ClientReset(c) \/ Accept(c)
      PROVE  mixed \subseteq mixed' /\ twice \subseteq twice'
  BY <1>1 DEF ClientSend, ClientFin, ClientReset, Accept, historyVars
<1>2. CASE MainStep
  BY <1>2 DEF MainStep, Walk, Judge, WalkEnds, Restart, Arm, Accept, Look,
     DeleteAgain, SetSendBuffer, historyVars
<1>3. CASE LoopStep
  BY <1>3 DEF LoopStep, HandleHup, Read, OnMessage, SetContext, Poll,
     SetSendBuffer, historyVars
<1>4. ASSUME NEW t \in Threads,
             Both(t) PROVE mixed \subseteq mixed' /\ twice \subseteq twice'
  BY <1>4 DEF Both, Write, WriteNonBlocking, WriteBrokenPipe, DeleteConnection,
     EpollFails, EpollAdd, MarkIn, EpollMod, EpollDel, MarkOut, historyVars
<1>5. CASE Tick \/ SendRace
  BY <1>5 DEF Tick, SendRace, historyVars
<1> QED
  BY <1>1, <1>2, <1>3, <1>4, <1>5 DEF Next, ClientStep

\* Threads that take turns on a connection find their own texts in the buffers.
LEMMA SendStep == ASSUME IInv, Next PROVE SendInv'
<1>1. TimeTypeOK /\ KernelTypeOK /\ ConnTypeOK /\ ThreadTypeOK /\ HistoryTypeOK
  BY DEF IInv, TypeOK
<1>n. NewInv /\ ThreadInv
  BY DEF IInv
<1> SUFFICES ASSUME NEW d \in Conns, d \notin mixed' PROVE SentInTurn(d)'
  BY DEF SendInv
<1>d. d \notin mixed /\ SentInTurn(d)
  BY RacesStay DEF IInv, SendInv
<1>2. ASSUME NEW c \in Conns,
             ClientSend(c) \/ ClientFin(c) \/ ClientReset(c) \/ Look(c) \/
             DeleteAgain(c) \/ Poll(c)
      PROVE  SentInTurn(d)'
  <2>1. CASE ClientSend(c)
    BY <1>1, <1>d, <2>1 DEF ClientSend, SentInTurn, HasText, Sending, AtWork,
       Other, Threads, Main, Loop, ConnTypeOK, ThreadTypeOK, timeVars,
       connVars, threadVars, historyVars
  <2>2. CASE ClientFin(c)
    BY <1>1, <1>d, <2>2 DEF ClientFin, SentInTurn, HasText, Sending, AtWork,
       Other, Threads, Main, Loop, ConnTypeOK, ThreadTypeOK, timeVars,
       connVars, threadVars, historyVars
  <2>3. CASE ClientReset(c)
    BY <1>1, <1>d, <2>3 DEF ClientReset, SentInTurn, HasText, Sending,
       AtWork, Other, Threads, Main, Loop, ConnTypeOK, ThreadTypeOK,
       timeVars, connVars, threadVars, historyVars
  <2>4. CASE Look(c)
    BY <1>1, <1>d, <2>4 DEF Look, Goto, SentInTurn, HasText, Sending, AtWork,
       Other, Threads, Main, Loop, ConnTypeOK, ThreadTypeOK, timeVars,
       kernelVars, connVars, historyVars
  <2>5. CASE DeleteAgain(c)
    BY <1>1, <1>d, <2>5 DEF Goto, DeleteAgain, SentInTurn, HasText, Sending,
       AtWork, Other, Threads, Main, Loop, ConnTypeOK, ThreadTypeOK,
       timeVars, kernelVars, connVars, historyVars
  <2>6. CASE Poll(c)
    BY <1>1, <1>d, <2>6 DEF Goto, Poll, SentInTurn, HasText, Sending, AtWork,
       Other, Threads, Main, Loop, ConnTypeOK, ThreadTypeOK, timeVars,
       connVars, historyVars
  <2> QED
    BY <1>2, <2>1, <2>2, <2>3, <2>4, <2>5, <2>6
<1>3. ASSUME NEW t \in Threads,
             WriteBrokenPipe(t) \/ EpollFails(t) \/ EpollAdd(t) \/ MarkIn(t) \/
             EpollMod(t) \/ EpollDel(t)
      PROVE  SentInTurn(d)'
  <2>1. CASE WriteBrokenPipe(t)
    BY <1>1, <1>d, <2>1 DEF WriteBrokenPipe, Exit, SentInTurn, HasText,
       Sending, AtWork, Other, Threads, Main, Loop, ConnTypeOK, ThreadTypeOK,
       timeVars, kernelVars, connVars, historyVars
  <2>2. CASE EpollFails(t)
    BY <1>1, <1>d, <2>2 DEF Exit, EpollFails, SentInTurn, HasText, Sending,
       AtWork, Other, Threads, Main, Loop, ConnTypeOK, ThreadTypeOK,
       timeVars, kernelVars, connVars, historyVars
  <2>3. CASE EpollAdd(t)
    BY <1>1, <1>d, <2>3 DEF EpollAdd, Goto, Disabled, SentInTurn, HasText,
       Sending, AtWork, Other, Threads, Main, Loop, ConnTypeOK, ThreadTypeOK,
       timeVars, connVars, historyVars
  <2>4. CASE MarkIn(t)
    BY <1>1, <1>d, <2>4 DEF Goto, MarkIn, SentInTurn, HasText, Sending,
       AtWork, Other, Threads, Main, Loop, ConnTypeOK, ThreadTypeOK,
       timeVars, kernelVars, historyVars
  <2>5. CASE EpollMod(t)
    BY <1>1, <1>d, <2>5 DEF Goto, Disabled, EpollMod, SentInTurn, HasText,
       Sending, AtWork, Other, Threads, Main, Loop, ConnTypeOK, ThreadTypeOK,
       timeVars, connVars, historyVars
  <2>6. CASE EpollDel(t)
    BY <1>1, <1>d, <2>6 DEF Goto, EpollDel, SentInTurn, HasText, Sending,
       AtWork, Other, Threads, Main, Loop, ConnTypeOK, ThreadTypeOK,
       timeVars, connVars, historyVars
  <2> QED
    BY <1>3, <2>1, <2>2, <2>3, <2>4, <2>5, <2>6
<1>4. CASE Tick \/ SendRace \/ Walk \/ WalkEnds \/ Restart \/ Arm
  BY <1>1, <1>d, <1>4 DEF Tick, SendRace, Exit, Walk, Goto, WalkEnds, Restart, Arm,
     SentInTurn, HasText, Sending, AtWork, Other, Threads, Main, Loop, ConnTypeOK,
     ThreadTypeOK, timeVars, kernelVars, connVars, threadVars, historyVars
<1>5. CASE HandleHup \/ SetContext
  BY <1>1, <1>d, <1>5 DEF HandleHup, Goto, SetContext, Stamp, SentInTurn, HasText,
     Sending, AtWork, Other, Threads, Main, Loop, ConnTypeOK, ThreadTypeOK,
     timeVars, kernelVars, connVars, threadVars, historyVars
<1>6. ASSUME NEW c \in Conns, Accept(c) PROVE SentInTurn(d)'
  BY <1>1, <1>d, <1>n, <1>6 DEF Accept, Stamp, SentInTurn, HasText, Sending,
     AtWork, Other, Threads, Main, Loop, ConnTypeOK, ThreadTypeOK, NewInv,
     Untouched, KernelTypeOK, connVars, threadVars
<1>7. ASSUME NEW t \in Threads, Write(t) PROVE SentInTurn(d)'
  <2>1. CASE t = Main
    BY <1>1, <1>d, <1>7, <2>1 DEF Write, Goto, SentInTurn, HasText, Sending,
       AtWork, Other, Threads, Main, Loop, ConnTypeOK, ThreadTypeOK, Writable,
       AfterSend, connVars, kernelVars
  <2>2. CASE t = Loop
    BY <1>1, <1>d, <1>7, <2>2 DEF Write, Goto, SentInTurn, HasText, Sending,
       AtWork, Other, Threads, Main, Loop, ConnTypeOK, ThreadTypeOK, Writable,
       AfterSend, connVars, kernelVars
  <2> QED
    BY <2>1, <2>2 DEF Threads
<1>8. ASSUME NEW t \in Threads, WriteNonBlocking(t) PROVE SentInTurn(d)'
  <2>1. cur[t] \in Conns /\ t \in {Main, Loop}
    BY <1>1, <1>8, InHand DEF WriteNonBlocking, Threads
  <2>2. \/ out'[d] = out[d]
        \/ cur[t] = d /\ out'[d] = Written(d, buf[t])
    <3>1. out' = out \/ out' = [out EXCEPT ![cur[t]] = Written(cur[t], buf[t])]
      BY <1>8 DEF WriteNonBlocking
    <3> QED
      BY <1>1, <2>1, <3>1 DEF KernelTypeOK
  <2>3. /\ cur' = cur /\ mixed' = mixed /\ pc' = [pc EXCEPT ![t] = AfterSend(t)]
        /\ sendBuf' = [sendBuf EXCEPT ![cur[t]] = ""] /\ buf' = [buf EXCEPT ![t] = ""]
        /\ state'[d] = state[d] \/ state'[d] = "Closed"
    BY <1>1, <1>8, <2>1 DEF WriteNonBlocking, Goto, historyVars, ConnTypeOK
  <2>4. CASE cur[t] # d
    <3>1. out'[d] = out[d] /\ sendBuf'[d] = sendBuf[d]
      BY <1>1, <2>1, <2>2, <2>3, <2>4 DEF ConnTypeOK
    <3>2. CASE t = Main
      BY <1>1, <1>d, <2>1, <2>3, <2>4, <3>1, <3>2 DEF SentInTurn, HasText, Sending,
         Main, Loop, ThreadTypeOK, Threads
    <3>3. CASE t = Loop
      BY <1>1, <1>d, <2>1, <2>3, <2>4, <3>1, <3>3 DEF SentInTurn, HasText, Sending,
         Main, Loop, ThreadTypeOK, Threads
    <3> QED
      BY <2>1, <3>2, <3>3
  <2>5. CASE cur[t] = d /\ t = Main
    <3>1. buf[Main] = "clear" /\ out[d] = "echoes" /\ ~Sending(Loop, d)
      BY <1>1, <1>d, <1>8, <2>5 DEF WriteNonBlocking, SentInTurn, HasText, Sending,
         KernelTypeOK
    <3>2. out'[d] \in {"echoes", "cleared"}
      BY <2>2, <2>5, <3>1 DEF Written
    <3>3. pc'[Main] = "delete" /\ pc'[Loop] = pc[Loop]
      BY <1>1, <2>3, <2>5 DEF AfterSend, ThreadTypeOK, Threads, Main, Loop
    <3> QED
      BY <1>d, <2>3, <2>5, <3>1, <3>2, <3>3 DEF SentInTurn, HasText, Sending
  <2>6. CASE cur[t] = d /\ t = Loop
    <3>1. buf[Loop] = "echo" /\ out[d] = "echoes" /\ ~Sending(Main, d)
      BY <1>1, <1>d, <1>8, <2>6 DEF WriteNonBlocking, SentInTurn, HasText, Sending,
         KernelTypeOK
    <3>2. out'[d] = "echoes"
      BY <2>2, <2>6, <3>1 DEF Written
    <3>3. pc'[Loop] = "stamp" /\ pc'[Main] = pc[Main]
      BY <1>1, <2>3, <2>6 DEF AfterSend, ThreadTypeOK, Threads, Main, Loop
    <3> QED
      BY <1>d, <2>3, <2>6, <3>1, <3>2, <3>3 DEF SentInTurn, HasText, Sending
  <2> QED
    BY <2>1, <2>4, <2>5, <2>6
<1>9. ASSUME NEW t \in Threads, DeleteConnection(t) PROVE SentInTurn(d)'
  <2>1. CASE t = Main
    BY <1>1, <1>d, <1>9, <2>1 DEF DeleteConnection, Goto, SentInTurn, HasText,
       Sending, AtWork, Other, Threads, Main, Loop, ConnTypeOK, ThreadTypeOK,
       kernelVars
  <2>2. CASE t = Loop
    BY <1>1, <1>d, <1>9, <2>2 DEF DeleteConnection, Goto, SentInTurn, HasText,
       Sending, AtWork, Other, Threads, Main, Loop, ConnTypeOK, ThreadTypeOK,
       kernelVars
  <2> QED
    BY <2>1, <2>2 DEF Threads
<1>10. ASSUME NEW t \in Threads, MarkOut(t) PROVE SentInTurn(d)'
  <2>1. CASE t = Main
    BY <1>1, <1>d, <1>10, <2>1 DEF MarkOut, Goto, SentInTurn, HasText, Sending,
       AtWork, Other, Threads, Main, Loop, ConnTypeOK, ThreadTypeOK, kernelVars
  <2>2. CASE t = Loop
    BY <1>1, <1>d, <1>10, <2>2 DEF MarkOut, Goto, SentInTurn, HasText, Sending,
       AtWork, Other, Threads, Main, Loop, ConnTypeOK, ThreadTypeOK, kernelVars
  <2> QED
    BY <2>1, <2>2 DEF Threads
<1>11. CASE Judge
  <2>1. CASE cur[Main] = d
    <3>1. /\ pc[Main] = "judge" /\ pc'[Loop] = pc[Loop] /\ cur' = cur /\ buf' = buf
          /\ out' = out /\ state' = state
      BY <1>1, <1>11 DEF Judge, Goto, SetSendBuffer, ThreadTypeOK, Threads, Main, Loop,
         kernelVars
    <3>2. CASE Idle
      <4>1. /\ pc'[Main] = "send" /\ sendBuf'[d] = "clear"
            /\ mixed' = IF AtWork(Loop, d) THEN mixed \cup {d} ELSE mixed
        BY <1>1, <1>11, <2>1, <3>2 DEF Judge, Goto, SetSendBuffer, Other, ThreadTypeOK,
           ConnTypeOK, Threads, Main, Loop
      <4>2. ~AtWork(Loop, d)
        BY <1>d, <4>1
      <4> QED
        BY <1>d, <2>1, <3>1, <4>1, <4>2 DEF SentInTurn, HasText, Sending, AtWork
    <3>3. CASE ~Idle
      <4>1. pc'[Main] = "walk" /\ sendBuf' = sendBuf /\ mixed' = mixed
        BY <1>1, <1>11, <3>3 DEF Judge, Goto, ThreadTypeOK, Threads, Main
      <4> QED
        BY <1>d, <2>1, <3>1, <4>1 DEF SentInTurn, HasText, Sending
    <3> QED
      BY <3>2, <3>3
  <2>2. CASE cur[Main] # d
    BY <1>1, <1>d, <1>11, <2>2 DEF Judge, Goto, SetSendBuffer, SentInTurn, HasText,
       Sending, AtWork, Other, Threads, Main, Loop, ConnTypeOK, ThreadTypeOK,
       kernelVars, HistoryTypeOK
  <2> QED
    BY <2>1, <2>2
<1>12. CASE Read
  <2>1. /\ pc[Loop] = "dispatch" /\ pc'[Main] = pc[Main] /\ cur' = cur /\ buf' = buf
        /\ sendBuf' = sendBuf /\ out' = out /\ mixed' = mixed
        /\ pc'[Loop] \in {"poll", "message", "delete"}
    BY <1>1, <1>12 DEF Read, Goto, ThreadTypeOK, Threads, Main, Loop, historyVars
  <2>2. state'[d] = state[d] \/ state'[d] = "Closed"
    BY <1>1, <1>12 DEF Read, ConnTypeOK
  <2> QED
    BY <1>d, <2>1, <2>2 DEF SentInTurn, HasText, Sending
<1>13. CASE OnMessage
  BY <1>1, <1>d, <1>13 DEF OnMessage, Goto, SetSendBuffer, SentInTurn, HasText,
     Sending, AtWork, Other, Threads, Main, Loop, ConnTypeOK, ThreadTypeOK,
     kernelVars, HistoryTypeOK
<1> QED
  BY <1>2, <1>3, <1>4, <1>5, <1>6, <1>7, <1>8, <1>9, <1>10, <1>11, <1>12, <1>13 DEF
     Next, ClientStep, MainStep, LoopStep, Both

\* A step that registers nothing and begins or ends no deletion.
LEMMA SameDeletion ==
  ASSUME NEW d \in Conns, DeletedInTurn(d),
         interest'[d] = interest[d], inEpoll'[d] = inEpoll[d],
         \A t \in {Main, Loop} :
           /\ Deleting(t, d)' <=> Deleting(t, d)
           /\ Deleting(t, d) => pc'[t] = pc[t]
  PROVE  DeletedInTurn(d)'
BY DEF DeletedInTurn, Registered

\* Threads that take turns to delete a connection register what they believe.
LEMMA RegStep == ASSUME IInv, Next PROVE RegInv'
<1>1. TimeTypeOK /\ KernelTypeOK /\ ConnTypeOK /\ ThreadTypeOK /\ HistoryTypeOK
  BY DEF IInv, TypeOK
<1>n. NewInv
  BY DEF IInv
<1> SUFFICES ASSUME NEW d \in Conns, d \notin twice' PROVE DeletedInTurn(d)'
  BY DEF RegInv
<1>d. d \notin twice /\ DeletedInTurn(d)
  BY RacesStay DEF IInv, RegInv
<1>2. ASSUME NEW c \in Conns, ClientSend(c) \/ ClientFin(c) \/ ClientReset(c)
      PROVE  DeletedInTurn(d)'
  <2>1. interest'[d] = interest[d] /\ inEpoll'[d] = inEpoll[d]
    BY <1>1, <1>2 DEF ClientSend, ClientFin, ClientReset, kernelVars, connVars,
       threadVars
  <2>2. \A u \in {Main, Loop} : /\ Deleting(u, d)' <=> Deleting(u, d)
                                /\ Deleting(u, d) => pc'[u] = pc[u]
    BY <1>1, <1>2 DEF ClientSend, ClientFin, ClientReset, kernelVars, connVars,
       threadVars, Deleting, ThreadTypeOK, Threads, Main, Loop, AfterSend
  <2> QED
    BY <1>d, <2>1, <2>2, SameDeletion
<1>3. ASSUME NEW c \in Conns, Look(c) \/ DeleteAgain(c) \/ Poll(c)
      PROVE  DeletedInTurn(d)'
  <2>1. interest'[d] = interest[d] /\ inEpoll'[d] = inEpoll[d]
    BY <1>1, <1>3 DEF Look, Goto, DeleteAgain, Poll, kernelVars, connVars,
       threadVars
  <2>2. \A u \in {Main, Loop} : /\ Deleting(u, d)' <=> Deleting(u, d)
                                /\ Deleting(u, d) => pc'[u] = pc[u]
    BY <1>1, <1>3 DEF Look, Goto, DeleteAgain, Poll, kernelVars, connVars,
       threadVars, Deleting, ThreadTypeOK, Threads, Main, Loop, AfterSend
  <2> QED
    BY <1>d, <2>1, <2>2, SameDeletion
<1>4. CASE Tick \/ SendRace \/ Walk \/ Judge \/ WalkEnds
  <2>1. interest'[d] = interest[d] /\ inEpoll'[d] = inEpoll[d]
    BY <1>1, <1>4 DEF Tick, SendRace, Exit, Walk, Goto, Judge, SetSendBuffer,
       WalkEnds, kernelVars, connVars, threadVars
  <2>2. \A u \in {Main, Loop} : /\ Deleting(u, d)' <=> Deleting(u, d)
                                /\ Deleting(u, d) => pc'[u] = pc[u]
    BY <1>1, <1>4 DEF Tick, SendRace, Exit, Walk, Goto, Judge, SetSendBuffer,
       WalkEnds, kernelVars, connVars, threadVars, Deleting, ThreadTypeOK, Threads,
       Main, Loop, AfterSend
  <2> QED
    BY <1>d, <2>1, <2>2, SameDeletion
<1>5. CASE Restart \/ Arm
  <2>1. interest'[d] = interest[d] /\ inEpoll'[d] = inEpoll[d]
    BY <1>1, <1>5 DEF Restart, Goto, Arm, kernelVars, connVars, threadVars
  <2>2. \A u \in {Main, Loop} : /\ Deleting(u, d)' <=> Deleting(u, d)
                                /\ Deleting(u, d) => pc'[u] = pc[u]
    BY <1>1, <1>5 DEF Restart, Goto, Arm, kernelVars, connVars, threadVars,
       Deleting, ThreadTypeOK, Threads, Main, Loop, AfterSend
  <2> QED
    BY <1>d, <2>1, <2>2, SameDeletion
<1>6. CASE HandleHup \/ Read \/ OnMessage \/ SetContext
  <2>1. interest'[d] = interest[d] /\ inEpoll'[d] = inEpoll[d]
    BY <1>1, <1>6 DEF HandleHup, Goto, Read, OnMessage, SetSendBuffer, SetContext,
       Stamp, kernelVars, connVars, threadVars
  <2>2. \A u \in {Main, Loop} : /\ Deleting(u, d)' <=> Deleting(u, d)
                                /\ Deleting(u, d) => pc'[u] = pc[u]
    BY <1>1, <1>6 DEF HandleHup, Goto, Read, OnMessage, SetSendBuffer, SetContext,
       Stamp, kernelVars, connVars, threadVars, Deleting, ThreadTypeOK, Threads,
       Main, Loop, AfterSend
  <2> QED
    BY <1>d, <2>1, <2>2, SameDeletion
<1>7. ASSUME NEW t \in Threads, Write(t) \/ WriteNonBlocking(t)
      PROVE  DeletedInTurn(d)'
  <2>1. interest'[d] = interest[d] /\ inEpoll'[d] = inEpoll[d]
    BY <1>1, <1>7 DEF Write, Goto, WriteNonBlocking, kernelVars, connVars,
       threadVars
  <2>2. \A u \in {Main, Loop} : /\ Deleting(u, d)' <=> Deleting(u, d)
                                /\ Deleting(u, d) => pc'[u] = pc[u]
    BY <1>1, <1>7 DEF Write, Goto, WriteNonBlocking, kernelVars, connVars,
       threadVars, Deleting, ThreadTypeOK, Threads, Main, Loop, AfterSend
  <2> QED
    BY <1>d, <2>1, <2>2, SameDeletion
<1>8. ASSUME NEW t \in Threads, WriteBrokenPipe(t) \/ EpollFails(t)
      PROVE  DeletedInTurn(d)'
  <2>1. interest'[d] = interest[d] /\ inEpoll'[d] = inEpoll[d]
    BY <1>1, <1>8 DEF WriteBrokenPipe, Exit, EpollFails, kernelVars, connVars,
       threadVars
  <2>2. \A u \in {Main, Loop} : /\ Deleting(u, d)' <=> Deleting(u, d)
                                /\ Deleting(u, d) => pc'[u] = pc[u]
    BY <1>1, <1>8 DEF WriteBrokenPipe, Exit, EpollFails, kernelVars, connVars,
       threadVars, Deleting, ThreadTypeOK, Threads, Main, Loop, AfterSend
  <2> QED
    BY <1>d, <2>1, <2>2, SameDeletion
<1>9. ASSUME NEW c \in Conns, Accept(c) PROVE DeletedInTurn(d)'
  <2>1. CASE d = c
    <3>1. cur[Main] # d /\ cur[Loop] # d
      BY <1>n, <1>9, <2>1 DEF Accept, NewInv, Untouched
    <3>2. interest'[d] = "in" /\ inEpoll'[d] /\ cur' = cur
      BY <1>1, <1>9, <2>1 DEF Accept, threadVars, KernelTypeOK, ConnTypeOK
    <3> QED
      BY <3>1, <3>2 DEF DeletedInTurn, Deleting
  <2>2. CASE d # c
    <3>1. interest'[d] = interest[d] /\ inEpoll'[d] = inEpoll[d] /\ cur' = cur /\ pc' = pc
      BY <1>1, <1>9, <2>2 DEF Accept, KernelTypeOK, ConnTypeOK, threadVars
    <3> QED
      BY <1>d, <3>1, SameDeletion DEF Deleting
  <2> QED
    BY <2>1, <2>2
<1>10. ASSUME NEW t \in Threads, DeleteConnection(t) PROVE DeletedInTurn(d)'
  <2>1. CASE t = Main
    <3>1. /\ pc'[Main] = IF inEpoll[cur[Main]] THEN "mod" ELSE "add"
          /\ pc'[Loop] = pc[Loop] /\ UNCHANGED <<cur, interest, inEpoll>>
          /\ Deleting(Loop, cur[Main]) => cur[Main] \in twice'
          /\ pc[Main] = "delete"
      BY <1>1, <1>10, <2>1 DEF DeleteConnection, Goto, Other, Threads, Main, Loop,
         ThreadTypeOK, kernelVars
    <3> QED
      BY <1>d, <3>1 DEF DeletedInTurn, Registered, Deleting
  <2>2. CASE t = Loop
    <3>1. /\ pc'[Loop] = IF inEpoll[cur[Loop]] THEN "mod" ELSE "add"
          /\ pc'[Main] = pc[Main] /\ UNCHANGED <<cur, interest, inEpoll>>
          /\ Deleting(Main, cur[Loop]) => cur[Loop] \in twice'
          /\ pc[Loop] = "delete"
      BY <1>1, <1>10, <2>2 DEF DeleteConnection, Goto, Other, Threads, Main, Loop,
         ThreadTypeOK, kernelVars
    <3> QED
      BY <1>d, <3>1 DEF DeletedInTurn, Registered, Deleting
  <2> QED
    BY <2>1, <2>2 DEF Threads
<1>11. ASSUME NEW t \in Threads, EpollAdd(t) PROVE DeletedInTurn(d)'
  <2>1. CASE t = Main
    BY <1>1, <1>d, <1>11, <2>1 DEF EpollAdd, Goto, Disabled, DeletedInTurn,
       Registered, Deleting, Other, Threads, Main, Loop, KernelTypeOK, ConnTypeOK,
       ThreadTypeOK, kernelVars, connVars, threadVars, Disabled
  <2>2. CASE t = Loop
    BY <1>1, <1>d, <1>11, <2>2 DEF EpollAdd, Goto, Disabled, DeletedInTurn,
       Registered, Deleting, Other, Threads, Main, Loop, KernelTypeOK, ConnTypeOK,
       ThreadTypeOK, kernelVars, connVars, threadVars, Disabled
  <2> QED
    BY <2>1, <2>2 DEF Threads
<1>12. ASSUME NEW t \in Threads, MarkIn(t) PROVE DeletedInTurn(d)'
  <2>1. CASE t = Main
    BY <1>1, <1>d, <1>12, <2>1 DEF MarkIn, Goto, DeletedInTurn, Registered,
       Deleting, Other, Threads, Main, Loop, KernelTypeOK, ConnTypeOK,
       ThreadTypeOK, kernelVars, connVars, threadVars
  <2>2. CASE t = Loop
    BY <1>1, <1>d, <1>12, <2>2 DEF MarkIn, Goto, DeletedInTurn, Registered,
       Deleting, Other, Threads, Main, Loop, KernelTypeOK, ConnTypeOK,
       ThreadTypeOK, kernelVars, connVars, threadVars
  <2> QED
    BY <2>1, <2>2 DEF Threads
<1>13. ASSUME NEW t \in Threads, EpollMod(t) PROVE DeletedInTurn(d)'
  <2>1. CASE t = Main
    BY <1>1, <1>d, <1>13, <2>1 DEF EpollMod, Goto, Disabled, DeletedInTurn,
       Registered, Deleting, Other, Threads, Main, Loop, KernelTypeOK, ConnTypeOK,
       ThreadTypeOK, kernelVars, connVars, threadVars, Disabled
  <2>2. CASE t = Loop
    BY <1>1, <1>d, <1>13, <2>2 DEF EpollMod, Goto, Disabled, DeletedInTurn,
       Registered, Deleting, Other, Threads, Main, Loop, KernelTypeOK, ConnTypeOK,
       ThreadTypeOK, kernelVars, connVars, threadVars, Disabled
  <2> QED
    BY <2>1, <2>2 DEF Threads
<1>14. ASSUME NEW t \in Threads, EpollDel(t) PROVE DeletedInTurn(d)'
  <2>1. CASE t = Main
    BY <1>1, <1>d, <1>14, <2>1 DEF EpollDel, Goto, DeletedInTurn, Registered,
       Deleting, Other, Threads, Main, Loop, KernelTypeOK, ConnTypeOK,
       ThreadTypeOK, kernelVars, connVars, threadVars
  <2>2. CASE t = Loop
    BY <1>1, <1>d, <1>14, <2>2 DEF EpollDel, Goto, DeletedInTurn, Registered,
       Deleting, Other, Threads, Main, Loop, KernelTypeOK, ConnTypeOK,
       ThreadTypeOK, kernelVars, connVars, threadVars
  <2> QED
    BY <2>1, <2>2 DEF Threads
<1>15. ASSUME NEW t \in Threads, MarkOut(t) PROVE DeletedInTurn(d)'
  <2>1. cur[t] \in Conns /\ t \in {Main, Loop} /\ Deleting(t, cur[t])
    BY <1>1, <1>15, InHand DEF MarkOut, Threads, Deleting
  <2>2. /\ interest' = interest /\ cur' = cur /\ twice' = twice
        /\ inEpoll' = [inEpoll EXCEPT ![cur[t]] = FALSE]
    BY <1>1, <1>15 DEF MarkOut, kernelVars, historyVars, FlagAfterDelete
  <2>3. /\ pc[t] = "mark_out" /\ pc'[t] \in {"poll", "walk", "delete_after"}
        /\ pc'[Other(t)] = pc[Other(t)]
    BY <1>1, <1>15, <2>1 DEF MarkOut, Goto, Other, ThreadTypeOK, Threads, Main,
       Loop
  <2>4. CASE cur[t] = d
    BY <1>1, <1>d, <2>1, <2>2, <2>3, <2>4 DEF DeletedInTurn, Deleting, Registered,
       Other, Main, Loop, ConnTypeOK
  <2>5. CASE cur[t] # d
    <3>1. interest'[d] = interest[d] /\ inEpoll'[d] = inEpoll[d]
      BY <1>1, <2>1, <2>2, <2>5 DEF ConnTypeOK
    <3>2. \A u \in {Main, Loop} : /\ Deleting(u, d)' <=> Deleting(u, d)
                                  /\ Deleting(u, d) => pc'[u] = pc[u]
      BY <2>1, <2>2, <2>3, <2>5 DEF Deleting, Other, Main, Loop
    <3> QED
      BY <1>d, <3>1, <3>2, SameDeletion
  <2> QED
    BY <2>4, <2>5
<1> QED
  BY <1>2, <1>3, <1>4, <1>5, <1>6, <1>7, <1>8, <1>9, <1>10, <1>11, <1>12, <1>13,
     <1>14,
     <1>15 DEF Next, ClientStep, MainStep, LoopStep, Both

----------------------------------------------------------------------------
\* While the callback runs the timer has a time to come.
LEMMA DueStep == ASSUME IInv, Next PROVE DueInv'
<1>1. TimeTypeOK /\ KernelTypeOK /\ ConnTypeOK /\ ThreadTypeOK /\ HistoryTypeOK
  BY DEF IInv, TypeOK
<1>d. DueInv /\ ThreadInv
  BY DEF IInv
<1>f. TypeOK
  BY DEF IInv
<1>2. ASSUME NEW c \in Conns, Accept(c) \/ Look(c) \/ DeleteAgain(c)
      PROVE  DueInv'
  BY <1>1, <1>d, <1>2 DEF Accept, Stamp, Look, Goto, DeleteAgain, DueInv, Never,
     ThreadTypeOK, TimeTypeOK, Threads, Main, Loop, timeVars, kernelVars, connVars,
     threadVars, historyVars
<1>3. CASE Tick \/ Judge \/ WalkEnds \/ SetContext
  BY <1>1, <1>d, <1>3 DEF Tick, Judge, Goto, SetSendBuffer, WalkEnds, SetContext,
     Stamp, DueInv, Never, ThreadTypeOK, TimeTypeOK, Threads, Main, Loop, timeVars,
     kernelVars, connVars, threadVars, historyVars
<1>4. CASE Walk
  BY <1>1, <1>d, IdleAssumption, <1>4 DEF Walk, Goto, DueInv, Expired, timeVars,
     ThreadTypeOK, TimeTypeOK, Threads, Main, Loop
<1>5. CASE Restart
  <2>1. due \in Nat /\ due' = due + Period
    BY <1>1, <1>d, <1>5 DEF Restart, DueInv, TimeTypeOK
  <2> QED
    BY <2>1, IdleAssumption DEF DueInv, Never
<1>6. CASE Arm
  BY <1>1, <1>d, IdleAssumption, <1>6 DEF Arm, Goto, DueInv, Never, ThreadTypeOK,
     TimeTypeOK, Threads, Main, Loop
<1>7. ASSUME NEW t \in Threads, Both(t) PROVE DueInv'
  <2>1. BothFlow(t) /\ t \in {Main, Loop}
    BY <1>f, <1>7, BothFrame DEF Threads
  <2>2. due' = due /\ (pc'[Main] # "poll" => pc[Main] # "poll")
    BY <1>d, <2>1 DEF BothFlow, AfterSend, Other, ThreadInv, timeVars, Main, Loop
  <2> QED
    BY <1>d, <2>2 DEF DueInv
<1>8. CASE Elsewhere
  BY <1>d, <1>f, ElsewhereFrame, <1>8 DEF DueInv, timeVars
<1> QED
  BY <1>2, <1>3, <1>4, <1>5, <1>6, <1>7, <1>8 DEF Next, ClientStep, MainStep,
     LoopStep, Elsewhere

\* The clock tells how long a connection was idle, as long as it has not wrapped.
LEMMA QuietStep == ASSUME IInv, Next PROVE QuietInv'
<1>1. TimeTypeOK /\ KernelTypeOK /\ ConnTypeOK /\ ThreadTypeOK /\ HistoryTypeOK
  BY DEF IInv, TypeOK
<1>q. QuietInv /\ NewInv
  BY DEF IInv
<1> SUFFICES ASSUME NEW d \in Conns, d \notin wrapped', peer'[d] # "none" PROVE Timed(d)'
  BY DEF QuietInv
<1>d. d \notin wrapped /\ peer[d] # "none" => Timed(d)
  BY <1>q DEF QuietInv
<1>f. TypeOK
  BY DEF IInv
<1>2. ASSUME NEW c \in Conns, Look(c) \/ DeleteAgain(c)
      PROVE  Timed(d)'
  BY <1>1, <1>d, <1>2 DEF Look, Goto, DeleteAgain, Timed, KernelTypeOK, timeVars,
     kernelVars, connVars, threadVars, historyVars
<1>3. CASE Walk \/ Judge \/ WalkEnds \/ Restart \/ Arm
  BY <1>1, <1>d, <1>3 DEF Walk, Goto, Judge, SetSendBuffer, WalkEnds, Restart, Arm,
     Timed, KernelTypeOK, timeVars, kernelVars, connVars, threadVars, historyVars
<1>4. CASE Tick
  <2>1. d \in Accepted /\ context' = context
    BY <1>1, <1>d, <1>4 DEF Tick, Accepted, kernelVars, connVars
  <2>2. ~(now' < now) /\ d \notin wrapped
    BY <1>d, <1>4, <2>1 DEF Tick
  <2>3. now' = now + 1
    <3>1. now' = IF now + 1 = Wrap THEN 0 ELSE now + 1
      BY <1>4 DEF Tick, NextClock
    <3>2. now \in Nat
      BY <1>1, IdleAssumption DEF TimeTypeOK
    <3> QED
      BY <2>2, <3>1, <3>2, IdleAssumption
  <2>4. quiet'[d] = IF quiet[d] < TooLong THEN quiet[d] + 1 ELSE quiet[d]
    BY <1>4, <2>1 DEF Tick
  <2>5. now \in Nat /\ context[d] \in Nat /\ quiet[d] \in 0 .. TooLong /\ TooLong \in Nat
    <3>1. now \in Nat
      BY <1>1, IdleAssumption DEF TimeTypeOK
    <3>2. context[d] \in Nat
      <4>1. context[d] \in 0 .. (Wrap - 1)
        BY <1>1 DEF ConnTypeOK
      <4> QED
        BY <4>1, IdleAssumption
    <3>3. TooLong \in Nat
      BY IdleAssumption DEF TooLong
    <3>4. quiet[d] \in 0 .. TooLong
      BY <1>1 DEF HistoryTypeOK
    <3> QED
      BY <3>1, <3>2, <3>3, <3>4
  <2>6. Timed(d)
    BY <1>d, <2>1, <2>2 DEF Accepted
  <2> QED
    <3>1. CASE quiet[d] = now - context[d]
      BY <2>1, <2>3, <2>4, <2>5, <2>6, <3>1 DEF Timed
    <3>2. CASE quiet[d] = TooLong /\ now - context[d] >= TooLong
      BY <2>1, <2>3, <2>4, <2>5, <2>6, <3>2 DEF Timed
    <3> QED
      BY <2>6, <3>1, <3>2 DEF Timed
<1>5. ASSUME NEW c \in Conns, Accept(c) PROVE Timed(d)'
  <2>1. CASE d = c
    <3>1. now \in Int /\ now' = now /\ context'[d] = now /\ quiet'[d] = 0
      <4>1. now \in Int
        BY <1>1, IdleAssumption DEF TimeTypeOK
      <4>2. now' = now /\ context'[d] = now
        BY <1>1, <1>5, <2>1 DEF Accept, Stamp, ConnTypeOK, timeVars
      <4>3. quiet'[d] = 0
        BY <1>1, <1>5, <2>1 DEF Accept, Stamp, HistoryTypeOK
      <4> QED
        BY <4>1, <4>2, <4>3
    <3> QED
      BY <3>1 DEF Timed
  <2>2. CASE d # c
    BY <1>1, <1>d, <1>5, <2>2 DEF Accept, Stamp, Timed, ConnTypeOK, HistoryTypeOK,
       KernelTypeOK, timeVars
  <2> QED
    BY <2>1, <2>2
<1>6. CASE SetContext
  <2>1. CASE d = cur[Loop]
    <3>1. now \in Int /\ now' = now /\ context'[d] = now /\ quiet'[d] = 0
      <4>1. now \in Int
        BY <1>1, IdleAssumption DEF TimeTypeOK
      <4>2. now' = now /\ context'[d] = now
        BY <1>1, <1>6, <2>1 DEF SetContext, Stamp, ConnTypeOK, timeVars
      <4>3. quiet'[d] = 0
        BY <1>1, <1>6, <2>1 DEF SetContext, Stamp, HistoryTypeOK
      <4> QED
        BY <4>1, <4>2, <4>3
    <3> QED
      BY <3>1 DEF Timed
  <2>2. CASE d # cur[Loop]
    BY <1>1, <1>d, <1>6, <2>2 DEF SetContext, Stamp, Timed, ConnTypeOK,
       HistoryTypeOK, KernelTypeOK, timeVars, kernelVars
  <2> QED
    BY <2>1, <2>2
<1>7. ASSUME NEW t \in Threads, Both(t) PROVE Timed(d)'
  <2>1. BothFlow(t)
    BY <1>f, <1>7, BothFrame
  <2> QED
    BY <1>d, <2>1 DEF BothFlow, timeVars, Timed
<1>8. CASE Elsewhere
  BY <1>d, <1>f, ElsewhereFrame, <1>8 DEF timeVars, Timed
<1> QED
  BY <1>2, <1>3, <1>4, <1>5, <1>6, <1>7, <1>8 DEF Next, ClientStep, MainStep,
     LoopStep, Elsewhere

\* Main's two passes over its connections.
LEMMA TodoStep == ASSUME IInv, Next PROVE TodoInv'
<1>1. TimeTypeOK /\ KernelTypeOK /\ ConnTypeOK /\ ThreadTypeOK /\ HistoryTypeOK
  BY DEF IInv, TypeOK
<1>d. TodoInv /\ ThreadInv
  BY DEF IInv
<1>f. TypeOK
  BY DEF IInv
<1>2. CASE Tick \/ SetContext
  BY <1>1, <1>d, <1>2 DEF Tick, SetContext, Goto, Stamp, TodoInv, threadVars,
     ThreadTypeOK, Threads, Main, Loop, timeVars, kernelVars, connVars, threadVars,
     historyVars
<1>3. ASSUME NEW c \in Conns, Accept(c) PROVE TodoInv'
  BY <1>1, <1>d, <1>3 DEF Accept, Stamp, TodoInv, ThreadTypeOK, Threads, Main,
     Loop, threadVars
<1>4. CASE Walk
  BY <1>1, <1>d, <1>4 DEF Walk, Goto, TodoInv, ThreadTypeOK, Threads, Main, Loop,
     threadVars
<1>5. ASSUME NEW c \in Conns, Look(c) PROVE TodoInv'
  BY <1>1, <1>d, <1>5 DEF Look, Goto, TodoInv, ThreadTypeOK, Threads, Main, Loop,
     threadVars
<1>6. CASE Judge
  BY <1>1, <1>d, <1>6 DEF Judge, Goto, SetSendBuffer, TodoInv, ThreadTypeOK,
     Threads, Main, Loop, threadVars
<1>7. CASE WalkEnds
  BY <1>1, <1>d, <1>7 DEF WalkEnds, Goto, TodoInv, ThreadTypeOK, Threads, Main,
     Loop, threadVars
<1>8. ASSUME NEW c \in Conns, DeleteAgain(c) PROVE TodoInv'
  BY <1>1, <1>d, <1>8 DEF DeleteAgain, Goto, TodoInv, ThreadTypeOK, Threads, Main,
     Loop, threadVars
<1>9. CASE Restart
  BY <1>1, <1>d, <1>9 DEF Restart, Goto, TodoInv, ThreadTypeOK, Threads, Main,
     Loop, threadVars
<1>10. CASE Arm
  BY <1>1, <1>d, <1>10 DEF Arm, Goto, TodoInv, ThreadTypeOK, Threads, Main, Loop,
     threadVars
<1>11. ASSUME NEW t \in Threads, Both(t) PROVE TodoInv'
  <2>1. BothFlow(t) /\ t \in {Main, Loop}
    BY <1>f, <1>11, BothFrame DEF Threads
  <2>2. CASE MarkOut(Main)
    BY <1>1, <1>d, <2>2 DEF MarkOut, Goto, TodoInv, ThreadTypeOK, Threads, Main,
       Loop
  <2>3. CASE t = Loop \/ ~MarkOut(t)
    <3>1. again' = again /\ (t = Main /\ pc[Main] = "mark_out" => pc'[Main] = pc[Main])
      BY <1>11, <2>1, <2>3 DEF Both, Write, WriteNonBlocking, WriteBrokenPipe,
         EpollFails, Exit, DeleteConnection, EpollAdd, MarkIn, EpollMod, EpollDel,
         MarkOut, Main, Loop
    <3> QED
      BY <1>d, <2>1, <3>1 DEF BothFlow, AfterSend, Other, TodoInv, ThreadInv, Main,
         Loop
  <2> QED
    BY <2>1, <2>2, <2>3
<1>12. CASE Elsewhere
  BY <1>d, <1>f, ElsewhereFrame, <1>12 DEF TodoInv
<1> QED
  BY <1>2, <1>3, <1>4, <1>5, <1>6, <1>7, <1>8, <1>9, <1>10, <1>11, <1>12 DEF Next,
     ClientStep, MainStep, LoopStep, Elsewhere

\* What Judge found outlives what the loop does, unless the two race.
LEMMA JudgedStep == ASSUME IInv, Next PROVE JudgedInv'
<1>1. TimeTypeOK /\ KernelTypeOK /\ ConnTypeOK /\ ThreadTypeOK /\ HistoryTypeOK
  BY DEF IInv, TypeOK
<1>n. NewInv /\ ThreadInv /\ QuietInv /\ TodoInv
  BY DEF IInv
<1> SUFFICES ASSUME NEW d \in Conns, d \notin mixed', d \notin again' PROVE Judged(d)'
  BY DEF JudgedInv
<1>d. d \notin mixed /\ (d \in again \/ Judged(d))
  BY RacesStay DEF IInv, JudgedInv
<1>f. TypeOK
  BY DEF IInv
<1>2. ASSUME NEW c \in Conns, Look(c) \/ DeleteAgain(c)
      PROVE  Judged(d)'
  BY <1>1, <1>d, <1>n, <1>2 DEF Look, Goto, DeleteAgain, Judged, TodoInv,
     ThreadTypeOK, Threads, Main, Loop, timeVars, kernelVars, connVars, threadVars,
     historyVars
<1>3. CASE Walk \/ WalkEnds \/ Restart \/ Arm
  BY <1>1, <1>d, <1>n, <1>3 DEF Walk, Goto, WalkEnds, Restart, Arm, Judged,
     TodoInv, ThreadTypeOK, Threads, Main, Loop, timeVars, kernelVars, connVars,
     threadVars, historyVars
<1>4. CASE Tick
  <2>1. CASE cur[Main] = d /\ pc[Main] \in {"send", "write", "delete"}
    <3>1. d \in Accepted /\ Judged(d)
      BY <1>n, <1>d, <1>4, <2>1 DEF Tick, TodoInv, NewInv, Untouched, Accepted,
         threadVars
    <3>2. wrapped' = wrapped \/ d \in wrapped'
      BY <1>4, <3>1 DEF Tick
    <3>3. quiet[d] \in 0 .. TooLong
      BY <1>1 DEF HistoryTypeOK
    <3>4. TooLong > Limit /\ Limit \in Nat /\ TooLong \in Nat
      BY IdleAssumption DEF TooLong
    <3>5. quiet'[d] = IF d \in Accepted /\ quiet[d] < TooLong THEN quiet[d] + 1 ELSE quiet[d]
      BY <1>4 DEF Tick
    <3>6. quiet[d] > Limit => quiet'[d] > Limit
      BY <3>3, <3>4, <3>5
    <3> QED
      BY <1>4, <2>1, <3>1, <3>2, <3>6 DEF Tick, Judged, connVars, threadVars
  <2>2. CASE ~(cur[Main] = d /\ pc[Main] \in {"send", "write", "delete"})
    BY <1>4, <2>2 DEF Tick, Judged, threadVars
  <2> QED
    BY <2>1, <2>2
<1>5. ASSUME NEW c \in Conns, Accept(c) PROVE Judged(d)'
  BY <1>1, <1>5 DEF Accept, Stamp, Judged, threadVars, ThreadTypeOK, Threads, Main,
     Loop
<1>6. CASE Judge
  <2>1. CASE cur[Main] = d /\ Idle
    <3>1. peer[d] # "none" /\ mixed' = IF AtWork(Loop, d) THEN mixed \cup {d} ELSE mixed
      BY <1>n, <1>6, <2>1 DEF NewInv, Untouched, Judge, SetSendBuffer, Other
    <3>2. ~(cur[Loop] = d /\ pc[Loop] \in {"send", "write", "stamp"})
      BY <3>1 DEF AtWork, Sending
    <3>3. cur' = cur /\ pc'[Loop] = pc[Loop] /\ quiet' = quiet /\ wrapped' = wrapped
          /\ context' = context /\ last' = last
      BY <1>1, <1>6 DEF Judge, SetSendBuffer, Goto, ThreadTypeOK, Threads, Main,
         Loop
    <3>4. quiet[d] > Limit \/ d \in wrapped \/ context[d] # last
      <4>1. SUFFICES ASSUME d \notin wrapped, context[d] = last PROVE quiet[d] > Limit
        OBVIOUS
      <4>2. Timed(d)
        BY <1>n, <3>1, <4>1 DEF QuietInv
      <4>3. now \in Int
        BY <1>1, IdleAssumption DEF TimeTypeOK
      <4>4. last \in Int
        <5>1. last \in 0 .. (Wrap - 1)
          BY <1>1 DEF ThreadTypeOK
        <5> QED
          BY <5>1, IdleAssumption
      <4>5. TooLong > Limit /\ Limit \in Int
        BY IdleAssumption DEF TooLong
      <4> QED
        BY <2>1, <4>1, <4>2, <4>3, <4>4, <4>5 DEF Idle, Timed
    <3> QED
      BY <3>2, <3>3, <3>4 DEF Judged
  <2>2. CASE cur[Main] # d
    BY <1>6, <2>2 DEF Judge, Judged
  <2>3. CASE ~Idle
    BY <1>1, <1>6, <2>3 DEF Judge, Judged, Goto, ThreadTypeOK, Threads, Main, Loop
  <2> QED
    BY <2>1, <2>2, <2>3
<1>7. CASE SetContext
  <2>1. cur' = cur /\ pc'[Main] = pc[Main] /\ pc'[Loop] = "poll" /\ last' = last
        /\ Judged(d)
    BY <1>1, <1>d, <1>7 DEF SetContext, Goto, ThreadTypeOK, Threads, Main, Loop
  <2>2. CASE cur[Loop] = d
    BY <1>n, <1>d, <1>7, <2>1, <2>2 DEF SetContext, Judged
  <2>3. CASE cur[Loop] # d
    <3>1. quiet'[d] = quiet[d] /\ context'[d] = context[d] /\ (d \in wrapped => d \in wrapped')
      BY <1>1, <1>7, <2>3 DEF SetContext, Stamp, HistoryTypeOK, ConnTypeOK
    <3> QED
      BY <1>n, <1>d, <2>1, <3>1 DEF Judged
  <2> QED
    BY <2>2, <2>3
<1>8. ASSUME NEW t \in Threads, Both(t) PROVE Judged(d)'
  <2>1. BothFlow(t) /\ t \in {Main, Loop}
    BY <1>f, <1>8, BothFrame DEF Threads
  <2>2. d \in again => t = Main /\ pc[Main] = "mark_out"
    BY <1>8, <2>1 DEF Both, Write, WriteNonBlocking, WriteBrokenPipe, EpollFails,
       EpollAdd, DeleteConnection, MarkIn, EpollMod, EpollDel, MarkOut, Main, Loop
  <2>3. CASE d \in again
    BY <2>1, <2>2, <2>3 DEF BothFlow, Judged, Main, Loop
  <2>4. CASE d \notin again
    BY <1>d, <1>n, <2>1, <2>4 DEF BothFlow, AfterSend, Other, Judged, ThreadInv,
       Main, Loop
  <2> QED
    BY <2>3, <2>4
<1>9. CASE Elsewhere
  <2>1. /\ UNCHANGED <<context, last, quiet, wrapped>>
        /\ cur'[Main] = cur[Main] /\ pc'[Main] = pc[Main] /\ Judged(d)
    BY <1>d, <1>f, <1>9, ElsewhereFrame
  <2>2. CASE pc'[Loop] \in {"send", "write", "stamp"} => pc'[Loop] = pc[Loop] /\ cur' = cur
    BY <2>1, <2>2 DEF Judged
  <2>3. CASE OnMessage
    <3>1. cur' = cur /\ (AtWork(Main, cur[Loop]) => pc'[Loop] = "poll" \/ cur[Loop] # d)
      BY <1>1, <1>d, <1>9, <2>3 DEF OnMessage, SetSendBuffer, Goto, Other,
         ThreadTypeOK, Threads, Main, Loop
    <3> QED
      BY <2>1, <3>1 DEF Judged, AtWork, Sending
  <2>4. CASE ~OnMessage
    <3>1. pc'[Loop] \in {"send", "write", "stamp"} => pc'[Loop] = pc[Loop] /\ cur' = cur
      BY <1>1, <1>9, <2>4 DEF Elsewhere, ClientStep, ClientSend, ClientFin,
         ClientReset, SendRace, Exit, HandleHup, Read, Poll, Goto, threadVars,
         ThreadTypeOK, Threads, Main, Loop
    <3> QED
      BY <2>2, <3>1
  <2> QED
    BY <2>3, <2>4
<1> QED
  BY <1>2, <1>3, <1>4, <1>5, <1>6, <1>7, <1>8, <1>9 DEF Next, ClientStep, MainStep,
     LoopStep, Elsewhere

----------------------------------------------------------------------------
\* The types as the provers want them for arithmetic.
LEMMA NumberTypes ==
  ASSUME TypeOK
  PROVE  /\ now \in Nat /\ now < Wrap /\ due \in Nat \cup {Never} /\ last \in Nat
         /\ stall \in Nat /\ stall <= MaxStall
         /\ \A c \in Conns : context[c] \in Nat
<1>1. \A n \in 0 .. (Wrap - 1) : n \in Nat /\ n < Wrap
  BY IdleAssumption
<1>2. \A n \in 0 .. MaxStall : n \in Nat /\ n <= MaxStall
  BY IdleAssumption
<1>3. now \in 0 .. (Wrap - 1) /\ stall \in 0 .. MaxStall
  BY DEF TypeOK, TimeTypeOK
<1>4. last \in 0 .. (Wrap - 1)
  BY DEF TypeOK, ThreadTypeOK
<1>5. \A c \in Conns : context[c] \in 0 .. (Wrap - 1)
  BY DEF TypeOK, ConnTypeOK
<1>6. due \in Nat \cup {Never}
  BY DEF TypeOK, TimeTypeOK
<1> QED
  BY <1>1, <1>2, <1>3, <1>4, <1>5, <1>6

\* The timer's expiration only grows.
LEMMA EarlyStep == ASSUME IInv, Next, Early' PROVE Early
<1>1. TimeTypeOK /\ KernelTypeOK /\ ConnTypeOK /\ ThreadTypeOK /\ HistoryTypeOK
  BY DEF IInv, TypeOK
<1>d. DueInv /\ Early'
  BY DEF IInv
<1>i. now \in Nat /\ due \in Nat \cup {Never}
  BY NumberTypes DEF IInv
<1>f. TypeOK
  BY DEF IInv
<1>2. ASSUME NEW c \in Conns, Accept(c) \/ Look(c) \/ DeleteAgain(c)
      PROVE  Early
  BY <1>d, <1>2 DEF Accept, Stamp, Look, Goto, DeleteAgain, Early, Never, timeVars,
     kernelVars, connVars, threadVars, historyVars
<1>3. CASE Tick \/ Walk \/ Judge \/ WalkEnds \/ SetContext
  BY <1>d, <1>3 DEF Tick, Walk, Goto, Judge, SetSendBuffer, WalkEnds, SetContext,
     Stamp, Early, Never, timeVars, kernelVars, connVars, threadVars, historyVars
<1>4. CASE Restart
  <2>1. due # Never /\ due' = due + Period
    BY <1>d, <1>4 DEF Restart, DueInv
  <2> QED
    BY <1>d, <1>i, <2>1, IdleAssumption DEF Early, Never
<1>5. CASE Arm
  BY <1>d, <1>i, <1>5 DEF Arm, Early, Never
<1>6. ASSUME NEW t \in Threads, Both(t) PROVE Early
  BY <1>d, <1>f, BothFrame, <1>6 DEF BothFlow, timeVars, Early
<1>7. CASE Elsewhere
  BY <1>d, <1>f, ElsewhereFrame, <1>7 DEF timeVars, Early
<1> QED
  BY <1>2, <1>3, <1>4, <1>5, <1>6, <1>7 DEF Next, ClientStep, MainStep, LoopStep,
     Elsewhere

\* Main is never later than its stall.
LEMMA OnTimeStep == ASSUME IInv, Next PROVE OnTimeInv'
<1>1. TimeTypeOK /\ KernelTypeOK /\ ConnTypeOK /\ ThreadTypeOK /\ HistoryTypeOK
  BY DEF IInv, TypeOK
<1> SUFFICES ASSUME Early' PROVE OnTime'
  BY DEF OnTimeInv
<1>d. Early /\ OnTime /\ DueInv /\ Early'
  BY EarlyStep DEF IInv, OnTimeInv
<1>n. NewInv /\ ThreadInv /\ QuietInv
  BY DEF IInv
<1>i. /\ now \in Nat /\ now < Wrap /\ due \in Nat \cup {Never} /\ last \in Nat
      /\ stall \in Nat /\ stall <= MaxStall
      /\ \A c \in Conns : context[c] \in Nat
  BY NumberTypes DEF IInv
<1>f. TypeOK
  BY DEF IInv
<1>2. CASE Tick
  <2>1. due # Never /\ due \in Nat /\ due + MaxStall < Wrap
    BY <1>d, <1>i DEF Early
  <2>2. now + 1 <= due + stall' /\ stall' \in Nat /\ stall' <= MaxStall
    <3>1. CASE Waiting
      BY <1>i, <1>2, <2>1, <3>1, IdleAssumption DEF Tick, Waiting, Expired
    <3>2. CASE ~Waiting /\ stall < MaxStall
      BY <1>i, <1>d, <1>2, <2>1, <3>2, IdleAssumption DEF Tick, OnTime
    <3> QED
      BY <1>2, <3>1, <3>2 DEF Tick
  <2>3. now' = now + 1
    <3>1. now + 1 < Wrap
      <4>1. /\ now \in Int /\ due \in Int /\ stall' \in Int /\ MaxStall \in Int /\ Wrap \in Int
        BY <1>i, <2>1, <2>2, IdleAssumption
      <4>2. \A a, b, c, d, e \in Int : a + 1 <= b + c /\ c <= d /\ b + d < e => a + 1 < e
        OBVIOUS
      <4>3. now + 1 <= due + stall' /\ stall' <= MaxStall /\ due + MaxStall < Wrap
        BY <2>1, <2>2
      <4> QED
        BY <4>1, <4>2, <4>3
    <3> QED
      BY <3>1, <1>i, <1>2 DEF Tick, NextClock
  <2>4. wrapped' = {}
    BY <1>d, <1>i, <1>2, <2>3 DEF Tick, OnTime
  <2>5. due' = due /\ pc' = pc /\ context' = context /\ last' = last /\ cur' = cur
    BY <1>2 DEF Tick, connVars, threadVars, Waiting
  <2>6. due - Period <= now' /\ (due <= now => due <= now')
    BY <1>d, <1>i, <2>1, <2>3, IdleAssumption DEF OnTime
  <2> QED
    BY <1>d, <2>2, <2>3, <2>4, <2>5, <2>6 DEF OnTime
<1>3. ASSUME NEW c \in Conns, Accept(c) PROVE OnTime'
  <2>1. /\ now' = now /\ due' = due /\ stall' = stall /\ pc[Main] = "poll" /\ pc' = pc
        /\ wrapped' = wrapped \ {c}
    BY <1>3 DEF Accept, Stamp, timeVars, threadVars
  <2> QED
    BY <1>d, <2>1 DEF OnTime
<1>4. CASE Walk
  BY <1>1, <1>d, <1>4 DEF Walk, Goto, OnTime, ThreadTypeOK, Threads, Main, Loop,
     Expired, timeVars, connVars, historyVars
<1>5. ASSUME NEW c \in Conns, Look(c) PROVE OnTime'
  <2>1. /\ now' = now /\ due' = due /\ stall' = stall /\ wrapped' = wrapped
        /\ context' = context /\ cur'[Main] = c /\ last' = context[c] /\ pc[Main] = "walk"
    BY <1>1, <1>5 DEF Look, timeVars, connVars, historyVars, ThreadTypeOK, Threads,
       Main, Loop
  <2> QED
    BY <1>d, <1>i, <2>1 DEF OnTime
<1>6. CASE Judge
  BY <1>1, <1>d, <1>6 DEF Judge, Goto, SetSendBuffer, OnTime, ThreadTypeOK,
     Threads, Main, Loop, timeVars, Judge, SetSendBuffer
<1>7. CASE WalkEnds
  BY <1>1, <1>d, <1>7 DEF WalkEnds, Goto, OnTime, ThreadTypeOK, Threads, Main,
     Loop, timeVars, connVars, historyVars
<1>8. ASSUME NEW c \in Conns, DeleteAgain(c) PROVE OnTime'
  BY <1>1, <1>d, <1>8 DEF DeleteAgain, Goto, OnTime, ThreadTypeOK, Threads, Main,
     Loop, timeVars, connVars, historyVars
<1>9. CASE Restart
  <2>1. /\ now' = now /\ due' = due + Period /\ stall' = stall /\ wrapped' = wrapped
        /\ pc[Main] = "delete_after" /\ pc'[Main] \in {"poll", "arm"}
    BY <1>1, <1>9 DEF Restart, Goto, historyVars, ThreadTypeOK, Threads, Main, Loop
  <2>2. due \in Nat
    BY <1>d, <1>i DEF Early
  <2> QED
    BY <1>d, <1>i, <2>1, <2>2, IdleAssumption DEF OnTime
<1>10. CASE Arm
  <2>1. /\ now' = now /\ stall' = stall /\ wrapped' = wrapped /\ pc'[Main] = "poll"
        /\ due' = due
    BY <1>1, <1>d, <1>10 DEF Arm, Goto, historyVars, Early, ThreadTypeOK, Threads,
       Main, Loop
  <2> QED
    BY <1>d, <2>1 DEF OnTime
<1>11. CASE SetContext
  <2>1. /\ now' = now /\ due' = due /\ stall' = stall /\ cur' = cur /\ pc'[Main] = pc[Main]
        /\ wrapped' = wrapped \ {cur[Loop]} /\ last' = last
    BY <1>1, <1>11 DEF SetContext, Stamp, Goto, timeVars, ThreadTypeOK, Threads,
       Main, Loop
  <2>2. pc[Main] = "judge" => last <= context'[cur[Main]]
    <3>1. SUFFICES ASSUME pc[Main] = "judge" PROVE last <= context'[cur[Main]]
      OBVIOUS
    <3>2. cur[Main] \in Conns
      BY <1>1, <3>1 DEF ThreadTypeOK
    <3>3. Timed(cur[Main])
      BY <1>n, <1>d, <3>2 DEF NewInv, Untouched, QuietInv, OnTime
    <3>4. context'[cur[Main]] \in {context[cur[Main]], now}
      BY <1>1, <1>11, <3>2 DEF SetContext, Stamp, ConnTypeOK
    <3> QED
      BY <1>d, <1>i, <3>1, <3>2, <3>3, <3>4 DEF OnTime, Timed
  <2> QED
    BY <1>d, <2>1, <2>2 DEF OnTime
<1>12. ASSUME NEW t \in Threads, Both(t) PROVE OnTime'
  <2>1. BothFlow(t) /\ t \in {Main, Loop}
    BY <1>f, <1>12, BothFrame DEF Threads
  <2>2. /\ pc'[Main] \notin {"poll", "arm"} => pc[Main] \notin {"poll", "arm"}
        /\ pc'[Main] = "judge" => pc[Main] = "judge"
    BY <1>n, <2>1 DEF BothFlow, AfterSend, Other, Main, Loop
  <2> QED
    BY <1>d, <2>1, <2>2 DEF BothFlow, timeVars, OnTime
<1>13. CASE Elsewhere
  BY <1>d, <1>f, ElsewhereFrame, <1>13 DEF timeVars, OnTime
<1> QED
  BY <1>2, <1>3, <1>4, <1>5, <1>6, <1>7, <1>8, <1>9, <1>10, <1>11, <1>12, <1>13 DEF
     Next, ClientStep, MainStep, LoopStep, Elsewhere

\* Main clears a connection a Period after it could have, at the latest.
LEMMA SeenStep == ASSUME IInv, Next PROVE SeenInv'
<1>1. TimeTypeOK /\ KernelTypeOK /\ ConnTypeOK /\ ThreadTypeOK /\ HistoryTypeOK
  BY DEF IInv, TypeOK
<1> SUFFICES ASSUME Early', NEW d \in Conns, state'[d] = "Connected"
             PROVE  SeenInTime(d)'
  BY DEF SeenInv
<1>d. /\ Early /\ OnTime /\ DueInv /\ Early' /\ state'[d] = "Connected"
      /\ state[d] = "Connected" => SeenInTime(d)
  BY EarlyStep DEF IInv, OnTimeInv, SeenInv
<1>n. NewInv /\ ThreadInv /\ TodoInv
  BY DEF IInv
<1>i. /\ now \in Nat /\ now < Wrap /\ due \in Nat \cup {Never} /\ last \in Nat
      /\ stall \in Nat /\ stall <= MaxStall
      /\ \A c \in Conns : context[c] \in Nat
  BY NumberTypes DEF IInv
<1>f. TypeOK
  BY DEF IInv
<1>2. CASE Tick
  <2>1. due' = due /\ context'[d] = context[d] /\ SeenInTime(d)
    BY <1>1, <1>d, <1>2 DEF Tick, timeVars, connVars, ConnTypeOK
  <2>2. Looked(d)' => Looked(d)
    BY <1>1, <1>n, <1>d, <1>2 DEF Tick, threadVars, Looked, ThreadInv,
       ThreadTypeOK, Threads, Main, Loop
  <2> QED
    BY <2>1, <2>2 DEF SeenInTime
<1>3. ASSUME NEW c \in Conns, Accept(c) PROVE SeenInTime(d)'
  <2>1. CASE d = c
    <3>1. /\ due' = due /\ context'[d] = now /\ pc' = pc /\ pc[Main] = "poll"
      BY <1>1, <1>3, <2>1 DEF Accept, Stamp, ConnTypeOK, timeVars, threadVars
    <3> QED
      BY <1>d, <1>i, <3>1, IdleAssumption DEF SeenInTime, Looked, OnTime, Early
  <2>2. CASE d # c
    <3>1. /\ due' = due /\ context'[d] = context[d] /\ state'[d] = state[d]
          /\ cur' = cur /\ pc' = pc /\ todo' = todo
      BY <1>1, <1>3, <2>2 DEF Accept, Stamp, ConnTypeOK, timeVars, threadVars
    <3> QED
      BY <1>d, <3>1 DEF SeenInTime, Looked
  <2> QED
    BY <2>1, <2>2
<1>4. CASE Walk
  <2>1. due' = due /\ context' = context /\ SeenInTime(d) /\ d \in todo'
    BY <1>1, <1>n, <1>d, <1>4 DEF Walk, NewInv, Untouched, Accepted, timeVars,
       connVars
  <2> QED
    BY <2>1 DEF SeenInTime, Looked
<1>5. ASSUME NEW c \in Conns, Look(c) PROVE SeenInTime(d)'
  <2>1. due' = due /\ context'[d] = context[d] /\ SeenInTime(d)
    BY <1>1, <1>d, <1>5 DEF Look, Goto, timeVars, connVars, ConnTypeOK
  <2>2. Looked(d)' => Looked(d)
    BY <1>1, <1>n, <1>d, <1>5 DEF Look, Goto, threadVars, Looked, ThreadInv,
       ThreadTypeOK, Threads, Main, Loop
  <2> QED
    BY <2>1, <2>2 DEF SeenInTime
<1>6. CASE Judge
  <2>1. /\ due' = due /\ context' = context /\ cur' = cur /\ todo' = todo /\ SeenInTime(d)
        /\ pc[Main] = "judge"
    BY <1>1, <1>d, <1>6 DEF Judge, timeVars
  <2>2. CASE cur[Main] # d
    BY <2>1, <2>2 DEF SeenInTime, Looked
  <2>3. CASE cur[Main] = d /\ Idle
    <3>1. pc'[Main] = "send"
      BY <1>1, <1>6, <2>3 DEF Judge, SetSendBuffer, Goto, ThreadTypeOK, Threads,
         Main, Loop
    <3> QED
      BY <2>1, <2>3, <3>1 DEF SeenInTime, Looked
  <2>4. CASE cur[Main] = d /\ ~Idle
    BY <1>d, <1>i, <2>1, <2>4, IdleAssumption DEF SeenInTime, Idle, OnTime, Early
  <2> QED
    BY <2>2, <2>3, <2>4
<1>7. CASE WalkEnds
  <2>1. due' = due /\ context'[d] = context[d] /\ SeenInTime(d)
    BY <1>1, <1>d, <1>7 DEF WalkEnds, Goto, timeVars, connVars, ConnTypeOK
  <2>2. Looked(d)' => Looked(d)
    BY <1>1, <1>n, <1>d, <1>7 DEF WalkEnds, Goto, threadVars, Looked, ThreadInv,
       ThreadTypeOK, Threads, Main, Loop
  <2> QED
    BY <2>1, <2>2 DEF SeenInTime
<1>8. ASSUME NEW c \in Conns, DeleteAgain(c) PROVE SeenInTime(d)'
  <2>1. due' = due /\ context'[d] = context[d] /\ SeenInTime(d)
    BY <1>1, <1>d, <1>8 DEF DeleteAgain, Goto, timeVars, connVars, ConnTypeOK
  <2>2. Looked(d)' => Looked(d)
    BY <1>1, <1>n, <1>d, <1>8 DEF DeleteAgain, Goto, threadVars, Looked, ThreadInv,
       ThreadTypeOK, Threads, Main, Loop
  <2> QED
    BY <2>1, <2>2 DEF SeenInTime
<1>9. CASE Restart
  <2>1. /\ due' = due + Period /\ context' = context /\ SeenInTime(d)
        /\ pc[Main] = "delete_after" /\ pc'[Main] \in {"poll", "arm"}
    BY <1>1, <1>d, <1>9 DEF Restart, Goto, connVars, ThreadTypeOK, Threads, Main,
       Loop
  <2>2. Looked(d)
    BY <1>n, <1>d, <2>1 DEF Looked, TodoInv
  <2>3. due \in Nat /\ due' - Period - Limit = due - Limit
    BY <1>d, <1>i, <2>1, IdleAssumption DEF Early
  <2> QED
    BY <2>1, <2>2, <2>3 DEF SeenInTime, Looked
<1>10. CASE Arm
  <2>1. /\ due' = due /\ context' = context /\ SeenInTime(d) /\ pc'[Main] = "poll"
    BY <1>1, <1>d, <1>10 DEF Arm, Goto, connVars, Early, ThreadTypeOK, Threads,
       Main, Loop
  <2> QED
    BY <2>1 DEF SeenInTime, Looked
<1>11. CASE SetContext
  <2>1. due' = due /\ cur' = cur /\ todo' = todo /\ pc'[Main] = pc[Main] /\ SeenInTime(d)
    BY <1>1, <1>d, <1>11 DEF SetContext, Goto, timeVars, ThreadTypeOK, Threads,
       Main, Loop
  <2>2. context'[d] = context[d] \/ context'[d] = now
    BY <1>1, <1>11 DEF SetContext, Stamp, ConnTypeOK
  <2>3. CASE context'[d] = context[d]
    BY <2>1, <2>3 DEF SeenInTime, Looked
  <2>4. CASE context'[d] = now
    BY <1>d, <1>i, <2>1, <2>4, IdleAssumption DEF SeenInTime, Looked, OnTime, Early
  <2> QED
    BY <2>2, <2>3, <2>4
<1>12. ASSUME NEW t \in Threads, Both(t) PROVE SeenInTime(d)'
  <2>1. BothFlow(t) /\ t \in {Main, Loop} /\ SeenInTime(d)
    BY <1>d, <1>f, <1>12, BothFrame DEF BothFlow, Threads
  <2>2. Looked(d)' => Looked(d)
    BY <1>n, <1>d, <2>1 DEF BothFlow, AfterSend, Other, Looked, Main, Loop
  <2> QED
    BY <2>1, <2>2 DEF BothFlow, timeVars, SeenInTime
<1>13. CASE Elsewhere
  BY <1>d, <1>f, ElsewhereFrame, <1>13 DEF timeVars, SeenInTime, Looked
<1> QED
  BY <1>2, <1>3, <1>4, <1>5, <1>6, <1>7, <1>8, <1>9, <1>10, <1>11, <1>12, <1>13 DEF
     Next, ClientStep, MainStep, LoopStep, Elsewhere

----------------------------------------------------------------------------
\* Nothing has been accepted, and the timer is a Period ahead.
LEMMA InitIInv == ASSUME Init PROVE IInv
<1>1. TooLong \in Nat /\ 0 \in 0 .. TooLong /\ 0 \in 0 .. (Wrap - 1) /\ 0 \in 0 .. MaxStall
  BY IdleAssumption DEF TooLong
<1>0. now \in Nat
  <2>1. now \in 0 .. (Wrap - 1)
    BY DEF Init
  <2> QED
    BY <2>1, IdleAssumption
<1>2. TypeOK
  <2>1. TimeTypeOK
    <3>1. now \in Nat /\ now + Period \in Nat
      BY <1>0, IdleAssumption
    <3> QED
      BY <1>1, <3>1 DEF Init, TimeTypeOK
  <2>2. KernelTypeOK /\ ConnTypeOK /\ HistoryTypeOK
    BY <1>1 DEF Init, KernelTypeOK, ConnTypeOK, HistoryTypeOK
  <2>3. ThreadTypeOK
    BY <1>1 DEF Init, ThreadTypeOK, Labels, Threads, Main, Loop
  <2> QED
    BY <2>1, <2>2, <2>3 DEF TypeOK
<1>3. pc[Main] = "poll" /\ pc[Loop] = "poll" /\ cur[Main] = NoConn /\ cur[Loop] = NoConn
  BY DEF Init, Threads, Main, Loop
<1>4. NewInv
  BY <1>3, IdleAssumption DEF Init, NewInv, Untouched
<1>5. ThreadInv /\ TodoInv /\ DueInv /\ TwiceInv /\ ExitIsExplained
  BY <1>3 DEF Init, ThreadInv, TodoInv, DueInv, TwiceInv, ExitIsExplained
<1>6. SendInv
  BY <1>3, IdleAssumption DEF Init, SendInv, SentInTurn, HasText, Sending
<1>7. RegInv
  BY <1>3, IdleAssumption DEF Init, RegInv, DeletedInTurn, Deleting
<1>8. QuietInv /\ JudgedInv
  BY <1>3, IdleAssumption DEF Init, QuietInv, JudgedInv, Judged
<1>9. OnTimeInv
  <2>1. now \in Nat /\ due = now + Period /\ stall = 0 /\ wrapped = {}
    BY <1>0 DEF Init
  <2> QED
    BY <1>3, <2>1, IdleAssumption DEF OnTimeInv, OnTime
<1>10. SeenInv
  BY DEF Init, SeenInv
<1> QED
  BY <1>2, <1>4, <1>5, <1>6, <1>7, <1>8, <1>9, <1>10 DEF IInv

\* A step that changes nothing.
LEMMA SameIInv == ASSUME IInv, UNCHANGED vars PROVE IInv'
<1> USE DEF vars, timeVars, kernelVars, connVars, threadVars, historyVars
<1>1. TypeOK'
  BY DEF IInv, TypeOK, TimeTypeOK, KernelTypeOK, ConnTypeOK, ThreadTypeOK,
     HistoryTypeOK
<1>2. NewInv' /\ ThreadInv' /\ TwiceInv' /\ TodoInv' /\ DueInv' /\ ExitIsExplained'
  BY DEF IInv, NewInv, Untouched, ThreadInv, Gone, TwiceInv, TodoInv, DueInv,
     ExitIsExplained
<1>3. SendInv'
  BY DEF IInv, SendInv, SentInTurn, HasText, Sending
<1>4. RegInv'
  BY DEF IInv, RegInv, DeletedInTurn, Deleting, Registered
<1>5. QuietInv' /\ JudgedInv'
  BY DEF IInv, QuietInv, Timed, JudgedInv, Judged
<1>6. OnTimeInv' /\ SeenInv'
  BY DEF IInv, OnTimeInv, OnTime, SeenInv, SeenInTime, Looked, Early
<1> QED
  BY <1>1, <1>2, <1>3, <1>4, <1>5, <1>6 DEF IInv

\* IInv holds at first, and every step keeps it.
THEOREM Invariant == Spec => []IInv
<1>1. ASSUME IInv, Next PROVE IInv'
  <2>1. TypeOK'
    BY <1>1, TimeType, KernelType, ConnType, ThreadType, HistoryType DEF TypeOK
  <2> QED
    BY <1>1, <2>1, NewStep, ThreadStep, SendStep, RegStep, TwiceStep, QuietStep,
       JudgedStep, TodoStep, DueStep, OnTimeStep, SeenStep, ExitStep DEF IInv
<1>2. IInv /\ [Next]_vars => IInv'
  BY <1>1, SameIInv
<1> QED
  BY InitIInv, <1>2, PTL DEF Spec

\* Every variable keeps its type: a busy thread has a connection in hand, and the
\* clock stays below its modulus.
THEOREM TypeCorrect == Spec => []TypeOK
<1>1. IInv => TypeOK
  BY DEF IInv
<1> QED
  BY <1>1, Invariant, PTL

\* An epoll_ctl only fails, and ends the server, on a connection that both threads
\* are deleting and whose client has gone.
THEOREM ExitsAreExplained == Spec => []ExitIsExplained
<1>1. IInv => ExitIsExplained
  BY DEF IInv
<1> QED
  BY <1>1, Invariant, PTL

\* However many walks meet a cleared connection, it is told once, and told nothing
\* more, unless both threads sent on it at a time.
THEOREM ClearIsLast == Spec => []ClearIsFinal
<1>1. IInv => ClearIsFinal
  BY DEF IInv, SendInv, SentInTurn, ClearIsFinal
<1> QED
  BY <1>1, Invariant, PTL

\* Whatever the limit, the period and the stall, a connection is cleared neither too
\* soon nor too late while the clock does not come near its end.
THEOREM ClearsAreInTime == Spec => []ClearedInTime
<1>1. ASSUME IInv PROVE ClearedInTime
  <2>1. ASSUME NEW c \in Conns, pc[Main] = "delete", cur[Main] = c, c \notin again
        PROVE  quiet[c] > Limit \/ c \in wrapped \cup mixed \/ context[c] # last
    BY <1>1, <2>1 DEF IInv, JudgedInv, Judged
  <2>2. ASSUME NEW c \in Conns, state[c] = "Connected", quiet[c] = TooLong,
               ~(due + MaxStall >= Wrap), due # Never
        PROVE  FALSE
    <3>1. /\ now \in Nat /\ due \in Nat /\ stall \in Nat /\ stall <= MaxStall
          /\ context[c] \in Nat
      BY <1>1, <2>2, NumberTypes DEF IInv
    <3>2. Early
      BY <2>2, <3>1, IdleAssumption DEF Early
    <3>3. wrapped = {} /\ now <= due + stall /\ due - Period - Limit <= context[c]
      BY <1>1, <2>2, <3>2 DEF IInv, OnTimeInv, OnTime, SeenInv, SeenInTime
    <3>4. peer[c] # "none"
      BY <1>1, <2>2 DEF IInv, NewInv, Untouched
    <3>5. Timed(c)
      BY <1>1, <3>3, <3>4 DEF IInv, QuietInv
    <3>6. now - context[c] >= TooLong
      BY <2>2, <3>1, <3>5, IdleAssumption DEF Timed, TooLong
    <3>7. now - context[c] <= Limit + Period + MaxStall
      BY <3>1, <3>3, IdleAssumption
    <3> QED
      BY <3>1, <3>6, <3>7, IdleAssumption DEF TooLong
  <2> QED
    BY <2>1, <2>2 DEF ClearedInTime
<1> QED
  BY <1>1, Invariant, PTL
=============================================================================
