-------------------------- MODULE HttpServerProofs --------------------------
(***************************************************************************)
(* Proofs about HttpServer, for any number of connections and loops, any   *)
(* segments the clients may send, and any of them leaving.                 *)
(***************************************************************************)
EXTENDS HttpServer, SequenceTheorems, WellFoundedInduction, TLAPS

----------------------------------------------------------------------------
(* The invariants *)

\* A loop serves its own connections.
LoopInv == \A l \in Loops : pc[l] # "idle" => LoopOf[cur[l]] = l

\* A loop that runs onMessage, and nobody has ever changed worker_ while a
\* message of its connection was parsed.
Alone(l) == pc[l] # "idle" /\ cur[l] \notin disturbed

\* No line of headers completes the request in the first n tokens of msg.
NoneComplete(msg, n) ==
  \A i, j \in Ends(msg) :
    i < j /\ j <= n => \E k \in (i + 1) .. (j - 1) : msg[k].kind \in {"header", "crlf"}

\* The parser has read whole lines, and has not found the end of the request.
Progress(l) ==
  LET msg == worker.text IN
  \/ /\ context[l].state = "ExpectRequestLine"
     /\ worker.size = Len(msg) /\ worker.reader = 0
  \/ /\ context[l].state = "ExpectHeaders"
     /\ IsRequest(msg) /\ context[l].path = msg[1].from
     /\ \/ /\ worker.size = Len(msg) /\ worker.reader \in Ends(msg)
           /\ NoneComplete(msg, worker.reader)
        \/ /\ worker.size = 0 /\ worker.reader = 0
           /\ NoneComplete(msg, Len(msg))

\* end is the first end of a line in what is left to read.
FirstEnd(end) ==
  /\ worker.size = Len(worker.text)
  /\ end \in Ends(worker.text)
  /\ worker.reader < end
  /\ \A i \in Ends(worker.text) : worker.reader < i => end <= i

\* A loop that has worker_ to itself parses its own message in it.
Own(l) ==
  Alone(l) =>
    /\ pc[l] \in {"size", "assign"} => context[l] = NewContext
    /\ pc[l] = "assign" => worker.size = Len(str[l]) /\ worker.reader = 0
    /\ pc[l] \in {"find", "use"} => Progress(l)
    /\ pc[l] = "use" => FirstEnd(crlf[l])

ParseInv == \A l \in Loops : Own(l)

\* The replies the result of parsing leads to.
Outcome(c) ==
  IF c.state = "ExpectRequestLine" THEN <<BadRequest>>
  ELSE IF c.state = "GotAll" THEN <<Answer(c.path)>>
  ELSE <<>>

\* What loop l has yet to send on its connection.
Owed(l) ==
  IF pc[l] \in {"size", "assign"} THEN RepliesTo(str[l])
  ELSE IF pc[l] \in {"find", "use"} THEN RepliesTo(worker.text)
  ELSE IF pc[l] = "parsed" THEN Outcome(context[l])
  ELSE <<>>

\* What a message calls for is sent or still owed.
Account(l) ==
  Alone(l) /\ (pc[l] = "shutdown" => connected[cur[l]])
    => due[cur[l]] = out[cur[l]] \o Owed(l)

OwedInv == exited = "no" => \A l \in Loops : Account(l)

\* A connection that is not shut down has no reply, but for the one that is
\* about to be followed by the shutdown.
ReplyInv ==
  \A c \in Conns :
    /\ Len(out[c]) <= 1
    /\ wrShut[c] => out[c] # <<>>
    /\ out[c] # <<>> /\ ~wrShut[c]
         => \E l \in Loops : cur[l] = c /\ pc[l] = "shutdown"

\* Before shutdown() the reply was sent, or the connection was reset.
ShutdownInv ==
  \A l \in Loops :
    pc[l] = "shutdown" => out[cur[l]] # <<>> \/ reset[cur[l]]

----------------------------------------------------------------------------
(* Types *)

\* Some connection stands for the initial value of a path.
LEMMA PathIsConn == AnyPath \in Conns
  BY HttpAssumption DEF AnyPath

\* The tokens of a segment.
LEMMA TokensOf ==
  ASSUME NEW segment \in Seq(Kinds), NEW c \in Conns
  PROVE  [i \in DOMAIN segment |-> [kind |-> segment[i], from |-> c]] \in Seq(Token)
<1>1. DOMAIN segment = 1 .. Len(segment) /\ Len(segment) \in Nat
  OBVIOUS
<1>2. \A i \in 1 .. Len(segment) : [kind |-> segment[i], from |-> c] \in Token
  BY <1>1 DEF Token
<1> QED
  BY <1>1, <1>2, IsASeq

\* What a message calls for is a sequence of replies.
LEMMA RepliesType ==
  ASSUME NEW msg \in Seq(Token)
  PROVE  RepliesTo(msg) \in Seq(Reply)
<1>1. BadRequest \in Reply /\ \A path \in Conns : Answer(path) \in Reply
  BY DEF BadRequest, Answer, Reply
<1>2. ASSUME IsRequest(msg) PROVE msg[1].from \in Conns
  <2>1. 1 \in 1 .. Len(msg)
    BY <1>2 DEF IsRequest
  <2>2. msg[1] \in Token
    BY <2>1, ElementOfSeq
  <2> QED
    BY <2>2 DEF Token
<1>3. <<>> \in Seq(Reply) /\ \A r \in Reply : <<r>> \in Seq(Reply)
  OBVIOUS
<1> HIDE DEF Reply
<1> QED
  BY <1>1, <1>2, <1>3, Zenon DEF RepliesTo

\* The type of every variable, one at a time.
LEMMA Types ==
  ASSUME TypeOK
  PROVE  /\ script \in [Conns -> Scripts] /\ sent \in [Conns -> Nat]
         /\ fin \in [Conns -> BOOLEAN] /\ reset \in [Conns -> BOOLEAN]
         /\ connected \in [Conns -> BOOLEAN] /\ wrShut \in [Conns -> BOOLEAN]
         /\ inbox \in [Conns -> Seq(Token)]
         /\ out \in [Conns -> Seq(Reply)] /\ due \in [Conns -> Seq(Reply)]
         /\ worker \in [text : Seq(Token), size : Nat, reader : Nat]
         /\ worker.text \in Seq(Token) /\ worker.size \in Nat /\ worker.reader \in Nat
         /\ cur \in [Loops -> Conns] /\ str \in [Loops -> Seq(Token)]
         /\ crlf \in [Loops -> Nat]
  BY DEF TypeOK

\* The variables a client changes.
LEMMA ClientType ==
  ASSUME TypeOK, NEW c \in Conns, ClientStep(c) PROVE TypeOK'
<1>1. CASE ClientSend(c)
  <2>1. /\ sent' = [sent EXCEPT ![c] = @ + 1] /\ sent[c] < Len(script[c])
        /\ UNCHANGED <<script, fin, reset, connected, wrShut, out, worker, pc,
                       loopVars, exited, due, disturbed>>
    BY <1>1 DEF ClientSend
  <2>2. script[c] \in Seq(Seq(Kinds)) /\ Len(script[c]) \in Nat
    BY HttpAssumption DEF TypeOK
  <2>3. sent \in [Conns -> Nat] /\ sent[c] \in Nat
    BY DEF TypeOK
  <2>4. sent' \in [Conns -> Nat] /\ \A d \in Conns : sent'[d] <= Len(script[d])
    BY <2>1, <2>2, <2>3 DEF TypeOK
  <2>5. inbox' \in [Conns -> Seq(Token)]
    <3> DEFINE segment == script[c][sent[c] + 1]
               tokens == [i \in DOMAIN segment |-> [kind |-> segment[i], from |-> c]]
    <3>1. segment \in Seq(Kinds)
      <4>1. sent[c] + 1 \in 1 .. Len(script[c])
        BY <2>1, <2>2, <2>3
      <4> QED
        BY <2>2, <4>1
    <3>2. tokens \in Seq(Token)
      BY <3>1, TokensOf
    <3>3. inbox' = [inbox EXCEPT ![c] = @ \o tokens]
      BY <1>1, Zenon DEF ClientSend
    <3>4. inbox \in [Conns -> Seq(Token)]
      BY DEF TypeOK
    <3> HIDE DEF tokens
    <3> QED
      BY <3>2, <3>3, <3>4
  <2> QED
    BY <2>1, <2>4, <2>5 DEF TypeOK, loopVars
<1>2. CASE ClientFin(c)
  <2>1. fin' \in [Conns -> BOOLEAN]
    BY <1>2 DEF TypeOK, ClientFin
  <2>2. UNCHANGED <<script, sent, reset, connVars, worker, pc, loopVars, exited, due,
                    disturbed>>
    BY <1>2 DEF ClientFin
  <2> QED
    BY <2>1, <2>2 DEF TypeOK, connVars, loopVars
<1>3. CASE ClientReset(c)
  <2>1. reset' \in [Conns -> BOOLEAN]
    BY <1>3 DEF TypeOK, ClientReset
  <2>2. UNCHANGED <<script, sent, fin, connVars, worker, pc, loopVars, exited, due,
                    disturbed>>
    BY <1>3 DEF ClientReset
  <2> QED
    BY <2>1, <2>2 DEF TypeOK, connVars, loopVars
<1> QED
  BY <1>1, <1>2, <1>3 DEF ClientStep

\* SetStr.
LEMMA SetStrType ==
  ASSUME TypeOK, NEW l \in Loops, SetSize(l) \/ Assign(l) PROVE TypeOK'
<1>1. CASE SetSize(l)
  <2>1. Len(str[l]) \in Nat
    BY Types
  <2>2. worker' \in [text : Seq(Token), size : Nat, reader : Nat]
    BY <1>1, <2>1, Types DEF SetSize, Sized
  <2>3. pc' \in [Loops -> {"idle", "size", "parsed", "shutdown"} \cup Parsing]
    BY <1>1 DEF SetSize, TypeOK, Parsing
  <2>4. disturbed' \subseteq Conns
    BY <1>1 DEF SetSize, TypeOK, Disturb
  <2> QED
    BY <1>1, <2>2, <2>3, <2>4 DEF SetSize, TypeOK, clientVars, connVars, loopVars
<1>2. CASE Assign(l)
  <2>1. worker' \in [text : Seq(Token), size : Nat, reader : Nat]
    BY <1>2, Types DEF Assign
  <2>2. pc' \in [Loops -> {"idle", "size", "parsed", "shutdown"} \cup Parsing]
    BY <1>2 DEF Assign, TypeOK, Parsing
  <2>3. disturbed' \subseteq Conns
    BY <1>2 DEF Assign, TypeOK, Disturb
  <2>4. crlf' \in [Loops -> Nat]
    BY <1>2 DEF Assign
  <2>5. str' \in [Loops -> Seq(Token)]
    BY <1>2, Types DEF Assign
  <2> QED
    BY <1>2, <2>1, <2>2, <2>3, <2>4, <2>5 DEF Assign, TypeOK, clientVars, connVars
<1> QED
  BY <1>1, <1>2

\* The order of the numbers.
Below == {pair \in Nat \X Nat : pair[1] < pair[2]}

\* A set of positions that is not empty has a first one.
LEMMA First ==
  ASSUME NEW S \in SUBSET Nat, S # {}
  PROVE  \E n \in S : \A m \in S : n <= m
<1>1. IsWellFoundedOn(Below, Nat)
  BY NatLessThanWellFounded DEF OpToRel, Below
<1>2. \E n \in S : \A m \in S : <<m, n>> \notin Below
  BY <1>1, WFMin
<1>3. \A m, n \in Nat : <<m, n>> \in Below <=> m < n
  BY DEF Below
<1>4. PICK n \in S : \A m \in S : ~(m < n)
  BY <1>2, <1>3
<1> QED
  BY <1>4

\* The ends of lines that Find looks for.
Found == {i \in (worker.reader + 1) .. worker.size : worker.text[i].kind = "crlf"}

\* Find takes the first of them.
LEMMA FindTakes ==
  ASSUME TypeOK, NEW l \in Loops, Find(l)
  PROVE  /\ pc[l] = "find" /\ InBounds
         /\ \/ /\ Found = {} /\ pc' = [pc EXCEPT ![l] = "parsed"] /\ crlf' = crlf
            \/ /\ pc' = [pc EXCEPT ![l] = "use"]
               /\ crlf'[l] \in Found /\ \A j \in Found : crlf'[l] <= j
               /\ \A k \in Loops \ {l} : crlf'[k] = crlf[k]
               /\ crlf' \in [Loops -> Nat]
<1>1. Found \in SUBSET Nat
  BY Types DEF Found
<1>2. pc[l] = "find" /\ InBounds
  BY DEF Find
<1>3. CASE Found = {}
  BY <1>2, <1>3, Zenon DEF Find, Found
<1>4. CASE Found # {}
  <2> DEFINE end == CHOOSE i \in Found : \A j \in Found : i <= j
  <2>1. end \in Found /\ \A j \in Found : end <= j
    <3>1. \E i \in Found : \A j \in Found : i <= j
      BY <1>1, <1>4, First
    <3> HIDE DEF Found
    <3> QED
      BY <3>1
  <2>2. pc' = [pc EXCEPT ![l] = "use"] /\ crlf' = [crlf EXCEPT ![l] = end]
    BY <1>4, Zenon DEF Find, Found
  <2>3. crlf \in [Loops -> Nat]
    BY Types
  <2> HIDE DEF end, Found
  <2> QED
    BY <1>1, <1>2, <2>1, <2>2, <2>3
<1> QED
  BY <1>3, <1>4

\* The line the position and the end enclose.
LEMMA LineType ==
  ASSUME TypeOK, NEW l \in Loops, Usable(l)
  PROVE  /\ Line(l) \in Seq(Token)
         /\ Len(Line(l)) = crlf[l] - 1 - worker.reader
         /\ \A i \in 1 .. Len(Line(l)) : Line(l)[i] = worker.text[worker.reader + i]
         /\ \A i \in DOMAIN Line(l) : i \in 1 .. Len(Line(l)) /\ Line(l)[i] \in Token
<1> DEFINE text == worker.text
           from == worker.reader + 1
           to == crlf[l] - 1
<1>1. text \in Seq(Token) /\ worker.reader \in Nat /\ crlf[l] \in Nat
  BY Types
<1>2. from \in 1 .. Len(text) + 1 /\ to \in from - 1 .. Len(text) /\ Len(text) \in Nat
  BY <1>1 DEF Usable
<1>3. Line(l) = SubSeq(text, from, to)
  BY DEF Line
<1>4. /\ SubSeq(text, from, to) \in Seq(Token)
      /\ Len(SubSeq(text, from, to)) = to - from + 1
      /\ \A i \in 1 .. to - from + 1 : SubSeq(text, from, to)[i] = text[from + i - 1]
  <2> HIDE DEF text, from, to
  <2> QED
    BY <1>1, <1>2, SubSeqProperties
<1>5. Line(l) \in Seq(Token) /\ Len(Line(l)) = crlf[l] - 1 - worker.reader
  BY <1>1, <1>3, <1>4
<1>6. ASSUME NEW i \in 1 .. Len(Line(l))
      PROVE  Line(l)[i] = worker.text[worker.reader + i]
  <2>1. /\ i \in 1 .. to - from + 1
        /\ from + i - 1 = worker.reader + i
    BY <1>1, <1>5
  <2> QED
    BY <1>3, <1>4, <2>1, Zenon
<1> HIDE DEF text, from, to
<1>7. \A i \in DOMAIN Line(l) : i \in 1 .. Len(Line(l)) /\ Line(l)[i] \in Token
  BY <1>5
<1> QED
  BY <1>5, <1>6, <1>7

\* What parsing leaves of worker_.
LEMMA RetrievedType ==
  ASSUME TypeOK, NEW end \in Nat
  PROVE  Retrieved(end) \in [text : Seq(Token), size : Nat, reader : Nat]
  BY Types DEF Retrieved

\* The parser.
LEMMA ParserType ==
  ASSUME TypeOK, NEW l \in Loops,
         Find(l) \/ RequestLine(l) \/ HeaderLine(l) \/ Garbled(l)
  PROVE  TypeOK'
<1> DEFINE Pcs == {"idle", "size", "parsed", "shutdown"} \cup Parsing
           Workers == [text : Seq(Token), size : Nat, reader : Nat]
           States == {"ExpectRequestLine", "ExpectHeaders", "GotAll"}
           Contexts == [state : States, ok : BOOLEAN, path : Conns]
           OkIsState == \A k \in Loops : context[k].ok = (context[k].state # "ExpectRequestLine")
<1>1. /\ "find" \in Pcs /\ "use" \in Pcs /\ "parsed" \in Pcs
      /\ pc \in [Loops -> Pcs] /\ context \in [Loops -> Contexts] /\ OkIsState
  BY DEF TypeOK, Parsing
<1>2. CASE Find(l)
  <2>1. UNCHANGED <<clientVars, connVars, worker, cur, str, context, exited, due,
                    disturbed>>
    BY <1>2 DEF Find
  <2>2. pc' \in [Loops -> Pcs] /\ crlf' \in [Loops -> Nat]
    <3>1. crlf \in [Loops -> Nat]
      BY Types
    <3>2. /\ pc' = [pc EXCEPT ![l] = "parsed"] \/ pc' = [pc EXCEPT ![l] = "use"]
          /\ crlf' = crlf \/ crlf' \in [Loops -> Nat]
      BY <1>2, FindTakes, Zenon
    <3> HIDE DEF Pcs
    <3> QED
      BY <1>1, <3>1, <3>2
  <2> QED
    BY <2>1, <2>2 DEF TypeOK, clientVars, connVars
<1>3. ASSUME \/ disturbed' = disturbed \/ Disturb(l) PROVE disturbed' \subseteq Conns
  BY <1>3 DEF TypeOK, Disturb
<1>4. crlf[l] \in Nat
  BY Types
<1>5. ASSUME NEW c \in Contexts, c.ok = (c.state # "ExpectRequestLine"),
             context' = [context EXCEPT ![l] = c]
      PROVE  context' \in [Loops -> Contexts] /\ OkIsState'
  <2> HIDE DEF Contexts
  <2> QED
    BY <1>1, <1>5
<1>6. CASE RequestLine(l)
  <2>1. /\ crlf' = [crlf EXCEPT ![l] = 0] /\ exited' = exited
        /\ UNCHANGED <<clientVars, connVars, cur, str, due>>
    BY <1>6 DEF RequestLine
  <2>2. CASE Len(Line(l)) = 1 /\ Line(l)[1].kind = "request"
    <3> DEFINE c == [state |-> "ExpectHeaders", ok |-> TRUE, path |-> Line(l)[1].from]
    <3>1. /\ context' = [context EXCEPT ![l] = c]
          /\ worker' = Retrieved(crlf[l]) /\ pc' = [pc EXCEPT ![l] = "find"] /\ Disturb(l)
      BY <1>6, <2>2, Zenon DEF RequestLine
    <3>2. Line(l)[1] \in Token
      BY <1>6, <2>2, LineType, ElementOfSeq DEF RequestLine
    <3>3. c \in Contexts /\ c.ok = (c.state # "ExpectRequestLine")
      BY <3>2 DEF Token
    <3>4. context' \in [Loops -> Contexts] /\ OkIsState'
      <4> HIDE DEF Contexts, OkIsState
      <4> QED
        BY <1>5, <3>1, <3>3, Zenon
    <3>5. worker' \in Workers
      BY <1>4, <3>1, RetrievedType
    <3>6. pc' \in [Loops -> Pcs]
      BY <1>1, <3>1
    <3> QED
      BY <1>3, <2>1, <3>1, <3>4, <3>5, <3>6, Types DEF TypeOK, clientVars, connVars
  <2>3. CASE ~(Len(Line(l)) = 1 /\ Line(l)[1].kind = "request")
    <3>1. pc' = [pc EXCEPT ![l] = "parsed"] /\ UNCHANGED <<context, worker, disturbed>>
      BY <1>6, <2>3, Zenon DEF RequestLine
    <3>2. pc' \in [Loops -> Pcs]
      BY <1>1, <3>1
    <3>3. crlf' \in [Loops -> Nat]
      BY <2>1, Types
    <3> QED
      BY <2>1, <3>1, <3>2, <3>3 DEF TypeOK, clientVars, connVars
  <2> QED
    BY <2>2, <2>3
<1>7. CASE HeaderLine(l)
  <2>1. /\ crlf' = [crlf EXCEPT ![l] = 0] /\ exited' = exited /\ Disturb(l)
        /\ worker' = Retrieved(crlf[l])
        /\ UNCHANGED <<clientVars, connVars, cur, str, due>>
    BY <1>7 DEF HeaderLine
  <2>2. /\ \/ context' = [context EXCEPT ![l].state = "GotAll"] \/ context' = context
        /\ \/ pc' = [pc EXCEPT ![l] = "parsed"] \/ pc' = [pc EXCEPT ![l] = "find"]
        /\ context[l].state = "ExpectHeaders"
    BY <1>7, Zenon DEF HeaderLine
  <2>3. context' \in [Loops -> Contexts] /\ OkIsState'
    <3> DEFINE c == [context[l] EXCEPT !.state = "GotAll"]
    <3>1. CASE context' = [context EXCEPT ![l].state = "GotAll"]
      <4>1. c \in Contexts /\ c.ok = (c.state # "ExpectRequestLine")
        BY <1>1, <2>2
      <4>2. context' = [context EXCEPT ![l] = c]
        BY <3>1
      <4> HIDE DEF c, Contexts, OkIsState
      <4> QED
        BY <1>5, <4>1, <4>2, Zenon
    <3>2. CASE context' = context
      BY <1>1, <3>2
    <3> QED
      BY <2>2, <3>1, <3>2
  <2>4. worker' \in Workers
    BY <1>4, <2>1, RetrievedType
  <2>5. pc' \in [Loops -> Pcs]
    BY <1>1, <2>2
  <2>6. crlf' \in [Loops -> Nat] /\ disturbed' \subseteq Conns
    BY <1>3, <2>1, Types
  <2> QED
    BY <2>1, <2>3, <2>4, <2>5, <2>6 DEF TypeOK, clientVars, connVars
<1>8. CASE Garbled(l)
  <2>1. /\ crlf' = [crlf EXCEPT ![l] = 0]
        /\ UNCHANGED <<clientVars, connVars, cur, str, due>>
    BY <1>8 DEF Garbled
  <2>2. crlf' \in [Loops -> Nat]
    BY <2>1, Types
  <2>3. CASE exited' = "crash" /\ UNCHANGED <<pc, context, worker, disturbed>>
    BY <2>1, <2>2, <2>3 DEF TypeOK, clientVars, connVars
  <2>4. CASE exited' # "crash" \/ ~UNCHANGED <<pc, context, worker, disturbed>>
    <3>1. PICK state \in States, path \in Conns, reader \in {worker.reader, worker.size} :
            /\ context' = [context EXCEPT ![l] =
                 [state |-> state, ok |-> state # "ExpectRequestLine", path |-> path]]
            /\ worker' = [worker EXCEPT !.reader = reader]
      BY <1>8, <2>4, Zenon DEF Garbled
    <3>2. pc' = [pc EXCEPT ![l] = "parsed"] /\ Disturb(l) /\ exited' = exited
      BY <1>8, <2>4, Zenon DEF Garbled
    <3>3. PICK ok \in BOOLEAN : ok = (state # "ExpectRequestLine")
      OBVIOUS
    <3> DEFINE c == [state |-> state, ok |-> ok, path |-> path]
    <3>4. c \in Contexts /\ c.ok = (c.state # "ExpectRequestLine")
      BY <3>3
    <3>5. context' = [context EXCEPT ![l] = c]
      BY <3>1, <3>3, Zenon
    <3>6. context' \in [Loops -> Contexts] /\ OkIsState'
      <4> HIDE DEF c, Contexts, OkIsState
      <4> QED
        BY <1>5, <3>4, <3>5, Zenon
    <3>7. worker' \in Workers
      BY <3>1, Types
    <3>8. pc' \in [Loops -> Pcs]
      BY <1>1, <3>2
    <3>9. disturbed' \subseteq Conns
      BY <1>3, <3>2
    <3> QED
      BY <2>1, <2>2, <3>2, <3>6, <3>7, <3>8, <3>9 DEF TypeOK, clientVars, connVars
  <2> QED
    BY <2>3, <2>4
<1> QED
  BY <1>2, <1>6, <1>7, <1>8

\* onMessage, but for the parsing.
LEMMA MessageType ==
  ASSUME TypeOK, NEW l \in Loops,
         \/ \E c \in Conns : Read(l, c)
         \/ Forget(l) \/ SendBadRequest(l) \/ SendAnswer(l) \/ Shutdown(l)
  PROVE  TypeOK'
<1> DEFINE Pcs == {"idle", "size", "parsed", "shutdown"} \cup Parsing
           Contexts == [state : {"ExpectRequestLine", "ExpectHeaders", "GotAll"},
                        ok : BOOLEAN, path : Conns]
           OkIsState == \A k \in Loops : context[k].ok = (context[k].state # "ExpectRequestLine")
<1>1. /\ "size" \in Pcs /\ "idle" \in Pcs /\ "shutdown" \in Pcs
      /\ pc \in [Loops -> Pcs] /\ context \in [Loops -> Contexts] /\ OkIsState
  BY DEF TypeOK, Parsing
<1>2. ASSUME context' = [context EXCEPT ![l] = NewContext]
      PROVE  context' \in [Loops -> Contexts] /\ OkIsState'
  <2>1. NewContext \in Contexts /\ NewContext.ok = (NewContext.state # "ExpectRequestLine")
    BY PathIsConn DEF NewContext
  <2> HIDE DEF Contexts
  <2> QED
    BY <1>1, <1>2, <2>1
<1>3. ASSUME NEW c \in Conns, Read(l, c) PROVE TypeOK'
  <2>1. /\ inbox' = [inbox EXCEPT ![c] = <<>>]
        /\ UNCHANGED <<clientVars, wrShut, out, worker, crlf, exited, disturbed>>
    BY <1>3 DEF Read
  <2>2. inbox' \in [Conns -> Seq(Token)]
    BY <2>1, Types
  <2>3. CASE fin[c] \/ reset[c]
    <3>1. /\ connected' = [connected EXCEPT ![c] = FALSE]
          /\ UNCHANGED <<pc, cur, str, context, due>>
      BY <1>3, <2>3, Zenon DEF Read
    <3>2. connected' \in [Conns -> BOOLEAN]
      BY <3>1, Types
    <3>3. UNCHANGED <<script, sent, fin, reset, wrShut, out, worker, pc, cur, str,
                      context, crlf, exited, due, disturbed>>
      BY <2>1, <3>1 DEF clientVars
    <3> QED
      BY <2>2, <3>2, <3>3 DEF TypeOK
  <2>4. CASE ~(fin[c] \/ reset[c])
    <3>1. /\ pc' = [pc EXCEPT ![l] = "size"] /\ cur' = [cur EXCEPT ![l] = c]
          /\ str' = [str EXCEPT ![l] = inbox[c]] /\ connected' = connected
          /\ context' = [context EXCEPT ![l] = NewContext]
          /\ due' = [due EXCEPT ![c] = @ \o RepliesTo(inbox[c])]
      BY <1>3, <2>4, Zenon DEF Read
    <3>2. pc' \in [Loops -> Pcs]
      BY <1>1, <3>1
    <3>3. cur' \in [Loops -> Conns] /\ str' \in [Loops -> Seq(Token)]
      BY <3>1, Types
    <3>4. context' \in [Loops -> Contexts] /\ OkIsState'
      <4> HIDE DEF Contexts, OkIsState
      <4> QED
        BY <1>2, <3>1
    <3>5. due' \in [Conns -> Seq(Reply)]
      <4>1. RepliesTo(inbox[c]) \in Seq(Reply) /\ due \in [Conns -> Seq(Reply)]
        BY RepliesType, Types
      <4> HIDE DEF Reply
      <4> QED
        BY <3>1, <4>1
    <3>6. UNCHANGED <<script, sent, fin, reset, connected, wrShut, out, worker,
                      crlf, exited, disturbed>>
      BY <2>1, <3>1 DEF clientVars
    <3> QED
      BY <2>2, <3>2, <3>3, <3>4, <3>5, <3>6 DEF TypeOK
  <2> QED
    BY <2>3, <2>4
<1>4. CASE Forget(l)
  <2>1. /\ pc' = [pc EXCEPT ![l] = "idle"]
        /\ context' = [context EXCEPT ![l] = NewContext]
        /\ UNCHANGED <<clientVars, connVars, worker, cur, str, crlf, exited, due,
                       disturbed>>
    BY <1>4 DEF Forget, Return
  <2>2. pc' \in [Loops -> Pcs]
    BY <1>1, <2>1
  <2>3. context' \in [Loops -> Contexts] /\ OkIsState'
    <3> HIDE DEF Contexts, OkIsState
    <3> QED
      BY <1>2, <2>1
  <2> QED
    BY <2>1, <2>2, <2>3 DEF TypeOK, clientVars, connVars
<1>5. ASSUME NEW reply \in Reply, Send(l, reply),
             UNCHANGED <<clientVars, inbox, wrShut, worker, loopVars, due, disturbed>>
      PROVE  TypeOK'
  <2>1. cur[l] \in Conns
    BY Types
  <2>2. /\ pc' = pc \/ pc' = [pc EXCEPT ![l] = "shutdown"]
        /\ connected' = connected \/ connected' = [connected EXCEPT ![cur[l]] = FALSE]
        /\ out' = out \/ out' = [out EXCEPT ![cur[l]] = Append(@, reply)]
        /\ exited' = exited \/ exited' = "SIGPIPE"
    BY <1>5, Zenon DEF Send
  <2>3. pc' \in [Loops -> Pcs]
    BY <1>1, <2>2
  <2>4. connected' \in [Conns -> BOOLEAN]
    BY <2>2, Types
  <2>5. out' \in [Conns -> Seq(Reply)]
    <3>1. out \in [Conns -> Seq(Reply)] /\ Append(out[cur[l]], reply) \in Seq(Reply)
      <4>1. out \in [Conns -> Seq(Reply)]
        BY Types
      <4> HIDE DEF Reply
      <4> QED
        BY <2>1, <4>1
    <3> HIDE DEF Reply
    <3> QED
      BY <2>1, <2>2, <3>1
  <2>6. UNCHANGED <<script, sent, fin, reset, inbox, wrShut, worker, cur, str, context,
                    crlf, due, disturbed>>
    BY <1>5 DEF clientVars, loopVars
  <2>7. exited' \in {"no", "crash", "SIGPIPE", "shutdown"}
    BY <2>2 DEF TypeOK
  <2> QED
    BY <2>3, <2>4, <2>5, <2>6, <2>7 DEF TypeOK
<1>6. CASE SendBadRequest(l)
  BY <1>5, <1>6 DEF SendBadRequest, BadRequest, Reply
<1>7. CASE SendAnswer(l)
  <2>1. context[l].path \in Conns
    BY <1>1
  <2>2. Answer(context[l].path) \in Reply
    BY <2>1 DEF Answer, Reply
  <2> QED
    BY <1>5, <1>7, <2>2 DEF SendAnswer
<1>8. CASE Shutdown(l)
  <2>1. UNCHANGED <<clientVars, inbox, connected, out, worker, cur, str, crlf, due,
                    disturbed>>
    BY <1>8 DEF Shutdown
  <2>2. CASE reset[cur[l]]
    <3>1. exited' = "shutdown" /\ UNCHANGED <<pc, context, wrShut>>
      BY <1>8, <2>2, Zenon DEF Shutdown, Closes
    <3> QED
      BY <2>1, <3>1 DEF TypeOK, clientVars
  <2>3. CASE ~reset[cur[l]]
    <3>1. /\ wrShut' = [wrShut EXCEPT ![cur[l]] = TRUE]
          /\ pc' = [pc EXCEPT ![l] = "idle"]
          /\ context' = [context EXCEPT ![l] = NewContext] /\ exited' = exited
      BY <1>8, <2>3 DEF Shutdown, Closes, Return
    <3>2. pc' \in [Loops -> Pcs] /\ {fin, reset, connected, wrShut}' \subseteq [Conns -> BOOLEAN]
      BY <1>1, <2>1, <3>1, Types DEF clientVars
    <3>3. context' \in [Loops -> Contexts] /\ OkIsState'
      <4> HIDE DEF Contexts, OkIsState
      <4> QED
        BY <1>2, <3>1
    <3>4. UNCHANGED <<script, sent, inbox, out, worker, cur, str, crlf, exited, due,
                      disturbed>>
      BY <2>1, <3>1 DEF clientVars
    <3> QED
      BY <3>2, <3>3, <3>4 DEF TypeOK
  <2> QED
    BY <2>2, <2>3
<1> QED
  BY <1>3, <1>4, <1>6, <1>7, <1>8

\* Every variable starts with its type and keeps it.
LEMMA InitType == Init => TypeOK
<1> SUFFICES ASSUME Init PROVE TypeOK
  OBVIOUS
<1>1. script \in [Conns -> Scripts] /\ \A c \in Conns : Len(script[c]) \in Nat
  BY HttpAssumption DEF Init
<1>2. sent \in [Conns -> Nat] /\ \A c \in Conns : sent[c] <= Len(script[c])
  BY <1>1 DEF Init
<1>3. {fin, reset, connected, wrShut} \subseteq [Conns -> BOOLEAN]
  BY DEF Init
<1>4. /\ inbox \in [Conns -> Seq(Token)] /\ {out, due} \subseteq [Conns -> Seq(Reply)]
      /\ str \in [Loops -> Seq(Token)]
      /\ worker \in [text : Seq(Token), size : Nat, reader : Nat]
  <2> HIDE DEF Token, Reply
  <2> QED
    BY DEF Init
<1>5. /\ pc \in [Loops -> {"idle", "size", "parsed", "shutdown"} \cup Parsing]
      /\ cur \in [Loops -> Conns] /\ crlf \in [Loops -> Nat]
  BY PathIsConn DEF Init
<1>6. /\ context \in [Loops ->
           [state : {"ExpectRequestLine", "ExpectHeaders", "GotAll"},
            ok : BOOLEAN, path : Conns]]
      /\ \A l \in Loops : context[l].ok = (context[l].state # "ExpectRequestLine")
  BY PathIsConn DEF Init, NewContext
<1> QED
  BY <1>1, <1>2, <1>3, <1>4, <1>5, <1>6 DEF Init, TypeOK

\* Every step keeps the types.
LEMMA NextType == TypeOK /\ [Next]_vars => TypeOK'
<1> SUFFICES ASSUME TypeOK, [Next]_vars PROVE TypeOK'
  OBVIOUS
<1>1. CASE UNCHANGED vars
  BY <1>1 DEF TypeOK, vars, clientVars, connVars, loopVars
<1>2. CASE Next
  BY <1>2, ClientType, SetStrType, ParserType, MessageType DEF Next, LoopStep
<1> QED
  BY <1>1, <1>2

\* Every variable keeps its type, whatever the clients send.
THEOREM TypeCorrect == Spec => []TypeOK
  BY InitType, NextType, PTL DEF Spec

----------------------------------------------------------------------------
(* What a step leaves alone *)

\* What a step of loop l leaves of the other loops, and of the connections it
\* does not serve.
LoopFrame(l) ==
  /\ UNCHANGED <<fin, reset, sent, script>>
  /\ \A k \in Loops \ {l} :
       /\ pc'[k] = pc[k] /\ cur'[k] = cur[k]
       /\ context'[k] = context[k] /\ str'[k] = str[k]
       /\ pc[k] \in Parsing /\ cur[k] \notin disturbed'
            => worker' = worker /\ crlf'[k] = crlf[k]
  /\ disturbed \subseteq disturbed'
  /\ \A c \in Conns : c # cur'[l] =>
       out'[c] = out[c] /\ due'[c] = due[c] /\ wrShut'[c] = wrShut[c]
  /\ \A c \in Conns : connected'[c] => connected[c]
  /\ pc[l] # "idle" => cur'[l] = cur[l]
  /\ pc[l] = "idle" =>
       UNCHANGED <<out, wrShut>> /\ (LoopOf[cur'[l]] = l \/ UNCHANGED <<due, pc>>)

\* A loop that changes worker_ disturbs whoever is parsing.
LEMMA DisturbFrame ==
  ASSUME NEW l \in Loops, Disturb(l)
  PROVE  /\ disturbed \subseteq disturbed'
         /\ \A k \in Loops \ {l} : pc[k] \in Parsing => cur[k] \in disturbed'
  BY DEF Disturb

\* Every step of a loop is like that.
LEMMA StepFrame ==
  ASSUME TypeOK, NEW l \in Loops, LoopStep(l)
  PROVE  LoopFrame(l)
<1> DEFINE Quiet == UNCHANGED <<fin, reset, sent, script, connected, wrShut, out, due, cur>>
           Pcs == {"idle", "size", "parsed", "shutdown"} \cup Parsing
<1>1. /\ pc \in [Loops -> Pcs] /\ cur \in [Loops -> Conns]
      /\ str \in [Loops -> Seq(Token)] /\ crlf \in [Loops -> Nat]
      /\ connected \in [Conns -> BOOLEAN] /\ wrShut \in [Conns -> BOOLEAN]
      /\ out \in [Conns -> Seq(Reply)] /\ due \in [Conns -> Seq(Reply)]
      /\ context \in [Loops ->
           [state : {"ExpectRequestLine", "ExpectHeaders", "GotAll"},
            ok : BOOLEAN, path : Conns]]
  BY DEF TypeOK
<1>2. ASSUME NEW c \in Conns, Read(l, c) PROVE LoopFrame(l)
  <2>1. /\ pc[l] = "idle" /\ connected[c] /\ LoopOf[c] = l
        /\ UNCHANGED <<fin, reset, sent, script, wrShut, out, worker, crlf, disturbed>>
    BY <1>2 DEF Read, clientVars
  <2>2. CASE UNCHANGED <<pc, cur, str, context, due>>
    <3>1. connected' = [connected EXCEPT ![c] = FALSE] \/ connected' = connected
      BY <1>2, Zenon DEF Read
    <3> QED
      BY <1>1, <2>1, <2>2, <3>1 DEF LoopFrame
  <2>3. CASE ~UNCHANGED <<pc, cur, str, context, due>>
    <3>1. /\ pc' = [pc EXCEPT ![l] = "size"] /\ cur' = [cur EXCEPT ![l] = c]
          /\ str' = [str EXCEPT ![l] = inbox[c]] /\ connected' = connected
          /\ context' = [context EXCEPT ![l] = NewContext]
          /\ due' = [due EXCEPT ![c] = @ \o RepliesTo(inbox[c])]
      BY <1>2, <2>3, Zenon DEF Read
    <3>2. cur'[l] = c /\ \A d \in Conns : d # c => due'[d] = due[d]
      BY <1>1, <3>1
    <3>3. \A k \in Loops \ {l} :
            /\ pc'[k] = pc[k] /\ cur'[k] = cur[k]
            /\ context'[k] = context[k] /\ str'[k] = str[k]
      BY <1>1, <3>1
    <3>4. connected' = connected
      BY <3>1
    <3> QED
      BY <2>1, <3>2, <3>3, <3>4 DEF LoopFrame
  <2> QED
    BY <2>2, <2>3
<1>3. ASSUME Quiet, pc[l] # "idle",
             \A k \in Loops \ {l} :
               pc'[k] = pc[k] /\ context'[k] = context[k] /\ str'[k] = str[k],
             \/ Disturb(l)
             \/ worker' = worker /\ disturbed' = disturbed
                /\ \A k \in Loops \ {l} : crlf'[k] = crlf[k]
      PROVE  LoopFrame(l)
  <2>1. /\ disturbed \subseteq disturbed'
        /\ \A k \in Loops \ {l} :
             pc[k] \in Parsing /\ cur[k] \notin disturbed'
               => worker' = worker /\ crlf'[k] = crlf[k]
    BY <1>3, DisturbFrame
  <2> QED
    BY <1>3, <2>1 DEF LoopFrame
<1>4. CASE SetSize(l) \/ Assign(l)
  <2>1. Quiet /\ pc[l] # "idle" /\ Disturb(l) /\ context' = context
    BY <1>4 DEF SetSize, Assign, clientVars, connVars, loopVars
  <2>2. \A k \in Loops \ {l} : pc'[k] = pc[k] /\ str'[k] = str[k]
    BY <1>1, <1>4 DEF SetSize, Assign, loopVars
  <2> QED
    BY <1>3, <2>1, <2>2
<1>5. CASE Find(l)
  <2>1. /\ Quiet /\ pc[l] # "idle" /\ worker' = worker /\ disturbed' = disturbed
        /\ context' = context /\ str' = str
    BY <1>5 DEF Find, clientVars, connVars
  <2>2. \A k \in Loops \ {l} : pc'[k] = pc[k] /\ crlf'[k] = crlf[k]
    <3>1. /\ pc' = [pc EXCEPT ![l] = "parsed"] \/ pc' = [pc EXCEPT ![l] = "use"]
          /\ crlf' = crlf \/ \A k \in Loops \ {l} : crlf'[k] = crlf[k]
      BY <1>5, FindTakes, Zenon
    <3> QED
      BY <1>1, <3>1
  <2> QED
    BY <1>3, <2>1, <2>2
<1>6. CASE RequestLine(l) \/ HeaderLine(l) \/ Garbled(l)
  <2>1. Quiet /\ pc[l] # "idle" /\ str' = str /\ crlf' = [crlf EXCEPT ![l] = 0]
    BY <1>6, Zenon DEF RequestLine, HeaderLine, Garbled, clientVars, connVars
  <2>2. \A k \in Loops \ {l} : pc'[k] = pc[k] /\ context'[k] = context[k]
    <3>1. \/ pc' = pc \/ \E x \in Pcs : pc' = [pc EXCEPT ![l] = x]
      <4>1. "find" \in Pcs /\ "parsed" \in Pcs
        BY DEF Parsing
      <4> HIDE DEF Pcs
      <4> QED
        BY <1>6, <4>1, Zenon DEF RequestLine, HeaderLine, Garbled
    <3>2. context' = context \/ \E x : context' = [context EXCEPT ![l] = x]
      <4>1. CASE RequestLine(l)
        BY <4>1, Zenon DEF RequestLine
      <4>2. CASE HeaderLine(l)
        <5>1. context' = context \/ context' = [context EXCEPT ![l].state = "GotAll"]
          BY <4>2, Zenon DEF HeaderLine
        <5>2. [context EXCEPT ![l].state = "GotAll"]
                = [context EXCEPT ![l] = [context[l] EXCEPT !.state = "GotAll"]]
          OBVIOUS
        <5> QED
          BY <5>1, <5>2, Zenon
      <4>3. CASE Garbled(l)
        BY <4>3, Zenon DEF Garbled
      <4> QED
        BY <1>6, <4>1, <4>2, <4>3
    <3> QED
      BY <1>1, <3>1, <3>2
  <2>3. \/ Disturb(l)
        \/ worker' = worker /\ disturbed' = disturbed
    BY <1>6, Zenon DEF RequestLine, HeaderLine, Garbled
  <2>4. \A k \in Loops \ {l} : crlf'[k] = crlf[k]
    BY <1>1, <2>1
  <2> QED
    BY <1>3, <2>1, <2>2, <2>3, <2>4
<1>7. CASE Forget(l)
  <2>1. /\ Quiet /\ pc[l] # "idle" /\ worker' = worker /\ disturbed' = disturbed
        /\ str' = str /\ crlf' = crlf
    BY <1>7 DEF Forget, clientVars, connVars
  <2>2. /\ pc' = [pc EXCEPT ![l] = "idle"]
        /\ context' = [context EXCEPT ![l] = NewContext]
    BY <1>7 DEF Forget, Return
  <2>3. \A k \in Loops \ {l} : pc'[k] = pc[k] /\ context'[k] = context[k]
    BY <1>1, <2>2
  <2> QED
    BY <1>3, <2>1, <2>3
<1>8. ASSUME NEW reply, Send(l, reply), pc[l] = "parsed",
             UNCHANGED <<clientVars, inbox, wrShut, worker, loopVars, due, disturbed>>
      PROVE  LoopFrame(l)
  <2>1. UNCHANGED <<fin, reset, sent, script, wrShut, worker, cur, str, context, crlf,
                    due, disturbed>>
    BY <1>8 DEF clientVars, loopVars
  <2>2. /\ pc' = pc \/ pc' = [pc EXCEPT ![l] = "shutdown"]
        /\ connected' = connected \/ connected' = [connected EXCEPT ![cur[l]] = FALSE]
        /\ out' = out \/ out' = [out EXCEPT ![cur[l]] = Append(@, reply)]
    BY <1>8, Zenon DEF Send
  <2>3. \A k \in Loops \ {l} : pc'[k] = pc[k]
    BY <1>1, <2>2
  <2>4. \A c \in Conns : (connected'[c] => connected[c])
                         /\ (c # cur[l] => out'[c] = out[c])
    <3> HIDE DEF Reply
    <3> QED
      BY <1>1, <2>2
  <2> QED
    BY <1>8, <2>1, <2>3, <2>4 DEF LoopFrame
<1>9. CASE SendBadRequest(l) \/ SendAnswer(l)
  BY <1>8, <1>9 DEF SendBadRequest, SendAnswer
<1>10. CASE Shutdown(l)
  <2>1. /\ UNCHANGED <<fin, reset, sent, script, connected, out, worker, cur, str,
                       crlf, due, disturbed>>
        /\ pc[l] = "shutdown"
    BY <1>10 DEF Shutdown, clientVars
  <2>2. \/ UNCHANGED <<pc, context, wrShut>>
        \/ /\ wrShut' = [wrShut EXCEPT ![cur[l]] = TRUE]
           /\ pc' = [pc EXCEPT ![l] = "idle"]
           /\ context' = [context EXCEPT ![l] = NewContext]
    BY <1>10 DEF Shutdown, Closes, Return
  <2>3. /\ \A k \in Loops \ {l} : pc'[k] = pc[k] /\ context'[k] = context[k]
        /\ \A c \in Conns : c # cur[l] => wrShut'[c] = wrShut[c]
    BY <1>1, <2>2
  <2> QED
    BY <2>1, <2>3 DEF LoopFrame
<1> QED
  BY <1>2, <1>4, <1>5, <1>6, <1>7, <1>9, <1>10 DEF LoopStep

\* A client changes none of what the loops keep.
LEMMA ClientFrame ==
  ASSUME NEW c \in Conns, ClientStep(c)
  PROVE  /\ UNCHANGED <<connected, wrShut, out, worker, pc, cur, str, context, crlf,
                        exited, due, disturbed>>
         /\ TypeOK => \A d \in Conns : reset[d] => reset'[d]
<1>1. UNCHANGED <<connected, wrShut, out, worker, pc, cur, str, context, crlf,
                  exited, due, disturbed>>
  BY DEF ClientStep, ClientSend, ClientFin, ClientReset, connVars, loopVars
<1>2. reset' = reset \/ reset' = [reset EXCEPT ![c] = TRUE]
  <2>1. CASE ClientSend(c)
    BY <2>1 DEF ClientSend
  <2>2. CASE ClientFin(c)
    BY <2>2 DEF ClientFin
  <2>3. CASE ClientReset(c)
    BY <2>3 DEF ClientReset
  <2> QED
    BY <2>1, <2>2, <2>3 DEF ClientStep
<1>3. ASSUME TypeOK PROVE \A d \in Conns : reset[d] => reset'[d]
  BY <1>2, <1>3, Types
<1> QED
  BY <1>1, <1>3

----------------------------------------------------------------------------
(* Parsing line by line, and what the whole message calls for *)

\* A message without an end of line is no request.
LEMMA NoEndNoRequest ==
  ASSUME NEW msg \in Seq(Token), Ends(msg) = {}
  PROVE  ~IsRequest(msg)
<1> SUFFICES ASSUME IsRequest(msg) PROVE FALSE
  OBVIOUS
<1>1. 2 \in DOMAIN msg /\ msg[2].kind = "crlf"
  BY DEF IsRequest
<1> QED
  BY <1>1 DEF Ends

\* The first line makes the message a request just if it is a request line.
LEMMA FirstLine ==
  ASSUME NEW msg \in Seq(Token), NEW end \in Ends(msg),
         \A i \in Ends(msg) : end <= i
  PROVE  IsRequest(msg) <=> end = 2 /\ msg[1].kind = "request"
<1>1. /\ end \in 1 .. Len(msg) /\ Len(msg) \in Nat /\ msg[end].kind = "crlf"
      /\ \A i \in 1 .. Len(msg) : msg[i].kind = "crlf" => end <= i
  BY DEF Ends
<1>2. ASSUME IsRequest(msg) PROVE end = 2 /\ msg[1].kind = "request"
  <2>1. Len(msg) >= 2 /\ msg[1].kind = "request" /\ msg[2].kind = "crlf"
    BY <1>2 DEF IsRequest
  <2>2. end <= 2 /\ end # 1
    BY <1>1, <2>1
  <2> QED
    BY <1>1, <2>1, <2>2
<1>3. ASSUME end = 2, msg[1].kind = "request" PROVE IsRequest(msg)
  BY <1>1, <1>3 DEF IsRequest
<1> QED
  BY <1>2, <1>3

\* No line is complete before the second end of line.
LEMMA NoneAtFirst ==
  ASSUME NEW msg \in Seq(Token), NEW end \in Ends(msg),
         \A i \in Ends(msg) : end <= i
  PROVE  NoneComplete(msg, end)
<1>1. Ends(msg) \subseteq Nat
  BY DEF Ends
<1> QED
  BY <1>1 DEF NoneComplete

\* A line of headers with a colon leaves the request incomplete.
LEMMA HeaderStep ==
  ASSUME NEW msg \in Seq(Token), NEW n \in Ends(msg), NEW end \in Ends(msg),
         n < end, \A i \in Ends(msg) : n < i => end <= i,
         NoneComplete(msg, n),
         \E k \in (n + 1) .. (end - 1) : msg[k].kind = "header"
  PROVE  NoneComplete(msg, end)
<1>1. Ends(msg) \subseteq Nat
  BY DEF Ends
<1> SUFFICES ASSUME NEW i \in Ends(msg), NEW j \in Ends(msg), i < j, j <= end
             PROVE  \E k \in (i + 1) .. (j - 1) : msg[k].kind \in {"header", "crlf"}
  BY DEF NoneComplete
<1>2. CASE j <= n
  BY <1>2 DEF NoneComplete
<1>3. CASE ~(j <= n)
  <2>1. j = end /\ i <= n
    BY <1>1, <1>3
  <2>2. CASE i = n
    BY <2>1, <2>2
  <2>3. CASE i # n
    <3>1. n \in (i + 1) .. (j - 1) /\ msg[n].kind = "crlf"
      BY <1>1, <2>1, <2>3 DEF Ends
    <3> QED
      BY <3>1
  <2> QED
    BY <2>2, <2>3
<1> QED
  BY <1>2, <1>3

\* A line without one completes it.
LEMMA LastLine ==
  ASSUME NEW msg \in Seq(Token), NEW n \in Ends(msg), NEW end \in Ends(msg),
         n < end, \A i \in Ends(msg) : n < i => end <= i,
         \A k \in (n + 1) .. (end - 1) : msg[k].kind # "header"
  PROVE  IsComplete(msg)
<1>1. Ends(msg) = {i \in 1 .. Len(msg) : msg[i].kind = "crlf"} /\ Len(msg) \in Nat
  BY DEF Ends
<1>2. \A k \in (n + 1) .. (end - 1) : msg[k].kind # "crlf"
  <2> SUFFICES ASSUME NEW k \in (n + 1) .. (end - 1), msg[k].kind = "crlf" PROVE FALSE
    OBVIOUS
  <2>1. k \in 1 .. Len(msg)
    BY <1>1
  <2>2. k \in Ends(msg) /\ n < k /\ ~(end <= k)
    BY <1>1, <2>1
  <2> QED
    BY <2>2
<1>3. \A k \in (n + 1) .. (end - 1) : msg[k].kind \notin {"header", "crlf"}
  BY <1>2
<1> QED
  BY <1>3, Zenon DEF IsComplete

\* Nothing follows the last end of line.
LEMMA NoneAfter ==
  ASSUME NEW msg \in Seq(Token), NEW n \in Nat, NoneComplete(msg, n),
         \A i \in Ends(msg) : i <= n
  PROVE  NoneComplete(msg, Len(msg))
  BY Zenon DEF NoneComplete

\* The request is complete unless none of its lines is.
LEMMA CompleteOrNone ==
  ASSUME NEW msg \in Seq(Token), NoneComplete(msg, Len(msg))
  PROVE  ~IsComplete(msg)
<1>1. \A j \in Ends(msg) : j <= Len(msg)
  BY DEF Ends
<1> QED
  BY <1>1, Zenon DEF NoneComplete, IsComplete

----------------------------------------------------------------------------
(* Parsing in worker_ *)

\* The replies in each of the three cases.
LEMMA RepliesCases ==
  ASSUME NEW msg
  PROVE  /\ ~IsRequest(msg) => RepliesTo(msg) = <<BadRequest>>
         /\ IsRequest(msg) /\ IsComplete(msg) => RepliesTo(msg) = <<Answer(msg[1].from)>>
         /\ IsRequest(msg) /\ ~IsComplete(msg) => RepliesTo(msg) = <<>>
  BY Zenon DEF RepliesTo

\* While the size is that of the text, Find looks through the ends of lines that
\* follow the position; when the size is 0, through none.
LEMMA FoundEnds ==
  ASSUME TypeOK
  PROVE  /\ worker.size = Len(worker.text)
              => Found = {i \in Ends(worker.text) : worker.reader < i}
         /\ worker.size = 0 => Found = {}
<1>1. /\ worker.text \in Seq(Token) /\ worker.size \in Nat /\ worker.reader \in Nat
  BY Types
<1>2. Ends(worker.text) = {i \in 1 .. Len(worker.text) : worker.text[i].kind = "crlf"}
  BY <1>1 DEF Ends
<1>3. ASSUME worker.size = Len(worker.text)
      PROVE  Found = {i \in Ends(worker.text) : worker.reader < i}
  BY <1>1, <1>2, <1>3 DEF Found
<1>4. ASSUME worker.size = 0 PROVE Found = {}
  BY <1>1, <1>4 DEF Found
<1> QED
  BY <1>3, <1>4

\* SetStr fills worker_ with the loop's message.
LEMMA SetStrParse ==
  ASSUME TypeOK, NEW l \in Loops, Own(l), Account(l), SetSize(l) \/ Assign(l)
  PROVE  Own(l)' /\ Account(l)'
<1>1. /\ cur' = cur /\ UNCHANGED <<context, out, due, connected>>
      /\ disturbed \subseteq disturbed' /\ pc[l] # "idle"
  BY DisturbFrame DEF SetSize, Assign, loopVars, connVars
<1> SUFFICES ASSUME Alone(l)' PROVE Own(l)' /\ Account(l)'
  BY DEF Own, Account
<1>2. Alone(l)
  BY <1>1 DEF Alone
<1>3. pc \in [Loops -> {"idle", "size", "parsed", "shutdown"} \cup Parsing]
  BY DEF TypeOK
<1>4. /\ context[l] = NewContext
      /\ due[cur[l]] = out[cur[l]] \o RepliesTo(str[l])
  BY <1>2 DEF Own, Account, Owed, SetSize, Assign
<1>5. CASE SetSize(l)
  <2>1. pc'[l] = "assign" /\ str' = str
    BY <1>3, <1>5 DEF SetSize, loopVars
  <2>2. worker'.size = Len(str[l]) /\ worker'.reader = 0
    BY <1>5, Types DEF SetSize, Sized
  <2>3. Own(l)'
    BY <1>1, <1>4, <2>1, <2>2 DEF Own
  <2>4. Account(l)'
    BY <1>1, <1>4, <2>1 DEF Account, Owed
  <2> QED
    BY <2>3, <2>4
<1>6. CASE Assign(l)
  <2>1. pc'[l] = "find"
    BY <1>3, <1>6 DEF Assign
  <2>2. worker.size = Len(str[l]) /\ worker.reader = 0
    BY <1>2, <1>6 DEF Own, Assign
  <2>3. worker'.text = str[l] /\ worker'.size = Len(str[l]) /\ worker'.reader = 0
    BY <1>6, <2>2, Types DEF Assign
  <2>4. Progress(l)'
    BY <1>1, <1>4, <2>3 DEF Progress, NewContext
  <2>5. Own(l)'
    BY <2>1, <2>4 DEF Own
  <2>6. Account(l)'
    BY <1>1, <1>4, <2>1, <2>3 DEF Account, Owed
  <2> QED
    BY <2>5, <2>6
<1> QED
  BY <1>5, <1>6

\* Without an end of line the parser has what the message calls for.
LEMMA NothingFound ==
  ASSUME TypeOK, NEW l \in Loops, Progress(l), Found = {}
  PROVE  Outcome(context[l]) = RepliesTo(worker.text)
<1> DEFINE msg == worker.text
<1>1. msg \in Seq(Token) /\ worker.reader \in Nat /\ Ends(msg) \subseteq 1 .. Len(msg)
  BY Types DEF Ends
<1>2. CASE context[l].state = "ExpectRequestLine"
  <2>1. worker.size = Len(msg) /\ worker.reader = 0
    BY <1>2 DEF Progress
  <2>2. Ends(msg) = {}
    BY <1>1, <2>1, FoundEnds
  <2>3. ~IsRequest(msg)
    BY <1>1, <2>2, NoEndNoRequest
  <2> QED
    BY <1>2, <2>3, RepliesCases DEF Outcome
<1>3. CASE context[l].state # "ExpectRequestLine"
  <2>1. context[l].state = "ExpectHeaders" /\ IsRequest(msg)
    BY <1>3 DEF Progress
  <2>2. NoneComplete(msg, Len(msg))
    <3>1. CASE worker.size = Len(msg) /\ NoneComplete(msg, worker.reader)
      <4>1. \A i \in Ends(msg) : i <= worker.reader
        BY <1>1, <3>1, FoundEnds
      <4> QED
        BY <1>1, <3>1, <4>1, NoneAfter
    <3> QED
      BY <1>3, <3>1 DEF Progress
  <2>3. ~IsComplete(msg)
    BY <1>1, <2>2, CompleteOrNone
  <2> QED
    BY <2>1, <2>3, RepliesCases DEF Outcome
<1> QED
  BY <1>2, <1>3

\* Find stops at the first end of a line that is left, or the parsing ends.
LEMMA FindParse ==
  ASSUME TypeOK, NEW l \in Loops, Own(l), Account(l), Find(l)
  PROVE  Own(l)' /\ Account(l)'
<1>1. UNCHANGED <<worker, cur, str, context, out, due, connected, disturbed>> /\ pc[l] = "find"
  BY DEF Find, connVars
<1> SUFFICES ASSUME Alone(l)' PROVE Own(l)' /\ Account(l)'
  BY DEF Own, Account
<1>2. Alone(l)
  BY <1>1 DEF Alone
<1>3. pc \in [Loops -> {"idle", "size", "parsed", "shutdown"} \cup Parsing]
  BY DEF TypeOK
<1>4. Progress(l) /\ due[cur[l]] = out[cur[l]] \o RepliesTo(worker.text)
  BY <1>1, <1>2 DEF Own, Account, Owed
<1>5. CASE Found = {} /\ pc' = [pc EXCEPT ![l] = "parsed"]
  <2>1. pc'[l] = "parsed"
    BY <1>3, <1>5
  <2>2. Own(l)'
    BY <2>1 DEF Own
  <2>3. Outcome(context[l]) = RepliesTo(worker.text)
    BY <1>4, <1>5, NothingFound
  <2>4. Outcome(context[l])' = Outcome(context[l])
    BY <1>1 DEF Outcome, BadRequest, Answer
  <2>5. Owed(l)' = Outcome(context[l])
    BY <2>1, <2>4 DEF Owed
  <2> QED
    BY <1>1, <1>4, <2>2, <2>3, <2>5 DEF Account
<1>6. CASE ~(Found = {} /\ pc' = [pc EXCEPT ![l] = "parsed"])
  <2>1. /\ pc' = [pc EXCEPT ![l] = "use"]
        /\ crlf'[l] \in Found /\ \A j \in Found : crlf'[l] <= j
    BY <1>6, FindTakes, Zenon
  <2>2. pc'[l] = "use"
    BY <1>3, <2>1
  <2>3. worker.size = Len(worker.text)
    BY <1>4, <2>1, FoundEnds DEF Progress
  <2>4. FirstEnd(crlf'[l])
    BY <2>1, <2>3, FoundEnds DEF FirstEnd
  <2>5. FirstEnd(crlf[l])' /\ Progress(l)'
    BY <1>1, <1>4, <2>4 DEF FirstEnd, Progress
  <2>6. Own(l)'
    BY <2>2, <2>5 DEF Own
  <2>7. Account(l)'
    BY <1>1, <1>4, <2>2 DEF Account, Owed
  <2> QED
    BY <2>6, <2>7
<1> QED
  BY <1>5, <1>6

\* While FirstEnd holds the line that is used is there.
LEMMA EndIsUsable ==
  ASSUME TypeOK, NEW l \in Loops, FirstEnd(crlf[l])
  PROVE  /\ Usable(l)
         /\ Retrieved(crlf[l]).text = worker.text
         /\ \/ /\ Retrieved(crlf[l]).size = Len(worker.text)
               /\ Retrieved(crlf[l]).reader = crlf[l]
            \/ /\ Retrieved(crlf[l]).size = 0 /\ Retrieved(crlf[l]).reader = 0
               /\ crlf[l] = Len(worker.text)
<1>1. worker.text \in Seq(Token) /\ Ends(worker.text) \subseteq 1 .. Len(worker.text)
  BY Types DEF Ends
<1>2. crlf[l] <= Len(worker.text) /\ worker.size = Len(worker.text)
  BY <1>1 DEF FirstEnd
<1>3. Usable(l)
  BY <1>2 DEF FirstEnd, Usable
<1>4. worker = [text |-> worker.text, size |-> worker.size, reader |-> worker.reader]
  BY Types
<1>5. CASE crlf[l] < worker.size
  <2>1. Retrieved(crlf[l]) = [worker EXCEPT !.reader = crlf[l]]
    BY <1>5 DEF Retrieved
  <2> QED
    BY <1>2, <1>3, <1>4, <2>1
<1>6. CASE ~(crlf[l] < worker.size)
  <2>1. Retrieved(crlf[l]) = [worker EXCEPT !.size = 0, !.reader = 0]
    BY <1>6 DEF Retrieved
  <2>2. crlf[l] = Len(worker.text)
    BY <1>1, <1>2, <1>6, Types
  <2> QED
    BY <1>3, <1>4, <2>1, <2>2
<1> QED
  BY <1>5, <1>6

\* The first line makes the message a request or not.
LEMMA RequestLineParse ==
  ASSUME TypeOK, NEW l \in Loops, Own(l), Account(l), RequestLine(l)
  PROVE  Own(l)' /\ Account(l)'
<1> DEFINE msg == worker.text
<1>1. /\ UNCHANGED <<cur, out, due, connected>> /\ pc[l] = "use"
      /\ context[l].state = "ExpectRequestLine"
  BY DEF RequestLine, connVars
<1>2. disturbed \subseteq disturbed'
  BY DisturbFrame, Zenon DEF RequestLine
<1> SUFFICES ASSUME Alone(l)' PROVE Own(l)' /\ Account(l)'
  BY DEF Own, Account
<1>3. Alone(l)
  BY <1>1, <1>2 DEF Alone
<1>4. /\ pc \in [Loops -> {"idle", "size", "parsed", "shutdown"} \cup Parsing]
      /\ DOMAIN context = Loops
  BY DEF TypeOK
<1>5. /\ Progress(l) /\ FirstEnd(crlf[l])
      /\ due[cur[l]] = out[cur[l]] \o RepliesTo(msg)
  BY <1>1, <1>3 DEF Own, Account, Owed
<1>6. Usable(l) /\ msg \in Seq(Token) /\ crlf[l] \in Nat
  BY <1>5, EndIsUsable, Types
<1>7. worker.reader = 0 /\ worker.size = Len(msg)
  BY <1>1, <1>5 DEF Progress
<1>8. /\ crlf[l] \in Ends(msg) /\ \A i \in Ends(msg) : crlf[l] <= i
      /\ Ends(msg) \subseteq 1 .. Len(msg)
  <2>1. Ends(msg) \subseteq 1 .. Len(msg)
    BY Types DEF Ends
  <2> QED
    BY <1>5, <1>7, <2>1 DEF FirstEnd
<1>9. IsRequest(msg) <=> Len(Line(l)) = 1 /\ Line(l)[1].kind = "request"
  <2>1. Len(Line(l)) = crlf[l] - 1
    BY <1>6, <1>7, LineType
  <2>2. IsRequest(msg) <=> crlf[l] = 2 /\ msg[1].kind = "request"
    BY <1>6, <1>8, FirstLine
  <2>3. ASSUME crlf[l] = 2 PROVE Line(l)[1] = msg[1]
    <3>1. 1 \in 1 .. Len(Line(l)) /\ worker.reader + 1 = 1
      BY <1>7, <2>1, <2>3
    <3> QED
      BY <1>6, <3>1, LineType
  <2> QED
    BY <1>6, <2>1, <2>2, <2>3
<1>10. CASE IsRequest(msg)
  <2>1. /\ context' = [context EXCEPT ![l] =
             [state |-> "ExpectHeaders", ok |-> TRUE, path |-> Line(l)[1].from]]
        /\ worker' = Retrieved(crlf[l]) /\ pc' = [pc EXCEPT ![l] = "find"]
    BY <1>9, <1>10, Zenon DEF RequestLine
  <2>2. pc'[l] = "find"
    BY <1>4, <2>1
  <2>3. context'[l].state = "ExpectHeaders" /\ context'[l].path = Line(l)[1].from
    BY <1>4, <2>1
  <2>4. Line(l)[1] = msg[1]
    <3>1. Len(Line(l)) = 1
      BY <1>9, <1>10, Zenon
    <3>2. 1 \in 1 .. Len(Line(l)) /\ worker.reader + 1 = 1
      BY <1>7, <3>1
    <3> QED
      BY <1>6, <3>2, LineType
  <2>5. NoneComplete(msg, crlf[l])
    BY <1>6, <1>8, NoneAtFirst
  <2>6. Progress(l)'
    <3>1. worker'.text = msg
      BY <1>5, <2>1, EndIsUsable
    <3>2. \/ worker'.size = Len(msg) /\ worker'.reader = crlf[l]
          \/ worker'.size = 0 /\ worker'.reader = 0 /\ crlf[l] = Len(msg)
      BY <1>5, <2>1, EndIsUsable
    <3>3. \/ /\ worker'.size = Len(msg) /\ worker'.reader \in Ends(msg)
             /\ NoneComplete(msg, worker'.reader)
          \/ /\ worker'.size = 0 /\ worker'.reader = 0
             /\ NoneComplete(msg, Len(msg))
      BY <1>8, <2>5, <3>2
    <3> QED
      BY <1>10, <2>3, <2>4, <3>1, <3>3, Zenon DEF Progress
  <2>7. Own(l)'
    BY <2>2, <2>6 DEF Own
  <2>8. worker'.text = msg
    BY <1>5, <2>1, EndIsUsable
  <2>9. Account(l)'
    BY <1>1, <1>5, <2>2, <2>8 DEF Account, Owed
  <2> QED
    BY <2>7, <2>9
<1>11. CASE ~IsRequest(msg)
  <2>1. pc' = [pc EXCEPT ![l] = "parsed"] /\ context' = context
    BY <1>9, <1>11, Zenon DEF RequestLine
  <2>2. pc'[l] = "parsed"
    BY <1>4, <2>1
  <2>3. Owed(l)' = RepliesTo(msg)
    BY <1>1, <1>11, <2>1, <2>2, RepliesCases DEF Owed, Outcome
  <2>4. Account(l)'
    BY <1>1, <1>5, <2>3 DEF Account
  <2> QED
    BY <2>2, <2>4 DEF Own
<1> QED
  BY <1>10, <1>11

\* A line of headers completes the request or leaves it incomplete.
LEMMA HeaderLineParse ==
  ASSUME TypeOK, NEW l \in Loops, Own(l), Account(l), HeaderLine(l)
  PROVE  Own(l)' /\ Account(l)'
<1> DEFINE msg == worker.text
           end == crlf[l]
           n == worker.reader
<1>1. /\ UNCHANGED <<cur, out, due, connected>> /\ pc[l] = "use"
      /\ context[l].state = "ExpectHeaders" /\ worker' = Retrieved(end) /\ Disturb(l)
  BY DEF HeaderLine, connVars
<1>2. disturbed \subseteq disturbed'
  BY <1>1, DisturbFrame
<1> SUFFICES ASSUME Alone(l)' PROVE Own(l)' /\ Account(l)'
  BY DEF Own, Account
<1>3. Alone(l)
  BY <1>1, <1>2 DEF Alone
<1>4. /\ pc \in [Loops -> {"idle", "size", "parsed", "shutdown"} \cup Parsing]
      /\ context \in [Loops -> [state : {"ExpectRequestLine", "ExpectHeaders", "GotAll"},
                                ok : BOOLEAN, path : Conns]]
  BY DEF TypeOK
<1>5. /\ Progress(l) /\ FirstEnd(end)
      /\ due[cur[l]] = out[cur[l]] \o RepliesTo(msg)
  BY <1>1, <1>3 DEF Own, Account, Owed
<1>6. Usable(l) /\ msg \in Seq(Token) /\ end \in Nat /\ n \in Nat
  BY <1>5, EndIsUsable, Types
<1>7. /\ end \in Ends(msg) /\ n < end /\ \A i \in Ends(msg) : n < i => end <= i
      /\ Ends(msg) \subseteq 1 .. Len(msg) /\ worker.size = Len(msg)
  <2>1. Ends(msg) \subseteq 1 .. Len(msg)
    BY Types DEF Ends
  <2> QED
    BY <1>5, <2>1 DEF FirstEnd
<1>8. /\ IsRequest(msg) /\ context[l].path = msg[1].from
      /\ n \in Ends(msg) /\ NoneComplete(msg, n)
  <2>1. Len(msg) # 0
    BY <1>6, <1>7
  <2> QED
    BY <1>1, <1>5, <1>7, <2>1 DEF Progress
<1>9. NoColon(Line(l)) <=> \A k \in (n + 1) .. (end - 1) : msg[k].kind # "header"
  <2>1. DOMAIN Line(l) = 1 .. (end - 1 - n)
    BY <1>6, LineType
  <2>2. \A i \in 1 .. (end - 1 - n) : Line(l)[i] = msg[n + i]
    BY <1>6, LineType
  <2>3. ASSUME NoColon(Line(l)), NEW k \in (n + 1) .. (end - 1)
        PROVE  msg[k].kind # "header"
    <3>1. k - n \in 1 .. (end - 1 - n) /\ n + (k - n) = k
      BY <1>6
    <3>2. Line(l)[k - n].kind # "header" /\ Line(l)[k - n] = msg[n + (k - n)]
      BY <2>1, <2>2, <2>3, <3>1, Zenon DEF NoColon
    <3> QED
      BY <3>1, <3>2
  <2>4. ASSUME \A k \in (n + 1) .. (end - 1) : msg[k].kind # "header",
               NEW i \in DOMAIN Line(l)
        PROVE  Line(l)[i].kind # "header"
    <3>1. i \in 1 .. (end - 1 - n) /\ n + i \in (n + 1) .. (end - 1)
      BY <1>6, <2>1
    <3> QED
      BY <2>2, <2>4, <3>1, Zenon
  <2> QED
    BY <2>3, <2>4, Zenon DEF NoColon
<1>10. CASE NoColon(Line(l))
  <2>1. /\ context' = [context EXCEPT ![l].state = "GotAll"]
        /\ pc' = [pc EXCEPT ![l] = "parsed"]
    BY <1>10, Zenon DEF HeaderLine
  <2>2. pc'[l] = "parsed"
    BY <1>4, <2>1
  <2>3. context'[l].state = "GotAll" /\ context'[l].path = context[l].path
    BY <1>4, <2>1
  <2>4. IsComplete(msg)
    <3> HIDE DEF end, n
    <3> QED
      BY <1>6, <1>7, <1>8, <1>9, <1>10, LastLine
  <2>5. RepliesTo(msg) = <<Answer(msg[1].from)>>
    BY <1>8, <2>4, RepliesCases
  <2>6. Owed(l)' = <<Answer(context'[l].path)>>
    BY <2>2, <2>3 DEF Owed, Outcome, Answer
  <2>7. Account(l)'
    BY <1>1, <1>5, <1>8, <2>3, <2>5, <2>6 DEF Account
  <2> QED
    BY <2>2, <2>7 DEF Own
<1>11. CASE ~NoColon(Line(l))
  <2>1. context' = context /\ pc' = [pc EXCEPT ![l] = "find"]
    BY <1>11, Zenon DEF HeaderLine
  <2>2. pc'[l] = "find"
    BY <1>4, <2>1
  <2>3. NoneComplete(msg, end)
    <3>1. \E k \in (n + 1) .. (end - 1) : msg[k].kind = "header"
      BY <1>9, <1>11, Zenon
    <3> HIDE DEF end, n
    <3> QED
      BY <1>6, <1>7, <1>8, <3>1, HeaderStep
  <2>4. worker'.text = msg
    BY <1>1, <1>5, EndIsUsable
  <2>5. \/ worker'.size = Len(msg) /\ worker'.reader = end
        \/ worker'.size = 0 /\ worker'.reader = 0 /\ end = Len(msg)
    BY <1>1, <1>5, EndIsUsable
  <2>6. \/ /\ worker'.size = Len(msg) /\ worker'.reader \in Ends(msg)
           /\ NoneComplete(msg, worker'.reader)
        \/ /\ worker'.size = 0 /\ worker'.reader = 0
           /\ NoneComplete(msg, Len(msg))
    <3> HIDE DEF end
    <3> QED
      BY <1>7, <2>3, <2>5
  <2>7. Progress(l)'
    BY <1>1, <1>8, <2>1, <2>4, <2>6, Zenon DEF Progress
  <2>8. Own(l)'
    BY <2>2, <2>7 DEF Own
  <2>9. Account(l)'
    BY <1>1, <1>5, <2>2, <2>4 DEF Account, Owed
  <2> QED
    BY <2>8, <2>9
<1> QED
  BY <1>10, <1>11

\* Nothing is garbled for a loop that has worker_ to itself.
LEMMA GarbledIsDisturbed ==
  ASSUME TypeOK, NEW l \in Loops, Own(l), Garbled(l)
  PROVE  cur[l] \in disturbed
<1> SUFFICES ASSUME cur[l] \notin disturbed PROVE FALSE
  OBVIOUS
<1>1. Alone(l)
  BY DEF Alone, Garbled
<1>2. CASE pc[l] = "find" /\ ~InBounds
  <2>1. Progress(l)
    BY <1>1, <1>2 DEF Own
  <2>2. /\ worker.text \in Seq(Token) /\ worker.size \in Nat /\ worker.reader \in Nat
    BY Types
  <2>3. Ends(worker.text) \subseteq 1 .. Len(worker.text)
    BY Types DEF Ends
  <2>4. InBounds
    BY <2>1, <2>2, <2>3 DEF Progress, InBounds
  <2> QED
    BY <1>2, <2>4
<1>3. CASE pc[l] = "use" /\ ~Usable(l)
  BY <1>1, <1>3, EndIsUsable DEF Own
<1> QED
  BY <1>2, <1>3 DEF Garbled

----------------------------------------------------------------------------
(* Replies *)

\* The loop's variables in an action of onMessage.
LEMMA MessageParse ==
  ASSUME TypeOK, LoopInv, OwedInv, RepliesAreExact, exited = "no", NEW l \in Loops,
         Own(l), Account(l), LoopStep(l),
         ~(SetSize(l) \/ Assign(l) \/ Find(l) \/ RequestLine(l) \/ HeaderLine(l))
  PROVE  /\ Own(l)'
         /\ exited' = "no" => Account(l)'
<1>1. /\ pc \in [Loops -> {"idle", "size", "parsed", "shutdown"} \cup Parsing]
      /\ cur \in [Loops -> Conns] /\ str \in [Loops -> Seq(Token)]
      /\ DOMAIN context = Loops /\ connected \in [Conns -> BOOLEAN]
      /\ out \in [Conns -> Seq(Reply)] /\ due \in [Conns -> Seq(Reply)]
  BY DEF TypeOK
<1>2. disturbed \subseteq disturbed'
  BY StepFrame DEF LoopFrame
<1>3. ASSUME NEW c \in Conns, Read(l, c) PROVE Own(l)' /\ Account(l)'
  <2>1. pc[l] = "idle" /\ LoopOf[c] = l /\ connected[c] /\ UNCHANGED <<out, disturbed>>
    BY <1>3 DEF Read
  <2>2. CASE fin[c] \/ reset[c]
    <3>1. pc' = pc
      BY <1>3, <2>2, Zenon DEF Read
    <3> QED
      BY <2>1, <3>1 DEF Own, Account, Alone
  <2>3. CASE ~(fin[c] \/ reset[c])
    <3>1. /\ pc' = [pc EXCEPT ![l] = "size"] /\ cur' = [cur EXCEPT ![l] = c]
          /\ str' = [str EXCEPT ![l] = inbox[c]]
          /\ context' = [context EXCEPT ![l] = NewContext]
          /\ due' = [due EXCEPT ![c] = @ \o RepliesTo(inbox[c])]
      BY <1>3, <2>3, Zenon DEF Read
    <3>2. /\ pc'[l] = "size" /\ cur'[l] = c /\ str'[l] = inbox[c]
          /\ context'[l] = NewContext /\ due'[c] = due[c] \o RepliesTo(inbox[c])
      BY <1>1, <3>1
    <3>3. Own(l)'
      BY <3>2 DEF Own, NewContext
    <3>4. ASSUME Alone(l)' PROVE Account(l)'
      <4>1. c \notin disturbed
        BY <2>1, <3>2, <3>4 DEF Alone
      <4>2. ~InOnMessage(c)
        BY <2>1 DEF InOnMessage, LoopInv
      <4>3. out[c] = due[c]
        BY <2>1, <4>1, <4>2 DEF RepliesAreExact
      <4> QED
        BY <2>1, <3>2, <4>3 DEF Account, Owed
    <3>5. Account(l)'
      BY <3>4 DEF Account
    <3> QED
      BY <3>3, <3>5
  <2> QED
    BY <2>2, <2>3
<1>4. CASE Forget(l)
  <2>1. pc'[l] = "idle"
    BY <1>1, <1>4 DEF Forget, Return
  <2> QED
    BY <2>1 DEF Own, Account, Alone
<1>5. ASSUME NEW reply \in Reply, Send(l, reply), pc[l] = "parsed",
             Outcome(context[l]) = <<reply>>,
             UNCHANGED <<clientVars, inbox, wrShut, worker, loopVars, due, disturbed>>
      PROVE  Own(l)' /\ (exited' = "no" => Account(l)')
  <2>1. UNCHANGED <<cur, disturbed, due>> /\ cur[l] \in Conns
    BY <1>1, <1>5 DEF loopVars
  <2>2. CASE exited' = "SIGPIPE" /\ pc' = pc
    BY <1>5, <2>2 DEF Own
  <2>3. CASE ~(exited' = "SIGPIPE" /\ pc' = pc)
    <3>1. /\ pc' = [pc EXCEPT ![l] = "shutdown"]
          /\ \/ connected' = [connected EXCEPT ![cur[l]] = FALSE]
             \/ out' = [out EXCEPT ![cur[l]] = Append(@, reply)] /\ connected' = connected
      BY <1>5, <2>3, Zenon DEF Send
    <3>2. pc'[l] = "shutdown"
      BY <1>1, <3>1
    <3>3. Own(l)'
      BY <3>2 DEF Own
    <3>4. ASSUME Alone(l)', connected'[cur'[l]] PROVE Account(l)'
      <4>1. Alone(l)
        BY <1>5, <2>1, <3>4 DEF Alone
      <4>2. due[cur[l]] = out[cur[l]] \o <<reply>>
        BY <1>5, <4>1 DEF Account, Owed
      <4>3. out'[cur[l]] = Append(out[cur[l]], reply)
        BY <1>1, <2>1, <3>1, <3>4
      <4>4. out[cur[l]] \in Seq(Reply)
        BY <1>1, <2>1
      <4>5. out[cur[l]] \o <<reply>> = Append(out[cur[l]], reply)
        <5> HIDE DEF Reply
        <5> QED
          BY <4>4
      <4>6. out'[cur[l]] \o <<>> = out'[cur[l]]
        <5>1. out'[cur[l]] \in Seq(Reply)
          <6> HIDE DEF Reply
          <6> QED
            BY <4>3, <4>4
        <5> HIDE DEF Reply
        <5> QED
          BY <5>1
      <4> QED
        BY <2>1, <3>2, <4>2, <4>3, <4>5, <4>6 DEF Account, Owed
    <3>5. Account(l)'
      BY <3>2, <3>4 DEF Account
    <3> QED
      BY <3>3, <3>5
  <2> QED
    BY <2>2, <2>3
<1>6. CASE SendBadRequest(l)
  <2>1. context[l].state = "ExpectRequestLine"
    BY <1>6 DEF SendBadRequest, TypeOK
  <2> QED
    BY <1>5, <1>6, <2>1 DEF SendBadRequest, BadRequest, Reply, Outcome
<1>7. CASE SendAnswer(l)
  <2>1. context[l].path \in Conns
    BY DEF TypeOK
  <2>2. Answer(context[l].path) \in Reply
    BY <2>1 DEF Answer, Reply
  <2> QED
    BY <1>5, <1>7, <2>2 DEF SendAnswer, Outcome
<1>8. CASE Shutdown(l)
  <2>1. pc'[l] = "idle" \/ (pc'[l] = "shutdown" /\ exited' # "no")
    BY <1>1, <1>8, Zenon DEF Shutdown, Return
  <2> QED
    BY <2>1 DEF Own, Account, Alone
<1>9. CASE Garbled(l)
  <2>1. cur[l] \in disturbed /\ cur' = cur
    BY <1>9, GarbledIsDisturbed DEF Garbled
  <2> QED
    BY <1>2, <2>1 DEF Own, Account, Alone
<1> QED
  BY <1>3, <1>4, <1>6, <1>7, <1>8, <1>9 DEF LoopStep

\* A loop takes up its own connections only.
LEMMA StepLoop ==
  ASSUME LoopInv, NEW l \in Loops, LoopFrame(l)
  PROVE  LoopInv'
<1>1. pc'[l] # "idle" => LoopOf[cur'[l]] = l
  BY DEF LoopFrame, LoopInv
<1>2. \A k \in Loops \ {l} : pc'[k] # "idle" => LoopOf[cur'[k]] = k
  BY DEF LoopFrame, LoopInv
<1> QED
  BY <1>1, <1>2 DEF LoopInv

\* So what it sends concerns no other loop's connection.
LEMMA OtherConn ==
  ASSUME TypeOK, LoopInv, NEW l \in Loops, LoopFrame(l),
         NEW k \in Loops \ {l}, pc[k] # "idle"
  PROVE  /\ cur[k] \in Conns
         /\ out'[cur[k]] = out[cur[k]] /\ due'[cur[k]] = due[cur[k]]
         /\ wrShut'[cur[k]] = wrShut[cur[k]]
<1>1. cur[k] \in Conns /\ LoopOf[cur[k]] = k
  BY Types DEF LoopInv
<1>2. CASE LoopOf[cur'[l]] = l
  BY <1>1, <1>2 DEF LoopFrame
<1>3. CASE LoopOf[cur'[l]] # l
  <2>1. pc[l] = "idle"
    BY <1>3 DEF LoopFrame, LoopInv
  <2> QED
    BY <1>1, <1>3, <2>1 DEF LoopFrame
<1> QED
  BY <1>2, <1>3

\* Every loop's variables, in a step of one of them.
LEMMA StepParse ==
  ASSUME TypeOK, LoopInv, ParseInv, OwedInv, RepliesAreExact, exited = "no",
         NEW l \in Loops, LoopStep(l)
  PROVE  ParseInv' /\ OwedInv'
<1>1. LoopFrame(l)
  BY StepFrame
<1>2. Own(l) /\ Account(l)
  BY DEF ParseInv, OwedInv
<1>3. Own(l)' /\ (exited' = "no" => Account(l)')
  BY <1>2, SetStrParse, FindParse, RequestLineParse, HeaderLineParse, MessageParse
<1>4. ASSUME NEW k \in Loops \ {l} PROVE Own(k)' /\ Account(k)'
  <2>1. /\ pc'[k] = pc[k] /\ cur'[k] = cur[k] /\ context'[k] = context[k] /\ str'[k] = str[k]
        /\ pc[k] \in Parsing /\ cur[k] \notin disturbed'
             => worker' = worker /\ crlf'[k] = crlf[k]
        /\ disturbed \subseteq disturbed'
        /\ \A c \in Conns : connected'[c] => connected[c]
    BY <1>1 DEF LoopFrame
  <2>2. Own(k) /\ Account(k)
    BY DEF ParseInv, OwedInv
  <2>3. CASE Alone(k)'
    <3>1. Alone(k)
      BY <2>1, <2>3 DEF Alone
    <3>2. pc[k] \in {"assign", "find", "use"} => worker' = worker /\ crlf'[k] = crlf[k]
      BY <2>1, <2>3 DEF Alone, Parsing
    <3>3. Own(k)'
      BY <2>1, <2>2, <3>1, <3>2 DEF Own, Progress, FirstEnd, NewContext
    <3>4. /\ cur[k] \in Conns
          /\ out'[cur[k]] = out[cur[k]] /\ due'[cur[k]] = due[cur[k]]
      BY <1>1, <3>1, OtherConn DEF Alone
    <3>5. Owed(k)' = Owed(k)
      BY <2>1, <3>2 DEF Owed, Outcome, BadRequest, Answer
    <3>6. Account(k)'
      BY <2>1, <2>2, <3>1, <3>4, <3>5 DEF Account
    <3> QED
      BY <3>3, <3>6
  <2>4. CASE ~Alone(k)'
    BY <2>4 DEF Own, Account
  <2> QED
    BY <2>3, <2>4
<1> QED
  BY <1>3, <1>4 DEF ParseInv, OwedInv

\* A connection nobody serves has got its replies: a loop that has just left
\* onMessage owed it nothing.
LEMMA StepExact ==
  ASSUME TypeOK, LoopInv, ParseInv, OwedInv, RepliesAreExact, exited = "no",
         NEW l \in Loops, LoopStep(l)
  PROVE  RepliesAreExact'
<1>1. LoopFrame(l)
  BY StepFrame
<1> SUFFICES ASSUME NEW c \in Conns, exited' = "no", connected'[c], ~InOnMessage(c)',
                    c \notin disturbed'
             PROVE  out'[c] = due'[c]
  BY DEF RepliesAreExact
<1>2. connected[c] /\ c \notin disturbed
  BY <1>1 DEF LoopFrame
<1>3. \A k \in Loops : cur'[k] = c => pc'[k] = "idle"
  BY DEF InOnMessage
<1>4. \A k \in Loops \ {l} : cur[k] = c => pc[k] = "idle"
  BY <1>1, <1>3 DEF LoopFrame
<1>5. CASE pc[l] # "idle" /\ cur[l] = c
  <2>1. cur'[l] = c /\ pc'[l] = "idle"
    BY <1>1, <1>3, <1>5 DEF LoopFrame
  <2>2. pc \in [Loops -> {"idle", "size", "parsed", "shutdown"} \cup Parsing]
    BY DEF TypeOK
  <2> out[c] \o <<>> = out[c]
    <3>1. out[c] \in Seq(Reply)
      BY Types
    <3> HIDE DEF Reply
    <3> QED
      BY <3>1
  <2>3. CASE Forget(l)
    <3>1. Alone(l) /\ pc[l] = "parsed" /\ UNCHANGED <<out, due>>
          /\ context[l].state = "ExpectHeaders"
      BY <1>2, <1>5, <2>3 DEF Alone, Forget, connVars
    <3>2. Owed(l) = <<>>
      BY <3>1 DEF Owed, Outcome
    <3> QED
      BY <1>5, <3>1, <3>2 DEF OwedInv, Account
  <2>4. CASE Shutdown(l)
    <3>1. Alone(l) /\ pc[l] = "shutdown" /\ UNCHANGED <<out, due>>
      BY <1>2, <1>5, <2>4 DEF Alone, Shutdown
    <3>2. Owed(l) = <<>>
      BY <3>1 DEF Owed
    <3> QED
      BY <1>2, <1>5, <3>1, <3>2 DEF OwedInv, Account
  <2>5. CASE ~Forget(l) /\ ~Shutdown(l)
    <3>1. ~\E d \in Conns : Read(l, d)
      BY <1>5 DEF Read
    <3>2. pc'[l] = "idle" => FALSE
      <4>1. CASE SetSize(l) \/ Assign(l)
        BY <2>2, <4>1 DEF SetSize, Assign
      <4>2. CASE Find(l) \/ RequestLine(l) \/ HeaderLine(l) \/ Garbled(l)
        <5>1. pc[l] # "idle"
          BY <1>5
        <5>2. \/ pc' = pc \/ pc' = [pc EXCEPT ![l] = "parsed"]
              \/ pc' = [pc EXCEPT ![l] = "use"] \/ pc' = [pc EXCEPT ![l] = "find"]
          BY <4>2, Zenon DEF Find, RequestLine, HeaderLine, Garbled
        <5> QED
          BY <2>2, <5>1, <5>2
      <4>3. CASE SendBadRequest(l) \/ SendAnswer(l)
        <5>1. pc' = pc \/ pc' = [pc EXCEPT ![l] = "shutdown"]
          BY <4>3, Zenon DEF SendBadRequest, SendAnswer, Send
        <5> QED
          BY <1>5, <2>2, <5>1
      <4> QED
        BY <2>5, <3>1, <4>1, <4>2, <4>3 DEF LoopStep
    <3> QED
      BY <2>1, <3>2
  <2> QED
    BY <2>3, <2>4, <2>5
<1>6. CASE ~(pc[l] # "idle" /\ cur[l] = c)
  <2>1. ~InOnMessage(c)
    BY <1>4, <1>6 DEF InOnMessage
  <2>2. out[c] = due[c]
    BY <1>2, <2>1 DEF RepliesAreExact
  <2>3. out'[c] = out[c] /\ due'[c] = due[c]
    <3>1. CASE cur'[l] # c
      BY <1>1, <3>1 DEF LoopFrame
    <3>2. CASE cur'[l] = c
      <4>1. pc'[l] = "idle"
        BY <1>3, <3>2
      <4>2. pc[l] = "idle"
        BY <1>1, <1>6, <3>2 DEF LoopFrame
      <4>3. UNCHANGED due
        <5>1. \E d \in Conns : Read(l, d)
          BY <4>2 DEF LoopStep, SetSize, Assign, Find, RequestLine, HeaderLine,
             Garbled, Forget, SendBadRequest, SendAnswer, Shutdown
        <5>2. PICK d \in Conns : Read(l, d)
          BY <5>1
        <5>3. pc' = [pc EXCEPT ![l] = "size"] \/ due' = due
          BY <5>2, Zenon DEF Read
        <5> QED
          BY <4>1, <5>3 DEF TypeOK
      <4> QED
        BY <1>1, <4>2, <4>3 DEF LoopFrame
    <3> QED
      BY <3>1, <3>2
  <2> QED
    BY <2>2, <2>3
<1> QED
  BY <1>5, <1>6

\* A loop's actions other than a reply and a shutdown leave both alone.
LEMMA OtherSteps ==
  ASSUME TypeOK, NEW l \in Loops, LoopStep(l),
         ~SendBadRequest(l), ~SendAnswer(l), ~Shutdown(l)
  PROVE  /\ UNCHANGED <<out, wrShut, reset>>
         /\ pc[l] # "shutdown" /\ pc'[l] # "shutdown"
<1>1. UNCHANGED <<out, wrShut, reset>> /\ pc[l] # "shutdown"
  BY DEF LoopStep, Read, SetSize, Assign, Find, RequestLine, HeaderLine, Garbled, Forget,
     clientVars, connVars
<1>2. pc \in [Loops -> {"idle", "size", "parsed", "shutdown"} \cup Parsing]
  BY DEF TypeOK
<1>3. \/ pc' = pc
      \/ \E x \in {"size", "assign", "find", "use", "parsed", "idle"} :
           pc' = [pc EXCEPT ![l] = x]
  BY Zenon DEF LoopStep, Read, SetSize, Assign, Find, RequestLine, HeaderLine, Garbled,
     Forget, Return
<1> QED
  BY <1>1, <1>2, <1>3

\* A loop about to reply serves a connection that has no reply yet, or that is
\* shut down already.
LEMMA NoReplyYet ==
  ASSUME LoopInv, ReplyInv, NEW l \in Loops, pc[l] = "parsed", cur[l] \in Conns,
         ~wrShut[cur[l]]
  PROVE  out[cur[l]] = <<>>
<1> SUFFICES ASSUME out[cur[l]] # <<>> PROVE FALSE
  OBVIOUS
<1>1. PICK k \in Loops : cur[k] = cur[l] /\ pc[k] = "shutdown"
  BY DEF ReplyInv
<1>2. LoopOf[cur[k]] = k /\ LoopOf[cur[l]] = l
  BY <1>1 DEF LoopInv
<1> QED
  BY <1>1, <1>2

\* A reply is the first on its connection, and the shutdown follows.
LEMMA StepReply ==
  ASSUME TypeOK, LoopInv, ReplyInv, ShutdownInv, NEW l \in Loops, LoopStep(l)
  PROVE  ReplyInv' /\ ShutdownInv'
<1>1. LoopFrame(l)
  BY StepFrame
<1>2. /\ pc \in [Loops -> {"idle", "size", "parsed", "shutdown"} \cup Parsing]
      /\ cur \in [Loops -> Conns] /\ wrShut \in [Conns -> BOOLEAN]
      /\ out \in [Conns -> Seq(Reply)]
  BY DEF TypeOK
<1>3. \A k \in Loops \ {l} : pc'[k] = pc[k] /\ cur'[k] = cur[k]
  BY <1>1 DEF LoopFrame
<1>4. \A k \in Loops \ {l} : pc[k] = "shutdown"
        => out'[cur[k]] = out[cur[k]] /\ reset'[cur[k]] = reset[cur[k]]
  BY <1>1, OtherConn DEF LoopFrame
<1>5. ASSUME pc'[l] = "shutdown" => out'[cur'[l]] # <<>> \/ reset'[cur'[l]]
      PROVE  ShutdownInv'
  BY <1>3, <1>4, <1>5 DEF ShutdownInv
<1>6. CASE ~SendBadRequest(l) /\ ~SendAnswer(l) /\ ~Shutdown(l)
  <2>1. /\ UNCHANGED <<out, wrShut, reset>>
        /\ pc[l] # "shutdown" /\ pc'[l] # "shutdown"
    BY <1>6, OtherSteps
  <2>2. \A k \in Loops : pc[k] = "shutdown" => pc'[k] = "shutdown" /\ cur'[k] = cur[k]
    BY <1>3, <2>1
  <2>3. ReplyInv'
    BY <2>1, <2>2 DEF ReplyInv
  <2> QED
    BY <1>5, <2>1, <2>3
<1>7. ASSUME NEW reply \in Reply, Send(l, reply), pc[l] = "parsed",
             UNCHANGED <<clientVars, inbox, wrShut, worker, loopVars, due, disturbed>>
      PROVE  ReplyInv' /\ ShutdownInv'
  <2>1. cur' = cur /\ wrShut' = wrShut /\ reset' = reset /\ cur[l] \in Conns
    BY <1>2, <1>7 DEF loopVars, clientVars
  <2>2. \A k \in Loops : pc[k] = "shutdown" => pc'[k] = "shutdown" /\ cur'[k] = cur[k]
    BY <1>3, <1>7
  <2>3. CASE reset[cur[l]] \/ wrShut[cur[l]]
    <3>1. out' = out /\ (pc' = pc \/ reset[cur[l]])
      BY <1>7, <2>3, Zenon DEF Send
    <3>2. ReplyInv'
      BY <2>1, <2>2, <3>1 DEF ReplyInv
    <3>3. pc'[l] = "shutdown" => reset'[cur'[l]]
      BY <1>7, <2>1, <3>1
    <3> QED
      BY <1>5, <3>2, <3>3
  <2>4. CASE ~(reset[cur[l]] \/ wrShut[cur[l]])
    <3>1. /\ out' = [out EXCEPT ![cur[l]] = Append(@, reply)]
          /\ pc' = [pc EXCEPT ![l] = "shutdown"]
      BY <1>7, <2>4, Zenon DEF Send
    <3>2. out[cur[l]] = <<>>
      BY <1>7, <2>1, <2>4, NoReplyYet
    <3>3. out'[cur[l]] = <<reply>> /\ \A c \in Conns : c # cur[l] => out'[c] = out[c]
      <4> HIDE DEF Reply
      <4> QED
        BY <1>2, <2>1, <3>1, <3>2
    <3>4. pc'[l] = "shutdown"
      BY <1>2, <3>1
    <3>5. Len(out'[cur[l]]) <= 1 /\ out'[cur[l]] # <<>>
      BY <3>3
    <3>6. ReplyInv'
      <4> SUFFICES ASSUME NEW c \in Conns
                   PROVE  /\ Len(out'[c]) <= 1
                          /\ wrShut'[c] => out'[c] # <<>>
                          /\ out'[c] # <<>> /\ ~wrShut'[c]
                               => \E k \in Loops : cur'[k] = c /\ pc'[k] = "shutdown"
        BY DEF ReplyInv
      <4>1. CASE c = cur[l]
        <5>1. cur'[l] = c /\ pc'[l] = "shutdown"
          BY <2>1, <3>4, <4>1
        <5>2. Len(out'[c]) <= 1 /\ out'[c] # <<>>
          BY <3>5, <4>1, Zenon
        <5> QED
          BY <5>1, <5>2, Zenon
      <4>2. CASE c # cur[l]
        BY <2>1, <2>2, <3>3, <4>2 DEF ReplyInv
      <4> QED
        BY <4>1, <4>2
    <3> QED
      BY <1>5, <2>1, <3>5, <3>6
  <2> QED
    BY <2>3, <2>4
<1>8. CASE SendBadRequest(l)
  BY <1>7, <1>8 DEF SendBadRequest, BadRequest, Reply
<1>9. CASE SendAnswer(l)
  <2>1. context[l].path \in Conns
    BY DEF TypeOK
  <2>2. Answer(context[l].path) \in Reply
    BY <2>1 DEF Answer, Reply
  <2> QED
    BY <1>7, <1>9, <2>2 DEF SendAnswer
<1>10. CASE Shutdown(l)
  <2>1. UNCHANGED <<out, cur, reset>> /\ pc[l] = "shutdown" /\ cur[l] \in Conns
    BY <1>2, <1>10 DEF Shutdown, clientVars
  <2>2. CASE reset[cur[l]]
    <3>1. UNCHANGED <<pc, wrShut>>
      BY <1>10, <2>2 DEF Shutdown, Closes
    <3> QED
      BY <2>1, <3>1 DEF ReplyInv, ShutdownInv
  <2>3. CASE ~reset[cur[l]]
    <3>1. /\ wrShut' = [wrShut EXCEPT ![cur[l]] = TRUE]
          /\ pc' = [pc EXCEPT ![l] = "idle"]
      BY <1>10, <2>3 DEF Shutdown, Closes, Return
    <3>2. out[cur[l]] # <<>>
      BY <2>1, <2>3 DEF ShutdownInv
    <3>3. /\ wrShut'[cur[l]] /\ pc'[l] = "idle"
          /\ \A c \in Conns : c # cur[l] => wrShut'[c] = wrShut[c]
      BY <1>2, <2>1, <3>1
    <3>4. ReplyInv'
      <4> SUFFICES ASSUME NEW c \in Conns
                   PROVE  /\ Len(out'[c]) <= 1
                          /\ wrShut'[c] => out'[c] # <<>>
                          /\ out'[c] # <<>> /\ ~wrShut'[c]
                               => \E k \in Loops : cur'[k] = c /\ pc'[k] = "shutdown"
        BY DEF ReplyInv
      <4>1. CASE c = cur[l]
        BY <2>1, <3>2, <3>3, <4>1 DEF ReplyInv
      <4>2. CASE c # cur[l]
        BY <1>3, <2>1, <3>3, <4>2 DEF ReplyInv
      <4> QED
        BY <4>1, <4>2
    <3> QED
      BY <1>5, <3>3, <3>4
  <2> QED
    BY <2>2, <2>3
<1> QED
  BY <1>6, <1>8, <1>9, <1>10

\* Why the process ends.
LEMMA StepExit ==
  ASSUME TypeOK, ParseInv, exited = "no", NEW l \in Loops, LoopStep(l)
  PROVE  ExitIsExplained'
<1>1. cur[l] \in Conns /\ disturbed \subseteq disturbed'
  BY StepFrame, Types DEF LoopFrame
<1>2. CASE Garbled(l)
  <2>1. cur[l] \in disturbed
    BY <1>2, GarbledIsDisturbed DEF ParseInv
  <2>2. exited' = "crash" \/ exited' = "no"
    BY <1>2, Zenon DEF Garbled
  <2> QED
    BY <1>1, <2>1, <2>2 DEF ExitIsExplained
<1>3. ASSUME NEW reply, Send(l, reply), pc[l] = "parsed",
             UNCHANGED <<clientVars, inbox, wrShut, worker, loopVars, due, disturbed>>
      PROVE  ExitIsExplained'
  <2>1. UNCHANGED <<cur, wrShut, reset>>
    BY <1>3 DEF loopVars, clientVars
  <2>2. \/ exited' = "no"
        \/ exited' = "SIGPIPE" /\ pc' = pc /\ (wrShut[cur[l]] \/ reset[cur[l]])
    BY <1>3, Zenon DEF Send
  <2>3. CASE exited' = "no"
    BY <2>3 DEF ExitIsExplained
  <2>4. CASE exited' # "no"
    <3>1. InOnMessage(cur[l])'
      BY <1>3, <2>1, <2>2, <2>4 DEF InOnMessage
    <3> QED
      BY <1>1, <2>1, <2>2, <2>4, <3>1 DEF ExitIsExplained
  <2> QED
    BY <2>3, <2>4
<1>4. CASE SendBadRequest(l) \/ SendAnswer(l)
  BY <1>3, <1>4 DEF SendBadRequest, SendAnswer
<1>5. CASE Shutdown(l)
  <2>1. UNCHANGED <<cur, reset>> /\ pc[l] = "shutdown"
    BY <1>5 DEF Shutdown, clientVars
  <2>2. \/ exited' = "no"
        \/ exited' = "shutdown" /\ pc' = pc /\ reset[cur[l]]
    BY <1>5, Zenon DEF Shutdown
  <2>3. CASE exited' = "no"
    BY <2>3 DEF ExitIsExplained
  <2>4. CASE exited' # "no"
    <3>1. InOnMessage(cur[l])'
      BY <2>1, <2>2, <2>4 DEF InOnMessage
    <3> QED
      BY <1>1, <2>1, <2>2, <2>4, <3>1 DEF ExitIsExplained
  <2> QED
    BY <2>3, <2>4
<1>6. CASE ~Garbled(l) /\ ~SendBadRequest(l) /\ ~SendAnswer(l) /\ ~Shutdown(l)
  <2>1. exited' = "no"
    BY <1>6 DEF LoopStep, Read, SetSize, Assign, Find, RequestLine, HeaderLine, Forget
  <2> QED
    BY <2>1 DEF ExitIsExplained
<1> QED
  BY <1>2, <1>4, <1>5, <1>6

----------------------------------------------------------------------------
(* The theorems *)

\* The inductive invariant.
IInv ==
  /\ TypeOK /\ LoopInv /\ ParseInv /\ OwedInv /\ RepliesAreExact
  /\ ReplyInv /\ ShutdownInv /\ ExitIsExplained

\* No loop has begun.
LEMMA InitInv == Init => IInv
<1> SUFFICES ASSUME Init PROVE IInv
  OBVIOUS
<1>1. \A l \in Loops : pc[l] = "idle"
  BY DEF Init
<1>2. LoopInv /\ ParseInv /\ OwedInv /\ ShutdownInv
  BY <1>1 DEF LoopInv, ParseInv, Own, OwedInv, Account, Alone, ShutdownInv
<1>3. RepliesAreExact /\ ReplyInv
  BY DEF Init, RepliesAreExact, ReplyInv
<1>4. ExitIsExplained
  BY DEF Init, ExitIsExplained
<1> QED
  BY <1>2, <1>3, <1>4, InitType DEF IInv

\* Every step keeps the invariant.
LEMMA NextInv == IInv /\ [Next]_vars => IInv'
<1> SUFFICES ASSUME IInv, [Next]_vars PROVE IInv'
  OBVIOUS
<1>1. TypeOK'
  BY NextType DEF IInv
<1>2. ASSUME UNCHANGED <<connected, wrShut, out, worker, pc, cur, str, context, crlf,
                         exited, due, disturbed>>,
             \A c \in Conns : reset[c] => reset'[c],
             exited = "no" \/ reset' = reset
      PROVE  IInv'
  <2>1. LoopInv' /\ ReplyInv'
    BY <1>2 DEF IInv, LoopInv, ReplyInv
  <2>2. ParseInv'
    BY <1>2 DEF IInv, ParseInv, Own, Alone, Progress, FirstEnd, NewContext
  <2>3. OwedInv'
    BY <1>2 DEF IInv, OwedInv, Account, Alone, Owed, Outcome, BadRequest, Answer
  <2>4. RepliesAreExact'
    BY <1>2 DEF IInv, RepliesAreExact, InOnMessage
  <2>5. ShutdownInv'
    BY <1>2, Types DEF IInv, ShutdownInv
  <2>6. ExitIsExplained'
    BY <1>2 DEF IInv, ExitIsExplained, InOnMessage
  <2> QED
    BY <1>1, <2>1, <2>2, <2>3, <2>4, <2>5, <2>6, Zenon DEF IInv
<1>3. CASE UNCHANGED vars
  BY <1>2, <1>3 DEF vars, clientVars, connVars, loopVars
<1>4. ASSUME exited = "no", NEW c \in Conns, ClientStep(c) PROVE IInv'
  BY <1>2, <1>4, ClientFrame DEF IInv
<1>5. ASSUME exited = "no", NEW l \in Loops, LoopStep(l) PROVE IInv'
  <2>1. LoopInv'
    BY <1>5, StepFrame, StepLoop DEF IInv
  <2>2. ParseInv' /\ OwedInv'
    BY <1>5, StepParse DEF IInv
  <2>3. RepliesAreExact'
    BY <1>5, StepExact DEF IInv
  <2>4. ReplyInv' /\ ShutdownInv'
    BY <1>5, StepReply DEF IInv
  <2>5. ExitIsExplained'
    BY <1>5, StepExit DEF IInv
  <2> QED
    BY <1>1, <2>1, <2>2, <2>3, <2>4, <2>5, Zenon DEF IInv
<1> QED
  BY <1>3, <1>4, <1>5 DEF Next

\* The invariant holds in every reachable state.
THEOREM Invariant == Spec => []IInv
  BY InitInv, NextInv, PTL DEF Spec

\* A connection whose messages no other loop disturbed has got just the replies
\* its messages call for, whatever the clients send and however it is cut up.
THEOREM RepliesAreRight == Spec => []RepliesAreExact
<1>1. IInv => RepliesAreExact
  BY DEF IInv
<1> QED
  BY <1>1, Invariant, PTL

\* A connection never gets a second reply, and between two messages it is shut
\* down if and only if it has had one.
THEOREM ReplyThenFin == Spec => []OneReplyThenFin
<1>1. IInv => OneReplyThenFin
  <2> SUFFICES ASSUME IInv, NEW c \in Conns
               PROVE  /\ Len(out[c]) <= 1
                      /\ ~InOnMessage(c) => (wrShut[c] <=> out[c] # <<>>)
    BY DEF OneReplyThenFin
  <2>1. wrShut[c] \in BOOLEAN
    BY Types DEF IInv
  <2>2. /\ Len(out[c]) <= 1 /\ (wrShut[c] => out[c] # <<>>)
        /\ out[c] # <<>> /\ ~wrShut[c] => InOnMessage(c)
    BY DEF IInv, ReplyInv, InOnMessage
  <2> QED
    BY <2>1, <2>2
<1> QED
  BY <1>1, Invariant, PTL

\* The process ends only for a reply to a connection that is shut down or reset,
\* the shutdown of one that is reset, or the parse of a disturbed message.
THEOREM ExitsAreExplained == Spec => []ExitIsExplained
<1>1. IInv => ExitIsExplained
  BY DEF IInv
<1> QED
  BY <1>1, Invariant, PTL

=============================================================================
