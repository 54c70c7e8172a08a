----------------------------- MODULE HttpServer -----------------------------
(***************************************************************************)
(* HttpServer on the reactor: every loop calls onMessage for its own       *)
(* connections, and all of them parse in the server's one worker_.  A text *)
(* is a sequence of tokens, the end of a line being one of them.           *)
(*                                                                         *)
(* Reading, which Reactor has in detail, is one step.  What a step does to *)
(* worker_ is what other loops may see in between.                         *)
(***************************************************************************)
EXTENDS Integers, Sequences

CONSTANTS
  Conns,     \* connections, each of which asks for a resource of its own
  Loops,     \* sub reactors
  LoopOf,    \* the loop that serves a connection
  Scripts,   \* what a client may send: segments, each of kinds of tokens
  Known,     \* the connections whose resource exists
  Leavers    \* bound: the clients that may shut down or reset

Kinds == {"request",   \* a well-formed request line
          "header",    \* text with a colon
          "text",      \* other text
          "crlf"}      \* the end of a line

ASSUME HttpAssumption ==
  /\ Conns # {}
  /\ LoopOf \in [Conns -> Loops]
  /\ Scripts \subseteq Seq(Seq(Kinds))
  /\ Known \subseteq Conns
  /\ Leavers \subseteq Conns

VARIABLES
  script, sent,    \* what each client sends, and how many segments are sent
  fin, reset,      \* whether it has shut down, or reset the connection
  inbox,           \* the tokens no read() has fetched
  connected,       \* state_ == Connected
  wrShut,          \* whether shutdownWrite() was called
  out,             \* the replies sent
  worker,          \* worker_: context_, size_, readerIndex_
  pc, cur,         \* where a loop is in onMessage, and for which connection
  str,             \* onMessage's copy of the message
  context,         \* its HttpContext, and parseRequest's ok
  crlf,            \* parseRequest's crlf, as an index, 0 if it is no position
  exited,          \* why the process has ended, "no" if it has not
  due,             \* history: the replies the messages read so far call for
  disturbed        \* history: connections with a message during whose parsing
                   \* another loop changed worker_

clientVars == <<script, sent, fin, reset>>
connVars == <<inbox, connected, wrShut, out>>
loopVars == <<cur, str, context, crlf>>
vars == <<clientVars, connVars, worker, pc, loopVars, exited, due, disturbed>>

Token == [kind : Kinds, from : Conns]
Reply == [status : {"200", "404"}, path : Conns] \cup {[status |-> "400"]}

AnyPath == CHOOSE c \in Conns : TRUE

----------------------------------------------------------------------------
(* The clients *)

\* A segment joins what has not been read yet.
ClientSend(c) ==
  /\ ~fin[c] /\ ~reset[c]
  /\ sent[c] < Len(script[c])
  /\ sent' = [sent EXCEPT ![c] = @ + 1]
  /\ LET segment == script[c][sent[c] + 1] IN
       inbox' = [inbox EXCEPT ![c] = @ \o
         [i \in DOMAIN segment |-> [kind |-> segment[i], from |-> c]]]
  /\ UNCHANGED <<script, fin, reset, connected, wrShut, out, worker, pc,
                 loopVars, exited, due, disturbed>>

ClientFin(c) ==
  /\ c \in Leavers
  /\ ~fin[c] /\ ~reset[c]
  /\ fin' = [fin EXCEPT ![c] = TRUE]
  /\ UNCHANGED <<script, sent, reset, connVars, worker, pc, loopVars, exited,
                 due, disturbed>>

ClientReset(c) ==
  /\ c \in Leavers
  /\ ~reset[c]
  /\ reset' = [reset EXCEPT ![c] = TRUE]
  /\ UNCHANGED <<script, sent, fin, connVars, worker, pc, loopVars, exited,
                 due, disturbed>>

----------------------------------------------------------------------------
(* What a message calls for, stated on the whole message *)

Ends(msg) == {i \in DOMAIN msg : msg[i].kind = "crlf"}

\* The first line is a request line.
IsRequest(msg) ==
  Len(msg) >= 2 /\ msg[1].kind = "request" /\ msg[2].kind = "crlf"

\* A later line, and a whole one, has no colon.
IsComplete(msg) ==
  \E i, j \in Ends(msg) :
    /\ i < j
    /\ \A k \in (i + 1) .. (j - 1) : msg[k].kind \notin {"header", "crlf"}

BadRequest == [status |-> "400"]

\* httpCallback_, the one of the example program.
Answer(path) == [status |-> IF path \in Known THEN "200" ELSE "404",
                 path |-> path]

RepliesTo(msg) ==
  CASE ~IsRequest(msg) -> <<BadRequest>>
    [] IsRequest(msg) /\ IsComplete(msg) -> <<Answer(msg[1].from)>>
    [] OTHER -> <<>>

----------------------------------------------------------------------------
(* ParseWorker *)

Parsing == {"assign", "find", "use"}

\* Loop l changes worker_: whoever is parsing meanwhile is disturbed.
Disturb(l) ==
  disturbed' = disturbed \cup {cur[k] : k \in {k \in Loops \ {l} : pc[k] \in Parsing}}

\* Fault: the position is not taken back.
SizedOnly(n) == [worker EXCEPT !.size = n]

\* SetStr, the sizes.
Sized(n) == [worker EXCEPT !.size = n, !.reader = 0]

SetSize(l) ==
  /\ pc[l] = "size"
  /\ worker' = Sized(Len(str[l]))
  /\ pc' = [pc EXCEPT ![l] = "assign"]
  /\ Disturb(l)
  /\ UNCHANGED <<clientVars, connVars, loopVars, exited, due>>

\* SetStr, the text: pointers into the old one dangle.  str has served.
Assign(l) ==
  /\ pc[l] = "assign"
  /\ worker' = [worker EXCEPT !.text = str[l]]
  /\ crlf' = [k \in Loops |-> 0]
  /\ str' = [str EXCEPT ![l] = <<>>]
  /\ pc' = [pc EXCEPT ![l] = "find"]
  /\ Disturb(l)
  /\ UNCHANGED <<clientVars, connVars, cur, context, exited, due>>

\* Fault: size_ is taken for what is left to read.
RetrievedFromSize(end) == [worker EXCEPT !.size = @ - end, !.reader = end]

\* retrieveUntil the first end tokens have been read.
Retrieved(end) ==
  IF end < worker.size THEN [worker EXCEPT !.reader = end]
                       ELSE [worker EXCEPT !.size = 0, !.reader = 0]

----------------------------------------------------------------------------
(* HttpContext::parseRequest *)

InBounds == worker.reader <= worker.size /\ worker.size <= Len(worker.text)

\* findCRLF
Find(l) ==
  LET found == {i \in (worker.reader + 1) .. worker.size :
                  worker.text[i].kind = "crlf"}
  IN /\ pc[l] = "find"
     /\ InBounds
     /\ IF found = {}
          THEN pc' = [pc EXCEPT ![l] = "parsed"] /\ UNCHANGED crlf
          ELSE /\ pc' = [pc EXCEPT ![l] = "use"]
               /\ crlf' = [crlf EXCEPT ![l] =
                    CHOOSE i \in found : \A j \in found : i <= j]
     /\ UNCHANGED <<clientVars, connVars, worker, cur, str, context, exited,
                    due, disturbed>>

Usable(l) == worker.reader < crlf[l] /\ crlf[l] <= Len(worker.text)

Line(l) == SubSeq(worker.text, worker.reader + 1, crlf[l] - 1)

\* The state ExpectRequestLine: processRequestLine.
RequestLine(l) ==
  /\ pc[l] = "use" /\ Usable(l)
  /\ context[l].state = "ExpectRequestLine"
  /\ IF Len(Line(l)) = 1 /\ Line(l)[1].kind = "request"
       THEN /\ context' = [context EXCEPT ![l] =
                 [state |-> "ExpectHeaders", ok |-> TRUE, path |-> Line(l)[1].from]]
            /\ worker' = Retrieved(crlf[l])
            /\ pc' = [pc EXCEPT ![l] = "find"]
            /\ Disturb(l)
       ELSE /\ pc' = [pc EXCEPT ![l] = "parsed"]
            /\ UNCHANGED <<context, worker, disturbed>>
  /\ crlf' = [crlf EXCEPT ![l] = 0]
  /\ UNCHANGED <<clientVars, connVars, cur, str, exited, due>>

\* Fault: the line that ends the headers is not recognised.
NoLastLine(line) == FALSE

NoColon(line) == \A i \in DOMAIN line : line[i].kind # "header"

\* The state ExpectHeaders: a line without a colon ends the request.
HeaderLine(l) ==
  /\ pc[l] = "use" /\ Usable(l)
  /\ context[l].state = "ExpectHeaders"
  /\ IF NoColon(Line(l))
       THEN /\ context' = [context EXCEPT ![l].state = "GotAll"]
            /\ pc' = [pc EXCEPT ![l] = "parsed"]
       ELSE /\ pc' = [pc EXCEPT ![l] = "find"]
            /\ UNCHANGED context
  /\ worker' = Retrieved(crlf[l])
  /\ crlf' = [crlf EXCEPT ![l] = 0]
  /\ Disturb(l)
  /\ UNCHANGED <<clientVars, connVars, cur, str, exited, due>>

\* Pointers that another loop has made invalid: a crash, or any result.
Garbled(l) ==
  /\ \/ pc[l] = "find" /\ ~InBounds
     \/ pc[l] = "use" /\ ~Usable(l)
  /\ \/ exited' = "crash" /\ UNCHANGED <<pc, context, worker, disturbed>>
     \/ /\ pc' = [pc EXCEPT ![l] = "parsed"]
        /\ \E state \in {"ExpectRequestLine", "ExpectHeaders", "GotAll"},
             path \in Conns, reader \in {worker.reader, worker.size} :
             /\ context' = [context EXCEPT ![l] =
                  [state |-> state, ok |-> state # "ExpectRequestLine",
                   path |-> path]]
             /\ worker' = [worker EXCEPT !.reader = reader]
        /\ Disturb(l)
        /\ UNCHANGED exited
  /\ crlf' = [crlf EXCEPT ![l] = 0]
  /\ UNCHANGED <<clientVars, connVars, cur, str, due>>

----------------------------------------------------------------------------
(* HttpServer::onMessage *)

NewContext == [state |-> "ExpectRequestLine", ok |-> FALSE, path |-> AnyPath]

\* onMessage returns; its context goes with it.
Return(l) ==
  /\ pc' = [pc EXCEPT ![l] = "idle"]
  /\ context' = [context EXCEPT ![l] = NewContext]

\* Connection::Business.  The end of file closes the connection, and onMessage
\* returns at once; otherwise it copies what was read and has a new context.
Read(l, c) ==
  /\ pc[l] = "idle" /\ LoopOf[c] = l
  /\ connected[c]
  /\ inbox[c] # <<>> \/ fin[c] \/ reset[c]
  /\ inbox' = [inbox EXCEPT ![c] = <<>>]
  /\ IF fin[c] \/ reset[c]
       THEN /\ connected' = [connected EXCEPT ![c] = FALSE]
            /\ UNCHANGED <<pc, cur, str, context, due>>
       ELSE /\ pc' = [pc EXCEPT ![l] = "size"]
            /\ cur' = [cur EXCEPT ![l] = c]
            /\ str' = [str EXCEPT ![l] = inbox[c]]
            /\ context' = [context EXCEPT ![l] = NewContext]
            /\ due' = [due EXCEPT ![c] = @ \o RepliesTo(inbox[c])]
            /\ UNCHANGED connected
  /\ UNCHANGED <<clientVars, wrShut, out, worker, crlf, exited, disturbed>>

\* A request that is not complete yet is forgotten with its context.
Forget(l) ==
  /\ pc[l] = "parsed"
  /\ context[l].state = "ExpectHeaders"
  /\ Return(l)
  /\ UNCHANGED <<clientVars, connVars, worker, cur, str, crlf, exited, due,
                 disturbed>>

\* write() to a socket: a reset fails it, and raises SIGPIPE if the client had
\* shut down before, as our own shutdown does.
Send(l, reply) ==
  LET c == cur[l] IN
  IF reset[c]
    THEN IF fin[c]
           THEN exited' = "SIGPIPE" /\ UNCHANGED <<pc, connected, out>>
           ELSE /\ connected' = [connected EXCEPT ![c] = FALSE]
                /\ pc' = [pc EXCEPT ![l] = "shutdown"]
                /\ UNCHANGED <<exited, out>>
    ELSE IF wrShut[c]
           THEN exited' = "SIGPIPE" /\ UNCHANGED <<pc, connected, out>>
           ELSE /\ out' = [out EXCEPT ![c] = Append(@, reply)]
                /\ pc' = [pc EXCEPT ![l] = "shutdown"]
                /\ UNCHANGED <<exited, connected>>

SendBadRequest(l) ==
  /\ pc[l] = "parsed"
  /\ ~context[l].ok
  /\ Send(l, BadRequest)
  /\ UNCHANGED <<clientVars, inbox, wrShut, worker, loopVars, due, disturbed>>

\* onRequest
SendAnswer(l) ==
  /\ pc[l] = "parsed"
  /\ context[l].state = "GotAll"
  /\ Send(l, Answer(context[l].path))
  /\ UNCHANGED <<clientVars, inbox, wrShut, worker, loopVars, due, disturbed>>

\* Fault: a connection is kept open unless the reply is an error.
ClosesOnError(reply) == reply.status # "200"

\* close is set to true for every reply.
Closes(reply) == TRUE

\* Connection::shutdown; it fails on a connection that was reset.
Shutdown(l) ==
  LET c == cur[l]
      closes == \/ context[l].state # "GotAll"
                \/ Closes(Answer(context[l].path))
  IN /\ pc[l] = "shutdown"
     /\ IF closes /\ reset[c]
          THEN exited' = "shutdown" /\ UNCHANGED <<pc, context, wrShut>>
          ELSE /\ wrShut' = [wrShut EXCEPT ![c] = @ \/ closes]
               /\ Return(l)
               /\ UNCHANGED exited
     /\ UNCHANGED <<clientVars, inbox, connected, out, worker, cur, str, crlf,
                    due, disturbed>>

----------------------------------------------------------------------------
Init ==
  /\ script \in [Conns -> Scripts]
  /\ sent = [c \in Conns |-> 0]
  /\ fin = [c \in Conns |-> FALSE]
  /\ reset = [c \in Conns |-> FALSE]
  /\ inbox = [c \in Conns |-> <<>>]
  /\ connected = [c \in Conns |-> TRUE]
  /\ wrShut = [c \in Conns |-> FALSE]
  /\ out = [c \in Conns |-> <<>>]
  /\ worker = [text |-> <<>>, size |-> 0, reader |-> 0]
  /\ pc = [l \in Loops |-> "idle"]
  /\ cur = [l \in Loops |-> AnyPath]
  /\ str = [l \in Loops |-> <<>>]
  /\ context = [l \in Loops |-> NewContext]
  /\ crlf = [l \in Loops |-> 0]
  /\ exited = "no"
  /\ due = [c \in Conns |-> <<>>]
  /\ disturbed = {}

LoopStep(l) ==
  \/ \E c \in Conns : Read(l, c)
  \/ SetSize(l) \/ Assign(l)
  \/ Find(l) \/ RequestLine(l) \/ HeaderLine(l) \/ Garbled(l)
  \/ Forget(l) \/ SendBadRequest(l) \/ SendAnswer(l) \/ Shutdown(l)

ClientStep(c) == ClientSend(c) \/ ClientFin(c) \/ ClientReset(c)

Next ==
  /\ exited = "no"
  /\ \/ \E c \in Conns : ClientStep(c)
     \/ \E l \in Loops : LoopStep(l)

Spec == Init /\ [][Next]_vars

\* The operating system schedules every loop.
FairSpec == Spec /\ \A l \in Loops : WF_vars(exited = "no" /\ LoopStep(l))
----------------------------------------------------------------------------
(* Properties *)

\* Every variable keeps its type; a parsed request line is needed for ok.
TypeOK ==
  /\ script \in [Conns -> Scripts]
  /\ sent \in [Conns -> Nat] /\ \A c \in Conns : sent[c] <= Len(script[c])
  /\ {fin, reset, connected, wrShut} \subseteq [Conns -> BOOLEAN]
  /\ inbox \in [Conns -> Seq(Token)]
  /\ {out, due} \subseteq [Conns -> Seq(Reply)]
  /\ worker \in [text : Seq(Token), size : Nat, reader : Nat]
  /\ pc \in [Loops -> {"idle", "size", "parsed", "shutdown"} \cup Parsing]
  /\ cur \in [Loops -> Conns]
  /\ str \in [Loops -> Seq(Token)]
  /\ context \in [Loops ->
       [state : {"ExpectRequestLine", "ExpectHeaders", "GotAll"},
        ok : BOOLEAN, path : Conns]]
  /\ \A l \in Loops : context[l].ok = (context[l].state # "ExpectRequestLine")
  /\ crlf \in [Loops -> Nat]
  /\ exited \in {"no", "crash", "SIGPIPE", "shutdown"}
  /\ disturbed \subseteq Conns

InOnMessage(c) == \E l \in Loops : cur[l] = c /\ pc[l] # "idle"

\* Between two calls of onMessage, a client has got just the replies that the
\* messages read from it call for, unless another loop used worker_ while one of
\* them was parsed.
RepliesAreExact ==
  \A c \in Conns :
    exited = "no" /\ connected[c] /\ ~InOnMessage(c) /\ c \notin disturbed
      => out[c] = due[c]

\* Whatever the loops do to each other's parsing, a client gets one reply at
\* most, and the end of file after it.
OneReplyThenFin ==
  \A c \in Conns :
    /\ Len(out[c]) <= 1
    /\ ~InOnMessage(c) => (wrShut[c] <=> out[c] # <<>>)

\* The parser stays inside its buffer when it has it to itself, and the process
\* ends for a second reply on one connection, a reset one or a disturbed parse.
ExitIsExplained ==
  /\ exited = "crash" => disturbed # {}
  /\ exited = "SIGPIPE" => \E c \in Conns : InOnMessage(c) /\ (wrShut[c] \/ reset[c])
  /\ exited = "shutdown" => \E c \in Conns : InOnMessage(c) /\ reset[c]

\* A complete request that waits to be read on an open connection gets a reply,
\* though other requests keep the loop or the parser busy.
RequestIsAnswered ==
  \A c \in Conns :
    connected[c] /\ IsRequest(inbox[c]) /\ IsComplete(inbox[c])
      ~> \/ out[c] # <<>>
         \/ exited # "no" \/ c \in disturbed \/ fin[c] \/ reset[c]
=============================================================================
