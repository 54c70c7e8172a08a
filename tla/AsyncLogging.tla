---------------------------- MODULE AsyncLogging ----------------------------
(***************************************************************************)
(* The double-buffered asynchronous log: any thread appends lines to the   *)
(* front buffers under mutex_, and one backend thread takes the front      *)
(* buffers, writes them to the file without the mutex and gives two back.  *)
(* The thread that owns the log starts and stops the backend.              *)
(*                                                                         *)
(* A critical section of mutex_ is one step.  notify_one leaves no trace:  *)
(* wait_for has no predicate and a time-out, so it may return at any time. *)
(***************************************************************************)
EXTENDS SequencesExt

CONSTANTS
  Lengths,   \* lengths of the lines that are logged
  Capacity,  \* kLargeBuffer
  NoBuffer,  \* a null unique_ptr
  MaxLines   \* bound: lines logged

Line == [id : 1 .. MaxLines, len : Lengths]
Buffer == [data : Seq(Line), length : 0 .. (Capacity - 1)]

\* A line is formatted in a kSmallBuffer, which is smaller than kLargeBuffer.
ASSUME LoggingAssumption ==
  /\ Capacity \in Nat \ {0}
  /\ Lengths \subseteq 0 .. (Capacity - 1)
  /\ MaxLines \in Nat
  /\ NoBuffer \notin Buffer

VARIABLES
  running,          \* running_
  owner,            \* the thread that owns the log
  current,          \* currentBuffer_
  next,             \* nextBuffer_
  buffers,          \* buffers_
  backend,          \* where threadFunc is
  newBuffer1, newBuffer2, toWrite,   \* threadFunc's locals
  written,          \* how many buffers of toWrite are in the file
  file,             \* the lines in the file
  logged,           \* history: every line handed to append
  loggedAtStop      \* history: how many when stop() was called

frontVars == <<current, next, buffers>>
backVars == <<newBuffer1, newBuffer2, toWrite, written>>
vars == <<running, owner, frontVars, backend, backVars, file, logged,
          loggedAtStop>>

----------------------------------------------------------------------------
(* FixedBuffer *)

EmptyBuffer == [data |-> <<>>, length |-> 0]

\* Fault: end() is one byte too far.
AvailOneMore(buffer) == Capacity + 1 - buffer.length

Avail(buffer) == Capacity - buffer.length

\* append drops what does not fit.
Put(buffer, line) ==
  IF Avail(buffer) > line.len
    THEN [data |-> Append(buffer.data, line),
          length |-> buffer.length + line.len]
    ELSE buffer

\* reset() moves cur_ back to the start.
Reset(buffer) == EmptyBuffer

----------------------------------------------------------------------------
(* The threads that log *)

\* Fault: the line that did not fit is left out.
SwitchOnly(line) ==
  /\ buffers' = Append(buffers, current)
  /\ current' = IF next # NoBuffer THEN next ELSE EmptyBuffer
  /\ next' = NoBuffer

\* The line does not fit: the current buffer is full and the next one, or a new
\* one if the backend has not returned it yet, takes its place.
SwitchAndPut(line) ==
  /\ buffers' = Append(buffers, current)
  /\ current' = Put(IF next # NoBuffer THEN next ELSE EmptyBuffer, line)
  /\ next' = NoBuffer

AppendLine(len) ==
  LET line == [id |-> Len(logged) + 1, len |-> len] IN
  /\ Len(logged) < MaxLines
  /\ logged' = Append(logged, line)
  /\ IF Avail(current) > len
       THEN current' = Put(current, line) /\ UNCHANGED <<next, buffers>>
       ELSE SwitchAndPut(line)
  /\ UNCHANGED <<running, owner, backend, backVars, file, loggedAtStop>>

----------------------------------------------------------------------------
(* The owner *)

\* start() returns once the thread runs.
Start ==
  /\ owner = "created"
  /\ owner' = "started"
  /\ running' = TRUE
  /\ backend' = "test"
  /\ newBuffer1' = EmptyBuffer
  /\ newBuffer2' = EmptyBuffer
  /\ UNCHANGED <<frontVars, toWrite, written, file, logged, loggedAtStop>>

\* stop(), from the destructor too if the log is still running.
Stop ==
  /\ owner = "started"
  /\ owner' = "joining"
  /\ running' = FALSE
  /\ loggedAtStop' = Len(logged)
  /\ UNCHANGED <<frontVars, backend, backVars, file, logged>>

Join ==
  /\ owner = "joining"
  /\ backend = "done"
  /\ owner' = "stopped"
  /\ UNCHANGED <<running, frontVars, backend, backVars, file, logged,
                 loggedAtStop>>

----------------------------------------------------------------------------
(* The backend: threadFunc *)

Asserted ==
  /\ newBuffer1 # NoBuffer /\ newBuffer1.length = 0
  /\ newBuffer2 # NoBuffer /\ newBuffer2.length = 0
  /\ toWrite = <<>>

\* while(running_) and the three assertions.
Test ==
  /\ backend = "test"
  /\ backend' = CASE ~running -> "done"
                  [] running /\ Asserted -> "lock"
                  [] running /\ ~Asserted -> "abort"
  /\ UNCHANGED <<running, owner, frontVars, backVars, file, logged,
                 loggedAtStop>>

\* Nothing is full yet: wait for a notification, or three seconds.
Wait ==
  /\ backend = "lock"
  /\ buffers = <<>>
  /\ backend' = "wait"
  /\ UNCHANGED <<running, owner, frontVars, backVars, file, logged,
                 loggedAtStop>>

\* Fault: the wait ends for a full buffer only.
WaitEndsWhenFull == buffers # <<>>

\* wait_for(3 s) without a predicate: notified, timed out or woken for nothing.
WaitEnds == TRUE

\* Take every front buffer, the current one too, and leave empty ones.
Swap ==
  /\ \/ backend = "lock" /\ buffers # <<>>
     \/ backend = "wait" /\ WaitEnds
  /\ toWrite' = Append(buffers, current)
  /\ buffers' = toWrite
  /\ current' = newBuffer1
  /\ newBuffer1' = NoBuffer
  /\ IF next = NoBuffer
       THEN next' = newBuffer2 /\ newBuffer2' = NoBuffer
       ELSE UNCHANGED <<next, newBuffer2>>
  /\ written' = 0
  /\ backend' = "write"
  /\ UNCHANGED <<running, owner, file, logged, loggedAtStop>>

\* LogFile::append of one buffer; constructed with flushEveryN 0, it flushes
\* after each.
WriteBuffer ==
  /\ backend = "write"
  /\ written < Len(toWrite)
  /\ file' = file \o toWrite[written + 1].data
  /\ written' = written + 1
  /\ UNCHANGED <<running, owner, frontVars, backend, newBuffer1, newBuffer2,
                 toWrite, logged, loggedAtStop>>

\* Fault: only one buffer is kept.
KeepOne == SubSeq(toWrite, 1, 1)

\* resize(2) if there are more.
Kept == IF Len(toWrite) > 2 THEN SubSeq(toWrite, 1, 2) ELSE toWrite

\* Everything is written: return the buffers the front end took from the ones
\* kept, last one first.  back() of an empty vector is undefined behaviour.
Recycle ==
  LET rest == IF newBuffer1 = NoBuffer THEN Front(Kept) ELSE Kept
      missing == (IF newBuffer1 = NoBuffer THEN 1 ELSE 0)
                   + (IF newBuffer2 = NoBuffer THEN 1 ELSE 0)
  IN /\ backend = "write"
     /\ written = Len(toWrite)
     /\ IF Len(Kept) < missing
          THEN backend' = "abort" /\ UNCHANGED <<newBuffer1, newBuffer2, toWrite>>
          ELSE /\ newBuffer1' = IF newBuffer1 = NoBuffer THEN Reset(Last(Kept))
                                                         ELSE newBuffer1
               /\ newBuffer2' = IF newBuffer2 = NoBuffer THEN Reset(Last(rest))
                                                         ELSE newBuffer2
               /\ toWrite' = <<>>
               /\ backend' = "test"
     /\ written' = 0
     /\ UNCHANGED <<running, owner, frontVars, file, logged, loggedAtStop>>

----------------------------------------------------------------------------
Init ==
  /\ running = FALSE
  /\ owner = "created"
  /\ current = EmptyBuffer
  /\ next = EmptyBuffer
  /\ buffers = <<>>
  /\ backend = "none"
  /\ newBuffer1 = NoBuffer
  /\ newBuffer2 = NoBuffer
  /\ toWrite = <<>>
  /\ written = 0
  /\ file = <<>>
  /\ logged = <<>>
  /\ loggedAtStop = 0

BackendStep == Test \/ Wait \/ Swap \/ WriteBuffer \/ Recycle

Next ==
  \/ \E len \in Lengths : AppendLine(len)
  \/ Start \/ Stop \/ Join
  \/ BackendStep

Spec == Init /\ [][Next]_vars

\* The backend is scheduled, and its wait ends after three seconds at most.
FairSpec == Spec /\ WF_vars(BackendStep) /\ WF_vars(Join)

----------------------------------------------------------------------------
(* Properties *)

\* Every variable keeps its type; no buffer is ever filled to its last byte.
TypeOK ==
  /\ running \in BOOLEAN
  /\ owner \in {"created", "started", "joining", "stopped"}
  /\ current \in Buffer
  /\ next \in Buffer \cup {NoBuffer}
  /\ buffers \in Seq(Buffer)
  /\ backend \in {"none", "test", "lock", "wait", "write", "done", "abort"}
  /\ newBuffer1 \in Buffer \cup {NoBuffer}
  /\ newBuffer2 \in Buffer \cup {NoBuffer}
  /\ toWrite \in Seq(Buffer)
  /\ written \in 0 .. Len(toWrite)
  /\ file \in Seq(Line)
  /\ logged \in Seq(Line) /\ Len(logged) <= MaxLines
  /\ loggedAtStop \in Nat

\* However fast the front end fills buffers while the backend writes, the
\* assertions at the top of threadFunc's loop hold and back() finds a buffer.
BackendNeverFails == backend # "abort"

\* Every line is in exactly one place: the file, a buffer the backend is still
\* to write, a full front buffer or the current one, in the order logged.
Contents(bufs) == FlattenSeq([i \in DOMAIN bufs |-> bufs[i].data])

EveryLineKept ==
  logged = file \o Contents(SubSeq(toWrite, written + 1, Len(toWrite)))
                \o Contents(buffers) \o current.data

\* The file is at all times a gapless prefix of what was logged and is only
\* appended to: the log is a FIFO.
Fifo == INSTANCE LogFifo

LogIsFifo == Fifo!Spec

\* While the log is not stopped, a line reaches the file although it fills no
\* buffer and nobody is notified.
LinesReachTheFile ==
  \A n \in 1 .. MaxLines :
    running /\ Len(logged) >= n ~> Len(file) >= n \/ ~running

\* stop() returns, whatever the backend is doing and if its notification is
\* lost as well.
StopReturns == owner = "joining" ~> owner = "stopped"

(* A statement of the repository that the code does not keep *)

\* AsyncLogging.h:12, the backend thread writes the log's buffers to disk: what
\* was logged before stop() is in the file when it returns.
StopWritesAll == owner = "stopped" => Len(file) >= loggedAtStop
=============================================================================
