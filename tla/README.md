# A verification of My-Network-Library

TLA+ models of the multi-threaded network library in this repository, checked
with TLC on small instances, and theorems about them checked with TLAPS for
every value of the constants.

Paths are relative to the repository root. Definitions carry the names of the
code they stand for; `PROJECT.json` maps each one to its lines.

## The system

| Component | State it keeps | Operations | Meets the others through |
|---|---|---|---|
| `Server`, `Acceptor` (`src/network`) | `connections_`, the sub reactors, the pool | `Start`, `NewConnection`, `DeleteConnection`, `CheckActiveConnection` | runs in the main thread; builds connections that a sub reactor serves; is called back by that sub reactor |
| `Connection` | state, read and send buffer, callbacks, idle time | `Read`, `Write`, `Send`, `Business`, `Close`, `deleteConnection` | callbacks from `Channel`; calls the application and `Server` |
| `Channel`, `Epoll`, `EventLoop` | registered events, `in_epoll_`, reported events, epoll set | `UpdateChannel`, `DeleteChannel`, `Poll`, `HandleEvent`, `Loop` | one loop per thread; the main thread registers channels in another thread's epoll set |
| `Socket`, `Buffer` | a descriptor; a string | system calls; append, clear | used by `Connection` |
| `ThreadPool` | threads, an unused task queue, `stop_` | constructor, `Add`, destructor | runs the loops, and one thread per `GET`; destroyed by `exit()` while loops still use it |
| `AsyncLogging`, `LogFile` (`src/logger`) | four to many buffers, the file | `append`, `start`, `stop`, `threadFunc` | every thread appends, one backend writes |
| `TimerQueue`, `TimerNode` (`src/timer`) | a heap of timers, a timerfd | `addTimer`, `handleRead`, `resetTimerfd` | a channel of its `EventLoop` |
| `SkipList`, `SkipListWorker` (`src/storage`) | the list, one global mutex, a stream to the file and one from it | insert, delete, search, dump, load | called from every loop; `GET` runs in a thread of the pool |
| `HttpServer`, `HttpContext`, `ParseWorker` (`src/http`) | one parse buffer for all loops, a parse state per message | `onMessage`, `parseRequest`, `onRequest` | message callback of `Connection` |

What is hard in it, and what makes each part correct:

- **Reactor.** Main registers a channel in a sub reactor that is already running
  before it has finished building the connection, with no lock. Correct means:
  no `epoll_ctl` fails, the `in_epoll_` flag tells the truth, no handler runs
  for a deleted channel, edge triggering loses no input, and output keeps its
  order.
- **Asynchronous log.** Buffers move between producers and the backend; the
  condition variable is waited on without a predicate. Correct means: no line
  lost or reordered, no null buffer used, everything written in the end.
- **Timers.** Time passes between two readings of a clock that wraps, and
  differences are unsigned. Correct means: never early, never dropped, always
  armed for the earliest.
- **HTTP server.** Loops parse in one `worker_` without a lock, a message is
  whatever one read returned, and a connection outlives its reply. Correct means:
  a client gets the replies its messages call for and the parser stays in its
  buffer.
- **Skip list.** Writers are serialised, readers are not. Correct means: levels
  sorted and complete, the list a map, searches exact.
- **Storage server.** All loops share one list, one mutex, one stream for `DUMP`,
  one for `LOAD` and a pool; `DUMP` empties the only copy before it writes the new
  one. Correct means: what is dumped and loaded is what the list holds, a crash
  leaves a file that can be loaded, no search outlives the list, and calls return.
- **Idle connections.** A timer lets Main send on and delete connections that a
  loop is serving, without a lock, and no connection ever leaves `connections_`.
  Correct means: nobody is cleared too soon or left too long, the message that
  says so is the last, and no `epoll_ctl` fails.

`PROJECT.json` lists the hazards one by one with the properties that cover them.

## Modules

| Module | What it is |
|---|---|
| `Reactor` | server, connections, channels and loops, with the kernel and the clients as environment, running the echo application of `example/server.cpp` |
| `ReactorProofs` | its theorems |
| `LogFifo` | what the log promises: a FIFO |
| `AsyncLogging` | front end, owner and backend thread of the log; implements `LogFifo` |
| `AsyncLoggingProofs` | its theorems |
| `TimerQueue` | one timer queue, its timerfd and the clock |
| `TimerQueueProofs` | its theorems |
| `HttpServer` | the HTTP server's loops, their shared parser, and clients that cut, shut down and reset |
| `HttpServerProofs` | its theorems |
| `KVMap` | what the storage engine promises its writers: a map |
| `SkipList` | the skip list with one writer at a time and a searching thread; its writers implement `KVMap` |
| `SkipListProofs` | its theorems |
| `ThreadPool` | the pool, its workers and the threads of its tasks |
| `ThreadPoolProofs` | its theorem |
| `KVServer` | the storage server: commands, list, file, crashes and `exit()`, with `ThreadPool` as a part of its state |
| `KVServerProofs` | its theorems; `NoTaskOutlivesPool` from those of the pool |
| `IdleReaper` | Main's walk over the connections, the timer that starts it, and the loop that serves them |
| `IdleReaperProofs` | its theorems |
| `MCReactor`, `MCAsyncLogging`, `MCTimerQueue`, `MCHttpServer`, `MCSkipList`, `MCKVServer`, `MCIdleReaper` | instances for TLC |

Operators named after a fault (`AfterAddUnmarked`, `KeepOne`, ...) are not used
by any action. Each is a plausible mistake at one place in the code; putting it
in that place makes TLC find the property that is meant to catch it violated.

### Reactor

Threads are `Main` (the number `NumLoops`) and the sub reactors `0 ..
NumLoops-1`; `pc` and `cur` say where a thread is and on which connection. A
step is one access to something another thread or the kernel also touches: a
system call, a callback being set, `in_epoll_` being set, the insertion into
`connections_`. Statements between two such accesses are part of the step
before.

- `Accept`, `EpollAdd`, `MarkIn`, `UseET`, `EpollMod`, `Construct`,
  `SetDeleteConnectionCallback`, `SetOnMessageCallback`, `BeginInsert` and
  `EndInsert` are `Acceptor::AcceptConnection` and `Server::NewConnection` in
  program order.
- `Poll`, `Dispatch` and `PollAgain` are `EventLoop::Loop`. From `Dispatch` the
  loop goes through `ReadChunk` / `ReadAgain` / `ReadEnd`, `OnMessage` and
  `WriteSome` / `WriteAgain` / `WriteError` / `WriteBrokenPipe`, or `Close`,
  `FindConnection`, `DeleteConnection`, `EpollMod`, `EpollDel` and `MarkOut`.
- `exited` holds why the process ended: a failed `epoll_ctl`, no descriptor, a
  crash in the racing lookup, or SIGPIPE. A loop at `"dead"` is a thread whose
  exception the `packaged_task` it runs in has kept.

The kernel is modelled from how it is called: an item is on its epoll's ready
list after a socket event it is interested in or a registration that finds it
ready; `Poll` takes all of them and puts the level-triggered ones back. A chunk
is what one `read()` returns. The data race on `connections_` is a choice among
"found if there", "missed" and "crash". Setting a `std::function` and reading it
is taken as atomic. `EINTR` is a loop back to the same call and left out, as are
the blocking reads and writes, which only a client program uses, and text that
contains a zero byte, which `Buffer` cuts.

### AsyncLogging

A critical section of `mutex_` is one step, and so is each buffer the backend
writes. Buffers are records of lines and a length; `EmptyBuffer` stands for a new
one. `wait_for` has a time-out and no predicate, so it may return at any time and
`notify_one` needs no state. A line is shorter than a large buffer, because it is
formatted in a small one. The log is started and stopped once; a full disk is
left out.

### TimerQueue

`Tick` moves the clock that the code reads modulo `Wrap`, the timerfd, and the
history variable `left`, the true time until a timer is due. Any tick may fall
between two steps of a handler, at most `MaxStall` of them in one handler, so
two readings of the clock may differ. `Delay` is the unsigned arithmetic of
`resetTimerfd`: a past expiration becomes `Never`. `gettimeofday` and the
timerfd's monotonic clock are taken to run at the same rate. Callbacks add no
timers, and no other thread does, as in `src/`.

### HttpServer

A text is a sequence of tokens: a well-formed request line, a text with a colon,
another text, the end of a line; requests carry the connection they come from,
which stands for the path. `Read` is `Connection::Business` in one step, for
`Reactor` has it in detail; from there a step is one thing the other loops can
see: `SetSize` and `Assign` (`ParseWorker::SetStr`), `Find` (`findCRLF`),
`RequestLine` and `HeaderLine` (a line is used and retrieved), `SendBadRequest`,
`SendAnswer` and `Shutdown`. A position in `worker_` that another loop has made
invalid is undefined behaviour: `Garbled` crashes or yields any result. `due` is
computed from the message as a whole (`RepliesTo`), not by the parser, and
`disturbed` records whose parsing another loop has touched. Replies fit into the
socket's buffer: each connection gets one. What a header says is left out:
`onRequest` sets `close` to true whatever it is. The request callback is that of
`example/http_server.cpp`.

### SkipList

A writer's own search is one step, since only the holder of `mtx` changes the
list; every pointer it changes is a step, and so is every pointer or key a
searching thread reads. Freed cells are handed out again. Reading a freed cell,
or a level a cell does not have, is undefined behaviour: the model stops there
(`rpc = "freed"`), and likewise for a value that is being assigned (`"torn"`).
One searching thread stands for any number, because it changes nothing. Keys are
integers, for strings compare as a total order. The memory of `update[]`, which
is never freed, is left out. `Level` is the set of nodes that a walk along one level
comes to, and `Map`, which the refinement compares with `KVMap`, the pairs on the
lowest; that these are the nodes that are allocated and linked is a theorem.

### ThreadPool and KVServer

`KVServer` EXTENDS `ThreadPool` and conjoins its actions with its own: `AddSearch`
contains `Add`, `EndSearch` `EndTask`, `Get` `TakeResult`, and `ExitStep` is the
destructor (`SetStop`, `NotifyWorkers`, `Join`). A thread that `Add` has started
stays in `workers_` when its task has run (`added` never falls in a process), so a
`GET` can be refused for want of threads; `AddThrows` then ends the loop's thread.

A loop is at most in one command (`pc`, `cmd`). An insertion or deletion is one
step, because `SkipList` shows it to be one of a map; the assignment to a key that
is there is two, because `DUMP` reads values without the lock. `DUMP` is
`OpenWriter`, a `WriteNode` per node and `CloseWriter`; `LOAD` is `OpenReader`,
`GetLine`, an insertion as `SET` makes it, and `CloseReader`. A stream is a record
of `is_open()`, `fail()`, what it buffers and how far it has read. `Opened` gives the
two outcomes of `open()`: it works, or it fails, because the stream is open already,
for want of the directory (`./store` is relative, and the programs are started in
`./example`), of a permission or of a descriptor; a `DUMP` then writes nothing, a
`LOAD` reads nothing, and both answer that all went well. `WriteNode` may write the
buffer out in the middle of a line or at its end, which is what a crash then leaves. A
dump on a node that was freed or is being assigned is undefined behaviour:
`Undefined` ends the process, goes on behind the node, or stops.

`Kill` ends the process and starts a new one with an empty list and the file as it
is. `exit()` runs destructors in the order of the code while loops continue: the
pool's, then the list's, which closes the streams (`EndExit`). Commands whose first
byte arrives after `exit()` has begun are left out: the handlers' map is destroyed
before the pool. Only what the loops may read (`Scenarios`) and what the file may hold
when the first process starts (`Files`) is bounded.

Texts are sequences of symbols here, for `:` and the end of a line decide what `LOAD`
makes of a line. `parseCommand` cuts a text at blanks only, so that keys and values may
hold both: of a key that ends before its first `:` another key is loaded; a value with
line ends is written as several lines, of which the first gives the key what is before
the first line end (`FirstLine`), and the others, if they hold a `:`, look like lines
of other keys. `DumpIsFaithful` and `DumpCanBeLoaded` therefore speak of `Plain` keys,
those without `:` and line end that no other line of the pairs that matter looks like,
and of values up to their first line end. `DumpIsFaithful` has to take in all pairs that
commands insert (`Settable`): the lines of a key that was dumped and then deleted are
still in the file. What a `LOAD` inserts besides comes from one line, whose key has no
`:` and whose value has no line end, so that it cannot mislead.

Three variables are history and no step reads them but to record: `overlap` says what
has run beside a loop's `DUMP` or `LOAD`, or that its file could not be opened
("failed", `Begun`); `had` the values a key had during a `DUMP`; `kept` the file that a
`DUMP` could not open.

### IdleReaper

Two threads, Main and one loop, work on the same connections. `Accept` is one step
(`Reactor` has its parts). `Send` is `SetSendBuffer`, `Write` (the state, and a copy
of the buffer) and `WriteNonBlocking`; `deleteConnection` is `DeleteConnection`,
`EpollAdd` or `EpollMod` as `in_epoll_` says, `MarkIn`, `EpollDel` and `MarkOut`;
both threads run these actions. Main's are `Walk`, `Look`, `Judge`, `WalkEnds` for
`CheckActiveConnection`, `DeleteAgain` for the second pass over `delete_after`, and
`Restart` and `Arm` for the timer; the loop's are `Poll`, `HandleHup`, `Read`,
`OnMessage` and `SetContext`. Two threads in one `std::string` are undefined
behaviour: `SendRace` may end the process there.

`Tick` advances the clock, at most `MaxStall` ticks from one wait of Main to the
next. The history variables say what the code cannot know: `quiet` how long a
connection has truly been idle, `wrapped` and `mixed` whether the clock wrapped or
the threads met since, `twice` what both were deleting at a time. `out` is reduced
to whether the client has been told "You are cleared!" and whether something
followed.

## Runs

| Run | Checks | Shows |
|---|---|---|
| `reactor` | `TypeOK`, `NoEpollError`, `FlagAgrees`, `NoStaleEvent`, `NoLostWakeup`, `EchoInOrder`, `HalfTheLoopsIdle`, `LoopDiesOnlyInConstruction` | the reactor's safety: 1.26 million states |
| `reactor_live` | `InputEventuallyRead` | input is read |
| `echo_complete` | `EchoComplete` (violated) | data and end of file in one read: no echo |
| `log` | `TypeOK`, `BackendNeverFails`, `EveryLineKept`, `LogIsFifo`, `LinesReachTheFile`, `StopReturns` | the log is a FIFO, its backend safe and live |
| `log_stop` | `StopWritesAll` (violated) | `stop()` leaves lines unwritten |
| `timers` | `TypeOK`, `ArmedForEarliest`, `NeverEarly`, `RepeatingTimerStays`, `TimerRunsOrIsLost` | timers are punctual up to two named exceptions |
| `clock_wrap` | `RepeatingTimerRuns` (violated) | one of the exceptions: the clock wraps |
| `http` | `TypeOK`, `RepliesAreExact`, `OneReplyThenFin`, `ExitIsExplained`, `RequestIsAnswered` | what HTTP clients get, and what the shared parser may do to it |
| `skip_list` | `TypeOK`, `LevelsInOrder`, `LevelsComplete`, `SearchIsExact`, `IsMap` | the writers' list is sound and is a map; how wrong a concurrent search may be |
| `search_freed` | `SearchReadsLiveNodes` (violated) | a search reads a freed node |
| `kv_server` | `TypeOK`, `NoTaskOutlivesPool`, `DumpIsFaithful`, `DumpCanBeLoaded`, `LoadIsExact`, `CallsReturn` | what `DUMP` and `LOAD` are worth under concurrency and crashes, and that `exit()` is safe and ends |
| `idle_reaper` | `TypeOK`, `ExitIsExplained`, `ClearIsFinal`, `ClearedInTime` | idle connections are cleared in time and once, and what the missing lock may do |

Bounds, and why they are enough:

- `reactor`: two connections on one loop are the least that let a loop deal with
  one while Main builds the other; with two chunks an event may cover one chunk,
  two, or one and the end of file. Two sub reactors make one idle. Descriptors
  start at an even number, the parity the running program sees. Clients are
  interchangeable (symmetry).
- `reactor_live`: three sub reactors put the two connections on different loops.
  No symmetry, since the property is temporal. Clients send finitely many chunks:
  one that never stops sending may keep its loop in `ReadNonBlocking` for ever.
- `log`: six lines in buffers that hold one long or two short ones make
  `buffers_` longer than the two that `resize(2)` keeps.
- `timers`: two timers give every order of two expirations; the clock is short
  enough to wrap several times, and `MaxStall` is at least `MinDelay`.
- `http`: two loops are the least that disturb each other; the two things a
  client may send are cut so that the parts are read apart or as one whole, with
  a second request, a line without a colon and an unfinished header among them.
  One client only leaves early (`Leavers`).
- `skip_list`: three keys are the least with a key on either side of the one that
  is searched for or deleted (`Searched`); three levels make a node's
  predecessors differ from level to level. Node cells and values are
  interchangeable.
- `kv_server`: two loops, for what overlaps overlaps in pairs; six scenarios, so
  that each pair of commands meets in one of them: dumps and loads against
  insertions, assignments and deletions of one key, two dumps and two loads at a
  time, two searches. Keys with and without a `:` in them, values of one line, of two
  and of an empty first one; a first file that is empty, or that a crash has torn;
  every `open()` may fail. One thread for two
  searches, so that `Add` finds none; two workers, so that one may be between its
  test and its wait while the other waits.
- `idle_reaper`: one connection, because two share nothing but the threads, which
  can stall at any point anyway; the theorems are for any number. The clock wraps
  after four periods, and a connection is idle for the limit, one tick more and one
  less.

Deadlock is checked in `kv_server` only, where `Kill` is always possible so that
it says little; elsewhere a server with idle clients, a stopped log and a
finished search have nothing left to do. That nobody waits for ever is what the
liveness properties say.

Fairness: in `Reactor`, weak fairness of each thread's step, for the operating
system schedules every thread that is not blocked; clients are under no
obligation. In `AsyncLogging`, weak fairness of the backend, whose wait ends
after three seconds, and of the owner's `join`; producers owe nothing. In
`HttpServer`, weak fairness of each loop, as in `Reactor`. In
`TimerQueue`, time passes and the loop runs when it has something to do. In
`KVServer`, weak fairness of what waits for nobody: the steps of a `GET` or a `DUMP`,
the searches, the workers and `exit()` once it has begun; none of a handler that
waits for `mtx`, of clients or of `Kill`.

What the violated properties show is in `PROJECT.json` under `findings`. Met
while modelling, visible in the named action, and not stated as a property:

- `WriteAgain`: what a full socket buffer does not take is thrown away, so the
  echo has holes; `EchoInOrder` says it is still in order.
- `WriteError`: a failed write marks a connection `Closed` but leaves it
  registered and in `connections_`.
- `FindConnection`: a close that is handled before `EndInsert` misses the entry,
  and the connection stays registered.
- `Accept`: a connection takes two descriptors and never gives one back.
- `Arm` with `Delay`: when the earliest timer falls due between `handleRead`'s
  check and `resetTimerfd`, the unsigned difference underflows and the timerfd is
  armed for `Never` (an exception in `TimerRunsOrIsLost`).
- `Forget` and `Read`: a request that is read in two parts is answered with an
  error or not at all, and `SendBadRequest` to a connection that has had its
  reply raises SIGPIPE and ends the server.
- `Shutdown`: `shutdown()` fails on a connection that was reset meanwhile, and
  `ErrorIf` ends the server.
- `HeaderLine`: any line without a colon ends the headers, not only an empty one.
- `Dispatch` and the callbacks: a client that sends while Main is still constructing
  its connection may end its loop's thread by an empty `std::function`
  (`LoopDiesOnlyInConstruction` says that nothing else does).
- `AddThrows`: when the process can have no more threads, or once `exit()` has
  begun, a `GET` ends its loop's thread. `CallsReturn` counts such a loop ("dead") as
  one that waits for nothing, and does not say how many searches a process can run.
- `EpollFails` of `IdleReaper`: Main and a loop that delete one connection at a time
  can make `epoll_ctl` fail, which ends the server (the exception in
  `ExitIsExplained`). Main deletes every cleared connection twice in each walk, so a
  client that resets a cleared connection has many chances.
- `SetSendBuffer` in both threads: a message handled while Main clears the connection
  may reach the client after "You are cleared!", or its text be that of the other
  (the exception in `ClearIsFinal`).
- `Restart` of `IdleReaper`: once the expiration passes the clock's modulus the walk
  never runs again, and idle connections stay (the exception in `ClearedInTime`).
- `WriteNode` and `Line`: a `:` in a key moves the boundary between key and value
  when the line is loaded; a line end in a value cuts it off there, and what follows may
  be loaded as a pair that nobody has set; a crash leaves a line in part, which is
  loaded as a pair with a shorter value.
- `Opened` and `AnswerOk`: `DUMP` and `LOAD` answer that all went well, also when the
  file could not be opened and nothing was written or read.
- `Restart` of `KVServer`: the constructor the server uses does not load the file.
- `ReadBlank`: a message of blanks takes the first word of none.
- `ReadCandidate`: an insertion between the descent and this step makes a search
  miss a key that was there all the time (the exception in `SearchIsExact`).

## Proofs

Each proof module extends its component and assumes only the named `ASSUME` of
its constants. Every safety property that a passing run checks, and both
refinements, are theorems for every value of the constants; `PROJECT.json` names
the theorem of each.

- `ReactorProofs`: `TypeOK` is inductive by itself. The invariant `IInv` adds
  `RegInv` (who may be between an `epoll_ctl` and its flag, and what is
  registered when a thread stands at each `pc`), `CallbackInv` (which callbacks
  are set how far into construction), `BuildInv` (Main and a loop share a
  connection only while it is built), `EventInv` (what is in `active` is
  registered and belongs to the loop) and `WakeInv` (readable implies pending).
  None of the checked properties is inductive alone: that a `DEL` succeeds
  depends on `in_epoll_` at the time of the `MOD` before it, on the delete
  callback being set only after `EnableRead` and `UseET`, and on one loop owning
  a descriptor. From `IInv`: `EpollNeverFails`, `FlagMirrorsEpoll`,
  `EventsAreFresh`, `WakeupsAreKept`, `LoopsDieInConstruction`. On top of it,
  `OrderInv` says where a client's chunks may be: what it has been sent, the send
  buffer, the read buffer and the socket hold rising numbers, each place's before
  the next one's (`Chain`), and what the loop is about to echo was not written
  before (`FreshInv`); hence `EchoIsInOrder`. `HalfIsIdle` rests on descriptors
  being taken two at a time (`ParityInv`) and on a lemma about `%` by an even
  number (`EvenDivisor`).
- `AsyncLoggingProofs`: `IInv` relates the number of buffers the backend holds to
  the number the front end has taken: a missing `nextBuffer_` implies a full
  buffer in `buffers_`, hence two buffers to recycle when two are missing. From
  it `BackendIsSafe`, for any capacity and any number of buffers. `NoLineIsLost`
  needs the lemmas about `FlattenSeq` (of nothing, of one more sequence, of a head
  and a rest) and `SpareInv`, that a buffer set aside is empty. `ImplementsFifo`
  follows step by step: `WriteBuffer` and `AppendLine` are steps of `LogFifo`, all
  others move lines between places whose concatenation stays as it is.
- `TimerQueueProofs`: `IInv` says that an expiration minus the clock is never
  less than the true time left (the clock only ever falls behind, by wrapping),
  and that only the node being run is marked deleted. From it
  `TimersAreNeverEarly` and `RepeatingTimersStay`. `TopInv` adds which node is on
  top at each `pc` and that the timerfd is armed for it, or is about to be; hence
  `TimerfdIsArmed`.
- `SkipListProofs`: `ListInv` says that on each level every node points to the
  first one behind it that belongs to the level (`OrderInv`), where a node that is
  half linked or half unlinked belongs to the levels done (`LinkedAt`); that
  `update[]` holds the last node before the key at every level (`WriterInv`); and
  what `_curLevel` and `_elementCount` are in between (`CountInv`). `ReaderInv`
  says that a search which no deletion overlaps stands on a linked node before its
  key, and has a value its key had in `seen` unless an insertion cut in
  (`OnCourse`). The code's walks are recursive functions; that they end where
  `OrderInv` says (`PredecessorsFact`, `WalkFact`) is shown by descent. From it
  `LevelsStayInOrder`, `LevelsAreComplete`, `SearchesAreExact`, and
  `ImplementsMap`: the change of the bottom level, or the assignment of a value, is
  the step of `KVMap`.
- `HttpServerProofs`: the parser against the meaning of a message. `ParseInv` says
  of a loop that nobody has disturbed (`Alone`) that `worker_` holds its message, of
  which it has read whole lines (`Progress`) that do not complete the request
  (`NoneComplete`); `OwedInv` that what the message calls for (`RepliesTo`) is what
  was sent and what is `Owed`; `ReplyInv` and `ShutdownInv` that a reply is followed
  by the shutdown before anything else can be sent. From it `RepliesAreRight`,
  `ReplyThenFin` and `ExitsAreExplained`, for any messages, connections and loops.
- `ThreadPoolProofs`: `PoolInv` adds to the types that `stop_` is set exactly from
  the destructor's first step on; hence `Add` cannot start a task behind `Join`,
  and no task outlives the pool, whoever uses it (`PoolIsSafe`).
- `KVServerProofs`: every step of the server is a step of the pool, leaves it alone,
  or starts a new process with a new pool (`StepsOfThePool`); with the pool's lemmas
  the same holds of the server, through any number of crashes and restarts
  (`NoSearchOutlivesPool`). `TypeInv` gives the types with what they rest on, among
  it that the keys are finite in number and totally ordered (`BeforeTotal`), so that
  there always is a next node or an end (`NextNode`). `AloneOK` and `StreamsFree` say
  that a `DUMP` or `LOAD` whose history records no overlap has its stream to itself
  and finds it closed. `LoadInv`: a `LOAD` that nothing overlaps has read whole lines
  up to some position of the file, and each pair up to there is in the list unless a
  later line has its key (`Loaded`); a line without a delimiter repeats the pair
  before it (`Repeats`), which changes nothing; one that could not open the file has
  inserted nothing (`NothingLoaded`). Hence `LoadsAreExact`, for every file. `DumpInv`:
  the file and what the stream holds back are together the lines of every pair the dump
  has passed (`Written`), passed being what is before its node. Functions `K`, `V` and
  `P` on the lines of the text say of each the pair it was written for and its place
  among the lines of that pair (`IsDump`); `FirstOfLines` says what the first of them
  gives. Every pair is one that a command inserts or `Simple`, of one line that is read
  as it was written (`SettableOK`, `LineIsSimple`), so that a line looks like one of a
  plain key only if it is the first that was written for it (`PlainLines`). A key that
  has no line was absent at some time, and if the list has not changed the lines are
  its pairs (`Agrees`). A `DUMP` that could not open the file leaves it alone
  (`NothingDumped`). A crash leaves a prefix of the lines, of which only the last can be
  torn (`LinesOfPrefix`). Hence `DumpsAreFaithful` and `TornDumpsCanBeLoaded`. Assumed
  of a command's words is only that they are not empty, and of `Order` that it holds `:`
  and the end of a line. An earlier statement of `DumpIsFaithful`, for keys without a
  `:` that nothing in the list looks like *now*, was false, which the proof attempt
  showed and no scenario of `kv_server` did.
- `IdleReaperProofs`: the clock, the threads and the connections need each other.
  `IInv` says of a connection that nobody but Main and the loop has it in hand once
  accepted (`NewInv`, `ThreadInv`); of two threads that take turns, that each finds
  its own text in the buffers (`SendInv`) and the registration it believes in
  (`RegInv`), until the histories `mixed` and `twice` tell that they have met, which
  takes a client that has gone (`TwiceInv`); of time, that a context is as old as
  the connection is quiet while the clock has not wrapped (`QuietInv`), that what
  `Judge` found stays true until the deletion (`JudgedInv`), that a walk looks at
  each connection once (`TodoInv`), and that before the clock's end Main is late by
  no more than its stall and every connected context is younger than a limit and a
  period before the next walk (`OnTimeInv`, `SeenInv`). `BothFrame` and
  `ElsewhereFrame` say once what a step leaves alone. From it `ExitsAreExplained`,
  `ClearIsLast` and `ClearsAreInTime`, for any number of connections, limit, period,
  modulus and stall.

Induction: the library's induction theorems take an operator as a parameter, which
the installed provers cannot instantiate. Where a proof goes along a recursive
function or a sequence, it takes the least number at which the claim fails, which
exists because `<` on the naturals is well founded (`Least`, `LeastRank`,
`LeastNumber`, `First`), and refutes it.

Only model-checked: the liveness properties `InputEventuallyRead`,
`LinesReachTheFile`, `StopReturns`, `TimerRunsOrIsLost`, `RequestIsAnswered` and
`CallsReturn`, for liveness under fairness and `ENABLED` are beyond the installed
provers; and the four properties that are violated.

## Not modelled, and the plan

The safety side of the plan is done. What is left to add: that `KVServer`'s map and
the one `SkipList` implements are the same is by construction of the two modules (an
insertion or deletion is one step in the one, and shown to be one in the other), and
not a theorem about their composition.

Not modelled: `ReadBlocking` and `WriteBlocking`, which only a client program uses,
and the client program itself; `TimerQueue`'s `handleExpiredEvent` and `update`,
which nothing calls; commands a loop reads after `exit()` has begun; a write to the
opened dump file that fails, as on a full disk.

Formatting (`LogStream`, `Logging`), `CurrentThread`, `Thread`'s names, address
conversion, `bind`/`listen`/`connect`, test drivers and generated build files are
left out: they have no state that the properties depend on.
