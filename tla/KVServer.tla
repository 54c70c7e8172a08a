------------------------------ MODULE KVServer ------------------------------
(***************************************************************************)
(* The storage server: every loop runs SkipListWorker::dealWithCmd on the  *)
(* one SkipList, its two file streams and the pool that searches for GET.  *)
(* The process may end at any time, killed or by exit(), and starts again  *)
(* with an empty list and whatever is in the file.                         *)
(*                                                                         *)
(* The list is the map that SkipList shows it to be; its levels and what a *)
(* search returns are modelled there.  A text is a sequence of symbols.    *)
(***************************************************************************)
EXTENDS ThreadPool, Sequences, FiniteSets

CONSTANTS
  Order,     \* the symbols of a text but blank and zero, in the order of their codes
  Scenarios, \* bound: what the loops may read, a set of sequences of words each
  Files,     \* bound: what the file may hold at first; none is an empty one
  Watched    \* the key whose values the history of a DUMP records

Loops == Callers

Delimiter == ":"
Eol == "eol"

ASSUME KVAssumption ==
  /\ Order \in Seq({Order[i] : i \in DOMAIN Order})
  /\ \E i \in DOMAIN Order : Order[i] = Delimiter
  /\ \E i \in DOMAIN Order : Order[i] = Eol
  /\ Scenarios \subseteq
       [Loops -> SUBSET Seq(Seq({Order[i] : i \in DOMAIN Order}) \ {<<>>})]
  /\ Files \subseteq Seq({Order[i] : i \in DOMAIN Order})

VARIABLES
  sends,     \* the scenario, chosen once
  db,        \* the pairs in the list: a function from its keys
  file,      \* the contents of STORE_FILE
  writer,    \* _fileWriter: is_open(), fail(), what it has not written yet
  reader,    \* _fileReader: is_open(), fail(), what it has read ahead, and how
             \* far it has read
  pc,        \* where each loop is in its handler
  cmd,       \* the name of the command it handles
  key, value,  \* the pair it is to insert or delete, <<>> if it has none
  node,      \* the key of dumpFile's node, End after the last
  cut,       \* the dumps whose node was freed, and the searches that a
             \* deletion has overlapped
  overlap,   \* history: what has overlapped a loop's DUMP or LOAD: "quiet" if
             \* nothing, "busy" if writers, "mixed" if another DUMP or LOAD;
             \* "failed" if no other did and its file could not be opened
  had,       \* history: the values of Watched during its DUMP, <<>> for none
  kept       \* history: the file when its DUMP could not open it

streamVars == <<file, writer, reader>>
handlerVars == <<pc, cmd, key, value, node, cut>>
historyVars == <<overlap, had, kept>>
serverVars == <<sends, db, streamVars, handlerVars, historyVars>>
vars == <<sends, poolVars, db, streamVars, handlerVars, historyVars>>

End == <<>>

Closed == [open |-> FALSE, fail |-> FALSE, buf |-> <<>>, pos |-> 0]

----------------------------------------------------------------------------
(* Texts *)

Code(a) == CHOOSE i \in DOMAIN Order : Order[i] = a

\* operator< of std::string
Before(s, t) ==
  \E n \in 0 .. Len(s) :
    /\ n < Len(t)
    /\ SubSeq(s, 1, n) = SubSeq(t, 1, n)
    /\ n = Len(s) \/ Code(s[n + 1]) < Code(t[n + 1])

Has(text, a) == \E i \in DOMAIN text : text[i] = a

\* find() of a symbol that is there.
Find(text, a) ==
  CHOOSE i \in DOMAIN text : text[i] = a /\ \A j \in 1 .. (i - 1) : text[j] # a

UpTo(text, i) == SubSeq(text, 1, i)
From(text, i) == SubSeq(text, i, Len(text))

\* What getline() takes from a text.
FirstLine(text) == IF Has(text, Eol) THEN UpTo(text, Find(text, Eol) - 1) ELSE text

\* What dumpFile writes for a node.
Line(k, v) == k \o <<Delimiter>> \o v \o <<Eol>>

\* get_key_value_from_string
KeyOf(line) == UpTo(line, Find(line, Delimiter) - 1)
ValueOf(line) == From(line, Find(line, Delimiter) + 1)

----------------------------------------------------------------------------
(* The list as other threads see it *)

\* Fault: a key that is there keeps its value.
KeptOld(k, v) == [x \in DOMAIN db \cup {k} |-> IF x \in DOMAIN db THEN db[x] ELSE v]

Inserted(k, v) == [x \in DOMAIN db \cup {k} |-> IF x = k THEN v ELSE db[x]]

Deleted(k) == [x \in DOMAIN db \ {k} |-> db[x]]

ValueIn(map, k) == IF k \in DOMAIN map THEN map[k] ELSE <<>>

\* The first of some keys on level 0.
FirstOf(keys) ==
  IF keys = {} THEN End
               ELSE CHOOSE k \in keys : \A x \in keys \ {k} : Before(k, x)

KeyAfter(k) == FirstOf({x \in DOMAIN db : Before(k, x)})

\* mtx is held from one step to the next only while a value is assigned.
Locked == \E l \in Loops : pc[l] = "assign"

InDump(l) == pc[l] = "dump"
InLoad(l) == cmd[l] = "LOAD" /\ pc[l] \in {"load", "insert", "assign"}

\* Not answered yet.
UnderWay(l) == pc[l] # "idle" /\ cmd[l] \in {"DUMP", "LOAD"}

\* Loop l has changed the list: that overlaps the other loops' DUMP and LOAD.
Recorded(l) ==
  /\ overlap' = [k \in Loops |->
       IF k # l /\ overlap[k] = "quiet" /\ UnderWay(k)
         THEN "busy" ELSE overlap[k]]
  /\ had' = [k \in Loops |-> IF InDump(k) /\ overlap[k] # "mixed"
                               THEN had[k] \cup {ValueIn(db', Watched)}
                               ELSE had[k]]
  /\ kept' = kept

----------------------------------------------------------------------------
(* The process ends and starts again *)

\* A new process.  The static list is made by the constructor that does not load
\* the file.
Restart ==
  /\ NewPool
  /\ sends' = sends
  /\ db' = [k \in {} |-> <<>>]
  /\ writer' = Closed /\ reader' = Closed
  /\ pc' = [l \in Loops |-> "idle"]
  /\ cmd' = [l \in Loops |-> "none"]
  /\ key' = [l \in Loops |-> <<>>]
  /\ value' = [l \in Loops |-> <<>>]
  /\ node' = [l \in Loops |-> End]
  /\ cut' = {}
  /\ overlap' = [l \in Loops |-> "quiet"]
  /\ had' = [l \in Loops |-> {}]
  /\ kept' = [l \in Loops |-> <<>>]

\* A signal: no command ends the server.  What the streams hold back is lost.
Kill == Restart /\ file' = file

\* exit() has destroyed the pool; ~SkipList closes the files.
EndExit ==
  /\ pool = "gone"
  /\ file' = file \o writer.buf
  /\ Restart

\* A dump reads a freed node, or a value that is being assigned.
ReadsRace(l) ==
  InDump(l) /\ (l \in cut \/ \E k \in Loops : pc[k] = "assign" /\ key[k] = node[l])

\* Undefined behaviour: the process ends, or the dump goes on behind the node, or
\* takes it for the last.  A search that reads a freed node ends like any other or
\* ends the process.
Undefined(l) ==
  \/ /\ ReadsRace(l) \/ (task[l] = "run" /\ l \in cut)
     /\ Kill
  \/ /\ ReadsRace(l)
     /\ node' \in {[node EXCEPT ![l] = k] : k \in {KeyAfter(node[l]), End}}
     /\ cut' = cut \ {l}
     /\ overlap' = [overlap EXCEPT ![l] = "mixed"]
     /\ UNCHANGED <<sends, poolVars, db, streamVars, pc, cmd, key, value, had, kept>>

----------------------------------------------------------------------------
(* parseCommand and the handlers *)

Goto(l, label) == pc' = [pc EXCEPT ![l] = label]

\* The handler returns.
Return(l) ==
  /\ Goto(l, "idle")
  /\ cmd' = [cmd EXCEPT ![l] = "none"]
  /\ key' = [key EXCEPT ![l] = <<>>]
  /\ value' = [value EXCEPT ![l] = <<>>]

\* The command is name, with as many words as its handler wants.
Is(words, name) ==
  /\ words # <<>>
  /\ words[1] = <<name>>
  /\ name = "SET" => Len(words) = 3
  /\ name \in {"GET", "DEL"} => Len(words) = 2

\* Loop l has read a command.  exit() destroys the handlers first.
Reads(l, words, name) ==
  /\ pc[l] = "idle"
  /\ pool = "up"
  /\ Is(words, name)
  /\ cmd' = [cmd EXCEPT ![l] = name]

\* A text without a word: parseCommand takes the first of none.
ReadBlank(l) == pc[l] = "idle" /\ <<>> \in sends[l] /\ Kill

\* Any other text is answered with an error.
Reject(l, words) ==
  /\ pc[l] = "idle"
  /\ words # <<>>
  /\ \A name \in {"SET", "GET", "DEL", "LOAD", "DUMP"} : ~Is(words, name)
  /\ UNCHANGED vars

ReadSet(l, words) ==
  /\ Reads(l, words, "SET")
  /\ key' = [key EXCEPT ![l] = words[2]]
  /\ value' = [value EXCEPT ![l] = words[3]]
  /\ Goto(l, "insert")
  /\ UNCHANGED <<sends, poolVars, db, streamVars, node, cut, historyVars>>

ReadDel(l, words) ==
  /\ Reads(l, words, "DEL")
  /\ key' = [key EXCEPT ![l] = words[2]]
  /\ Goto(l, "delete")
  /\ UNCHANGED <<sends, poolVars, db, streamVars, value, node, cut, historyVars>>

ReadGet(l, words) ==
  /\ Reads(l, words, "GET")
  /\ Goto(l, "add")
  /\ UNCHANGED <<sends, poolVars, db, streamVars, key, value, node, cut, historyVars>>

(* insertElement and deleteElement; handlerSET, handlerLOAD, handlerDEL *)

\* insertElement returns to handlerSET or loadFile.
Insertion(l) ==
  IF cmd[l] = "LOAD" THEN Goto(l, "load") /\ UNCHANGED <<cmd, key, value>>
                     ELSE Return(l)

InsertNew(l) ==
  /\ pc[l] = "insert"
  /\ ~Locked
  /\ key[l] \notin DOMAIN db
  /\ db' = Inserted(key[l], value[l])
  /\ Insertion(l)
  /\ Recorded(l)
  /\ UNCHANGED <<sends, poolVars, streamVars, node, cut>>

BeginAssign(l) ==
  /\ pc[l] = "insert"
  /\ ~Locked
  /\ key[l] \in DOMAIN db
  /\ Goto(l, "assign")
  /\ UNCHANGED <<sends, poolVars, db, streamVars, cmd, key, value, node, cut, historyVars>>

EndAssign(l) ==
  /\ pc[l] = "assign"
  /\ db' = Inserted(key[l], value[l])
  /\ Insertion(l)
  /\ Recorded(l)
  /\ UNCHANGED <<sends, poolVars, streamVars, node, cut>>

\* The node is freed under the dumps that stand on it, and perhaps under searches.
Delete(l) ==
  /\ pc[l] = "delete"
  /\ ~Locked
  /\ db' = Deleted(key[l])
  /\ cut' = IF key[l] \in DOMAIN db
              THEN cut \cup {k \in Loops : \/ InDump(k) /\ node[k] = key[l]
                                           \/ task[k] = "run"}
              ELSE cut
  /\ Return(l)
  /\ Recorded(l)
  /\ UNCHANGED <<sends, poolVars, streamVars, node>>

(* handlerGET *)

AddSearch(l) ==
  /\ pc[l] = "add"
  /\ Add(l)
  /\ Goto(l, "get")
  /\ UNCHANGED <<sends, db, streamVars, cmd, key, value, node, cut, historyVars>>

\* Add throws, out of the handlers and of Loop: the loop's thread ends.
AddThrows(l) ==
  /\ pc[l] = "add"
  /\ Refused
  /\ Goto(l, "dead")
  /\ UNCHANGED <<sends, poolVars, db, streamVars, cmd, key, value, node, cut, historyVars>>

\* searchElement returns, whatever it has found.
EndSearch(l) ==
  /\ EndTask(l)
  /\ cut' = cut \ {l}
  /\ UNCHANGED <<sends, db, streamVars, pc, cmd, key, value, node, historyVars>>

Get(l) ==
  /\ pc[l] = "get"
  /\ TakeResult(l)
  /\ Return(l)
  /\ UNCHANGED <<sends, db, streamVars, node, cut, historyVars>>

(* dumpFile *)

\* Fault: the file is opened for appending.
Appended == file

\* open() empties the file, if it opens it.
Truncated == IF ~writer.open /\ writer'.open THEN <<>> ELSE file

\* open() of a stream that is open sets failbit, and so does one that fails: no
\* directory, no permission, no descriptor left.  Otherwise it clears failbit.
Opened(stream) ==
  IF stream.open THEN {[stream EXCEPT !.fail = TRUE]}
                 ELSE {[Closed EXCEPT !.open = TRUE], [Closed EXCEPT !.fail = TRUE]}

\* What has overlapped a DUMP or LOAD that has called open().
Begun(others, stream) ==
  IF others # {} THEN "mixed" ELSE IF stream.open THEN "quiet" ELSE "failed"

\* Fault: the dump leaves out the first node.
SecondNode == KeyAfter(FirstOf(DOMAIN db))

\* _header->_forward[0]
FirstNode == FirstOf(DOMAIN db)

OpenWriter(l, words) ==
  LET others == {k \in Loops \ {l} : InDump(k)} IN
  /\ Reads(l, words, "DUMP")
  /\ writer' \in Opened(writer)
  /\ file' = Truncated
  /\ node' = [node EXCEPT ![l] = FirstNode]
  /\ overlap' = [k \in Loops |->
       CASE k = l -> Begun(others, writer')
         [] k # l /\ UnderWay(k) -> "mixed"
         [] OTHER -> overlap[k]]
  /\ had' = [k \in Loops |-> IF k = l /\ others = {}
                               THEN {ValueIn(db, Watched)} ELSE {}]
  /\ kept' = [k \in Loops |-> IF k = l /\ overlap'[l] = "failed" THEN file ELSE <<>>]
  /\ Goto(l, "dump")
  /\ UNCHANGED <<sends, poolVars, db, reader, key, value, cut>>

\* A line is buffered; the buffer is written when it is full, with some part of
\* the line.
WriteNode(l) ==
  LET k == node[l]
      line == Line(k, db[k])
  IN /\ InDump(l) /\ node[l] # End
     /\ ~ReadsRace(l)
     /\ IF writer.open /\ ~writer.fail
          THEN \E n \in 0 .. Len(line) :
                 /\ file' = IF n = 0 THEN file
                                     ELSE file \o writer.buf \o UpTo(line, n)
                 /\ writer' = [writer EXCEPT !.buf =
                      IF n = 0 THEN @ \o line ELSE From(line, n + 1)]
          ELSE UNCHANGED <<file, writer>>
     /\ node' = [node EXCEPT ![l] = KeyAfter(k)]
     /\ UNCHANGED <<sends, poolVars, db, reader, pc, cmd, key, value, cut, historyVars>>

\* flush() and close(): whoever opened it.
CloseWriter(l) ==
  /\ InDump(l) /\ node[l] = End
  /\ file' = file \o writer.buf
  /\ writer' = Closed
  /\ Goto(l, "dumped")
  /\ UNCHANGED <<sends, poolVars, db, reader, cmd, key, value, node, cut, historyVars>>

(* loadFile *)

OpenReader(l, words) ==
  LET loads == {k \in Loops \ {l} : InLoad(k)}
      dumps == {k \in Loops \ {l} : InDump(k)}
  IN /\ Reads(l, words, "LOAD")
     /\ reader' \in Opened(reader)
     /\ overlap' = [k \in Loops |->
          CASE k = l -> Begun(loads \cup dumps, reader')
            [] k \in loads -> "mixed"
            [] OTHER -> overlap[k]]
     /\ Goto(l, "load")
     /\ UNCHANGED <<sends, poolVars, db, file, writer, key, value, node, cut, had, kept>>

\* What getline() may read: what was read ahead, and the rest of the file if no
\* line of it is complete.
Unread == IF Has(reader.buf, Eol) THEN reader.buf
                                  ELSE reader.buf \o From(file, reader.pos + 1)

NothingToRead == ~reader.open \/ reader.fail \/ Unread = <<>>

\* Fault: a line without a value is inserted.
AnyPair(k, v) == k # <<>>

\* Lines with an empty key or value are skipped.
IsPair(k, v) == k # <<>> /\ v # <<>>

\* The next line; one that does not end is the last.  A line without a delimiter
\* leaves key and value as the line before has set them.
GetLine(l) ==
  LET line == FirstLine(Unread) IN
  /\ pc[l] = "load"
  /\ ~NothingToRead
  /\ reader' = [reader EXCEPT
       !.buf = From(Unread, Len(line) + 2),
       !.fail = ~Has(Unread, Eol),
       !.pos = IF Has(reader.buf, Eol) \/ @ > Len(file) THEN @ ELSE Len(file)]
  /\ IF Has(line, Delimiter)
       THEN /\ key' = [key EXCEPT ![l] = KeyOf(line)]
            /\ value' = [value EXCEPT ![l] = ValueOf(line)]
       ELSE UNCHANGED <<key, value>>
  /\ IF IsPair(key'[l], value'[l]) THEN Goto(l, "insert") ELSE UNCHANGED pc
  /\ UNCHANGED <<sends, poolVars, db, file, writer, cmd, node, cut, historyVars>>

CloseReader(l) ==
  /\ pc[l] = "load"
  /\ NothingToRead
  /\ reader' = Closed
  /\ Goto(l, "loaded")
  /\ UNCHANGED <<sends, poolVars, db, file, writer, cmd, key, value, node, cut, historyVars>>

\* handlerDUMP and handlerLOAD answer that all went well, whatever did.
AnswerOk(l) ==
  /\ pc[l] \in {"dumped", "loaded"}
  /\ Return(l)
  /\ overlap' = [overlap EXCEPT ![l] = "quiet"]
  /\ had' = [had EXCEPT ![l] = {}]
  /\ kept' = [kept EXCEPT ![l] = <<>>]
  /\ UNCHANGED <<sends, poolVars, db, streamVars, node, cut>>

----------------------------------------------------------------------------
Init ==
  /\ PoolInit
  /\ sends \in Scenarios
  /\ db = [k \in {} |-> <<>>]
  /\ file \in Files
  /\ writer = Closed /\ reader = Closed
  /\ pc = [l \in Loops |-> "idle"]
  /\ cmd = [l \in Loops |-> "none"]
  /\ key = [l \in Loops |-> <<>>]
  /\ value = [l \in Loops |-> <<>>]
  /\ node = [l \in Loops |-> End]
  /\ cut = {}
  /\ overlap = [l \in Loops |-> "quiet"]
  /\ had = [l \in Loops |-> {}]
  /\ kept = [l \in Loops |-> <<>>]

Read(l) ==
  \/ ReadBlank(l)
  \/ \E words \in sends[l] :
    \/ ReadSet(l, words) \/ ReadDel(l, words) \/ ReadGet(l, words)
    \/ OpenWriter(l, words) \/ OpenReader(l, words) \/ Reject(l, words)

\* GET and DUMP, which take no lock.
ReaderStep(l) ==
  \/ AddSearch(l) \/ AddThrows(l) \/ Get(l)
  \/ WriteNode(l) \/ CloseWriter(l)
  \/ Undefined(l)

HandlerStep(l) ==
  \/ InsertNew(l) \/ BeginAssign(l) \/ EndAssign(l) \/ Delete(l)
  \/ ReaderStep(l)
  \/ GetLine(l) \/ CloseReader(l) \/ AnswerOk(l)

\* The thread that has called exit().
ExitStep == ((NotifyWorkers \/ Join) /\ UNCHANGED serverVars) \/ EndExit

\* What the pool does by itself.
PoolStep ==
  /\ \/ WorkerStep \/ SetStop
     \/ \E w \in Workers : SpuriousWakeup(w)
  /\ UNCHANGED serverVars

Next ==
  \/ \E l \in Loops : Read(l) \/ HandlerStep(l) \/ EndSearch(l)
  \/ PoolStep
  \/ Kill \/ ExitStep

Spec == Init /\ [][Next]_vars

\* The operating system schedules every thread.  A client may be silent, and a
\* lock may go to others for ever: no fairness for what waits for them.
FairSpec ==
  /\ Spec
  /\ \A l \in Loops : WF_vars(ReaderStep(l)) /\ WF_vars(EndSearch(l))
  /\ \A w \in Workers : WF_vars(TestStop(w) /\ UNCHANGED serverVars)
  /\ WF_vars(ExitStep)

----------------------------------------------------------------------------
(* Properties *)

Symbols == {Order[i] : i \in DOMAIN Order}

\* Every variable keeps its type; a handler that inserts has a whole pair.
TypeOK ==
  /\ PoolTypeOK
  /\ sends \in Scenarios
  /\ db \in [DOMAIN db -> Seq(Symbols)]
  /\ DOMAIN db \subseteq Seq(Symbols) \ {<<>>}
  /\ file \in Seq(Symbols)
  /\ {writer, reader} \subseteq
       [open : BOOLEAN, fail : BOOLEAN, buf : Seq(Symbols), pos : Nat]
  /\ pc \in [Loops -> {"idle", "insert", "assign", "delete", "add", "get", "dead",
                       "dump", "dumped", "load", "loaded"}]
  /\ cmd \in [Loops -> {"none", "SET", "GET", "DEL", "LOAD", "DUMP"}]
  /\ {key, value, node} \subseteq [Loops -> Seq(Symbols)]
  /\ \A l \in Loops : pc[l] \in {"insert", "assign"} => <<>> \notin {key[l], value[l]}
  /\ cut \subseteq Loops
  /\ overlap \in [Loops -> {"quiet", "busy", "mixed", "failed"}]
  /\ had \in [Loops -> SUBSET Seq(Symbols)]
  /\ kept \in [Loops -> Seq(Symbols)]

\* The lines of a text that end, in order.
Ends(text) == {i \in DOMAIN text : text[i] = Eol}
LineStarts(text) == {i \in DOMAIN text : i = 1 \/ text[i - 1] = Eol}
LineAt(text, i) ==
  LET ends == {j \in Ends(text) : j >= i} IN
  IF ends = {} THEN From(text, i)
               ELSE SubSeq(text, i, (CHOOSE j \in ends : \A k \in ends : j <= k) - 1)

\* What loading a text is to give: the last line with a key counts.
Pairs(text) ==
  LET good == {i \in LineStarts(text) :
                 /\ Has(LineAt(text, i), Delimiter)
                 /\ KeyOf(LineAt(text, i)) # <<>>
                 /\ ValueOf(LineAt(text, i)) # <<>>}
  IN [k \in {KeyOf(LineAt(text, i)) : i \in good} |->
        LET i == CHOOSE i \in good :
                   /\ KeyOf(LineAt(text, i)) = k
                   /\ \A j \in good : KeyOf(LineAt(text, j)) = k => j <= i
        IN ValueOf(LineAt(text, i))]

\* A key that a line can carry, and that no other line of some pairs looks to be of:
\* neither that of a key with a delimiter nor a later one of a pair with line ends.
Plain(k, pairs) ==
  /\ ~Has(k, Delimiter) /\ ~Has(k, Eol)
  /\ \A p \in pairs : LET text == Line(p[1], p[2]) IN
       \A i \in LineStarts(text) :
         Has(LineAt(text, i), Delimiter) /\ KeyOf(LineAt(text, i)) = k => p[1] = k /\ i = 1

PairsIn(map) == {<<k, map[k]>> : k \in DOMAIN map}

\* The pairs that commands insert.  Those that a LOAD inserts come from one line, and
\* their keys have no delimiter.
Settable ==
  {<<words[2], words[3]>> :
     words \in {words \in UNION {sends[l] : l \in Loops} : Is(words, "SET")}}

\* The part of a text whose lines end.
Whole(text) ==
  UpTo(text, IF Ends(text) = {} THEN 0
             ELSE CHOOSE i \in Ends(text) : \A j \in Ends(text) : j <= i)

\* A DUMP that no other DUMP overlaps gives each key that was there all the
\* time one line, and no key a value it did not have meanwhile, whatever the
\* other loops insert, assign and delete under it; of a value with line ends the
\* line has what is before the first.  One that cannot open the file leaves it as
\* it was.
DumpIsFaithful ==
  \A l \in Loops :
    /\ pc[l] = "dumped" /\ overlap[l] \notin {"mixed", "failed"} /\ Plain(Watched, Settable) =>
         LET lines == {i \in LineStarts(file) : /\ Has(LineAt(file, i), Delimiter)
                                                /\ KeyOf(LineAt(file, i)) = Watched}
         IN /\ Cardinality(lines) <= 1
            /\ lines = {} => <<>> \in had[l]
            /\ \A i \in lines : \E v \in had[l] \ {<<>>} :
                 ValueOf(LineAt(file, i)) = FirstLine(v)
    /\ overlap[l] = "failed" /\ cmd[l] = "DUMP" => file = kept[l]

\* What a crash in the middle of a DUMP that nothing overlaps leaves: the lines
\* that are whole can be loaded and give each plain key its value, up to the first
\* line end in it.  When the DUMP is done, all of them are there whose value does
\* not begin with one.
DumpCanBeLoaded ==
  \A l \in Loops :
    overlap[l] = "quiet" =>
      /\ InDump(l) \/ pc[l] = "dumped" =>
           \A k \in DOMAIN Pairs(Whole(file)) :
             Plain(k, PairsIn(db)) => Pairs(file)[k] = FirstLine(ValueIn(db, k))
      /\ pc[l] = "dumped" =>
           \A k \in DOMAIN db :
             Plain(k, PairsIn(db)) /\ FirstLine(db[k]) # <<>> => k \in DOMAIN Pairs(Whole(file))

\* A LOAD that nothing overlaps gives the list every pair of the file, the torn
\* line of a crash and lines without a delimiter notwithstanding.  One that cannot
\* open the file inserts nothing.
LoadIsExact ==
  \A l \in Loops :
    /\ pc[l] = "loaded" /\ overlap[l] = "quiet" =>
         \A k \in DOMAIN Pairs(file) : ValueIn(db, k) = Pairs(file)[k]
    /\ overlap[l] = "failed" /\ cmd[l] = "LOAD" => pc[l] \notin {"insert", "assign"}

\* GET and DUMP take no lock: they return although others change the list under
\* them and hold it, unless the process ends or Add has no thread to give.
ReadersReturn ==
  \A l \in Loops : pc[l] \in {"add", "get", "dump"} ~> pc[l] \in {"idle", "dumped", "dead"}

\* exit() comes to its end: ~ThreadPool wakes every worker, wherever it is between
\* its test of stop_ and its wait, and joins them and the searches.
ExitEnds == pool = "stopped" ~> pool = "up"

\* No thread waits for ever for a search, for a node to come or for another thread
\* to be joined: calls without a lock return, and so does exit().
CallsReturn == ReadersReturn /\ ExitEnds
=============================================================================
