------------------------------ MODULE SkipList ------------------------------
(***************************************************************************)
(* The skip list of the storage engine.  insertElement and deleteElement   *)
(* hold the global mutex mtx; searchElement takes no lock and reads the    *)
(* list while another thread changes it.                                   *)
(*                                                                         *)
(* A writer's own search is one step, for only the holder of mtx changes   *)
(* the list; each change another thread can see is a step of its own.  A   *)
(* searching thread changes nothing, so one stands for any number.  Keys   *)
(* are integers: std::string compares as a total order.                    *)
(***************************************************************************)
EXTENDS Integers, Sequences, FiniteSets

CONSTANTS
  Keys,      \* the keys in use, integers
  Values,    \* the values in use
  Absent,    \* no value
  Nodes,     \* bound: cells the allocator hands out, freed ones again
  Header,    \* _header
  Nil,       \* nullptr
  MaxLevel,  \* _maxLevel
  Searched   \* bound: the keys that are searched for

ASSUME SkipListAssumption ==
  /\ Keys \subseteq Int
  /\ Absent \notin Values
  /\ Header \notin Nodes /\ Nil \notin Nodes \cup {Header}
  /\ MaxLevel \in Nat
  /\ Searched \subseteq Keys

VARIABLES
  (* the list *)
  alive,     \* the nodes that are allocated
  key, value, height,  \* Node::_key, _value, _nodeLevel
  forward,   \* Node::_forward
  curLevel,  \* _curLevel
  count,     \* _elementCount
  (* the thread that holds mtx *)
  wpc,       \* where it is: "idle", "assign", "link", "unlink", "shrink"
  wnode,     \* the node it inserts, deletes or gives a new value
  wvalue,    \* the new value
  wlevel,    \* the level it is at
  update,    \* update[]
  answer,    \* what the latest insertElement or deleteElement found
  (* a thread in searchElement *)
  rpc,       \* where it is
  rkey, rlevel,
  rnode,     \* current
  rnext,     \* the node after it, as it was read
  result,    \* what it returns
  seen,      \* history: what its key has mapped to since it started
  overlap    \* history: since it started, the list is "same", a node was
             \* linked ("grown") or one was unlinked ("cut")

listVars == <<alive, key, value, height, forward, curLevel, count>>
writerVars == <<wpc, wnode, wvalue, wlevel, update, answer>>
readerVars == <<rpc, rkey, rlevel, rnode, rnext, result>>
vars == <<listVars, writerVars, readerVars, seen, overlap>>

Levels == 0 .. MaxLevel
Places == Nodes \cup {Header}

----------------------------------------------------------------------------
(* The writer's search *)

\* From n along level i to the last node before k.
Advance(i, k) ==
  LET last[n \in Places] == LET m == forward[n][i] IN
                            IF m # Nil /\ key[m] < k THEN last[m] ELSE n
  IN last

\* The update array: each level's search starts where the one above it ended.
Predecessors(k) ==
  LET pred[i \in Levels] ==
        IF i > curLevel
          THEN Header
          ELSE Advance(i, k)[IF i = curLevel THEN Header ELSE pred[i + 1]]
  IN pred

\* current after the search: the first node not before k.
Candidate(k) == forward[Predecessors(k)[0]][0]

Holds(n, k) == n # Nil /\ key[n] = k

\* mtx.unlock() and return: the operation's locals are gone.
Unlock ==
  /\ wpc' = "idle" /\ wnode' = Nil /\ wvalue' = Absent /\ wlevel' = 0
  /\ update' = [i \in Levels |-> Header]

----------------------------------------------------------------------------
(* insertElement *)

\* The key exists: setValue, which takes time.
BeginAssign(k, v) ==
  /\ wpc = "idle"
  /\ Holds(Candidate(k), k)
  /\ wpc' = "assign"
  /\ wnode' = Candidate(k)
  /\ wvalue' = v
  /\ UNCHANGED <<listVars, wlevel, update, answer, readerVars>>

EndAssign ==
  /\ wpc = "assign"
  /\ value' = [value EXCEPT ![wnode] = wvalue]
  /\ answer' = "present"
  /\ Unlock
  /\ UNCHANGED <<alive, key, height, forward, curLevel, count, readerVars>>

\* Fault: the random level is not cut at _maxLevel.
RandomLevelUncut == 0 .. (MaxLevel + 1)

\* What getRandomLevel may return.
RandomLevel == Levels

\* Fault: _curLevel is not raised.
KeptLevel(h) == curLevel

\* A node higher than the list raises it.
RaisedLevel(h) == IF h > curLevel THEN h ELSE curLevel

\* A new key: a node of random height, not linked yet.
CreateNode(k, v) ==
  /\ wpc = "idle"
  /\ ~Holds(Candidate(k), k)
  /\ \E n \in Nodes \ alive, h \in RandomLevel :
       /\ alive' = alive \cup {n}
       /\ key' = [key EXCEPT ![n] = k]
       /\ value' = [value EXCEPT ![n] = v]
       /\ height' = [height EXCEPT ![n] = h]
       /\ wnode' = n
       /\ curLevel' = RaisedLevel(h)
  /\ update' = Predecessors(k)
  /\ wlevel' = 0
  /\ wpc' = "link"
  /\ UNCHANGED <<forward, count, wvalue, answer, readerVars>>

\* Fault: what follows the new node is cut off.
LinkedCut(n, i) == [forward EXCEPT ![update[i]][i] = n]

\* The new node is linked in after its predecessor; it is complete at a level
\* before it can be reached there.
Linked(n, i) == [forward EXCEPT ![n][i] = forward[update[i]][i],
                                ![update[i]][i] = n]

Link ==
  /\ wpc = "link"
  /\ forward' = Linked(wnode, wlevel)
  /\ answer' = "absent"
  /\ IF wlevel < height[wnode]
       THEN /\ wlevel' = wlevel + 1
            /\ UNCHANGED <<count, wpc, wnode, wvalue, update>>
       ELSE count' = count + 1 /\ Unlock
  /\ UNCHANGED <<alive, key, value, height, curLevel, readerVars>>

----------------------------------------------------------------------------
(* deleteElement *)

DeleteMissing(k) ==
  /\ wpc = "idle"
  /\ ~Holds(Candidate(k), k)
  /\ answer' = "absent"
  /\ UNCHANGED <<listVars, wpc, wnode, wvalue, wlevel, update, readerVars>>

BeginDelete(k) ==
  /\ wpc = "idle"
  /\ Holds(Candidate(k), k)
  /\ wnode' = Candidate(k)
  /\ update' = Predecessors(k)
  /\ wlevel' = 0
  /\ wpc' = "unlink"
  /\ UNCHANGED <<listVars, wvalue, answer, readerVars>>

\* Fault: only the lowest level is unlinked.
UnlinkDoneEarly == wlevel > 0

\* Past the highest level, or past the height of the node.
UnlinkDone == wlevel <= curLevel => forward[update[wlevel]][wlevel] # wnode

Unlink ==
  /\ wpc = "unlink"
  /\ ~UnlinkDone
  /\ forward' = [forward EXCEPT ![update[wlevel]][wlevel] =
                                  forward[wnode][wlevel]]
  /\ answer' = "present"
  /\ wlevel' = wlevel + 1
  /\ UNCHANGED <<alive, key, value, height, curLevel, count, wpc, wnode, wvalue,
                 update, readerVars>>

\* delete current: what the cell held is no longer to be read.
Free ==
  /\ wpc = "unlink"
  /\ UnlinkDone
  /\ alive' = alive \ {wnode}
  /\ key' = [key EXCEPT ![wnode] = 0]
  /\ value' = [value EXCEPT ![wnode] = Absent]
  /\ height' = [height EXCEPT ![wnode] = 0]
  /\ forward' = [forward EXCEPT ![wnode] = [i \in Levels |-> Nil]]
  /\ wpc' = "shrink"
  /\ UNCHANGED <<curLevel, count, wnode, wvalue, wlevel, update, answer,
                 readerVars>>

\* Levels that have become empty are dropped from the top.
Shrink ==
  /\ wpc = "shrink"
  /\ curLevel' = CHOOSE i \in 0 .. curLevel :
                   /\ i = 0 \/ forward[Header][i] # Nil
                   /\ \A j \in (i + 1) .. curLevel : forward[Header][j] = Nil
  /\ count' = count - 1
  /\ Unlock
  /\ UNCHANGED <<alive, key, value, height, forward, answer, readerVars>>

----------------------------------------------------------------------------
(* searchElement.  Reading through a null or freed pointer ("freed"), or a  *)
(* value that is being assigned ("torn"), is undefined behaviour: the model *)
(* gives the process up.                                                   *)

Valid(n) == n \in alive \cup {Header}

\* n->_forward[i] may be read: a cell in use again may be lower than before.
HasLevel(n, i) == n = Header \/ (n \in alive /\ i <= height[n])

RGoto(label) == /\ rpc' = label
                /\ UNCHANGED <<rkey, rlevel, rnode, rnext, result>>

ReadFreed == RGoto("freed")

StartSearch(k) ==
  /\ rpc = "idle"
  /\ rkey' = k
  /\ rlevel' = curLevel
  /\ rnode' = Header
  /\ rpc' = "test"
  /\ UNCHANGED <<rnext, result>>

\* This level is done: go on one level down, or to the candidate.
LevelDone ==
  IF rlevel > 0
    THEN /\ rlevel' = rlevel - 1 /\ rpc' = "test"
         /\ UNCHANGED <<rkey, rnode, rnext, result>>
    ELSE RGoto("candidate")

\* current->_forward[i] != nullptr
TestNext ==
  /\ rpc = "test"
  /\ \/ ~HasLevel(rnode, rlevel) /\ ReadFreed
     \/ /\ HasLevel(rnode, rlevel) /\ forward[rnode][rlevel] = Nil
        /\ LevelDone
     \/ /\ HasLevel(rnode, rlevel) /\ forward[rnode][rlevel] # Nil
        /\ rnext' = forward[rnode][rlevel]
        /\ rpc' = "compare"
        /\ UNCHANGED <<rkey, rlevel, rnode, result>>

\* current->_forward[i]->getKey() < key
CompareNext ==
  /\ rpc = "compare"
  /\ \/ ~Valid(rnext) /\ ReadFreed
     \/ Valid(rnext) /\ key[rnext] < rkey /\ RGoto("advance")
     \/ Valid(rnext) /\ key[rnext] >= rkey /\ LevelDone

\* current = current->_forward[i], read once more.
AdvanceNext ==
  /\ rpc = "advance"
  /\ \/ ~HasLevel(rnode, rlevel) /\ ReadFreed
     \/ /\ HasLevel(rnode, rlevel)
        /\ rnode' = forward[rnode][rlevel]
        /\ rpc' = "test"
        /\ UNCHANGED <<rkey, rlevel, rnext, result>>

\* current = current->_forward[0]
ReadCandidate ==
  /\ rpc = "candidate"
  /\ \/ ~Valid(rnode) /\ ReadFreed
     \/ /\ Valid(rnode)
        /\ rnext' = forward[rnode][0]
        /\ rpc' = "match"
        /\ UNCHANGED <<rkey, rlevel, rnode, result>>

Return(v) == /\ result' = v
             /\ rpc' = "done"
             /\ UNCHANGED <<rkey, rlevel, rnode, rnext>>

\* Fault: the candidate's key is not compared.
MatchAny ==
  /\ rpc = "match"
  /\ \/ rnext = Nil /\ Return(Absent)
     \/ rnext # Nil /\ RGoto("value")

MatchCandidate ==
  /\ rpc = "match"
  /\ \/ rnext = Nil /\ Return(Absent)
     \/ rnext # Nil /\ ~Valid(rnext) /\ ReadFreed
     \/ Valid(rnext) /\ key[rnext] # rkey /\ Return(Absent)
     \/ Valid(rnext) /\ key[rnext] = rkey /\ RGoto("value")

ReadValue ==
  /\ rpc = "value"
  /\ \/ ~Valid(rnext) /\ ReadFreed
     \/ Valid(rnext) /\ wpc = "assign" /\ wnode = rnext /\ RGoto("torn")
     \/ Valid(rnext) /\ ~(wpc = "assign" /\ wnode = rnext) /\ Return(value[rnext])

EndSearch ==
  /\ rpc = "done"
  /\ rpc' = "idle" /\ rkey' = 0 /\ rlevel' = 0
  /\ rnode' = Header /\ rnext' = Nil /\ result' = Absent

----------------------------------------------------------------------------
Init ==
  /\ alive = {}
  /\ key = [n \in Nodes |-> 0]
  /\ value = [n \in Nodes |-> Absent]
  /\ height = [n \in Nodes |-> 0]
  /\ forward = [n \in Places |-> [i \in Levels |-> Nil]]
  /\ curLevel = 0
  /\ count = 0
  /\ wpc = "idle" /\ wnode = Nil /\ wvalue = Absent /\ wlevel = 0
  /\ update = [i \in Levels |-> Header]
  /\ answer = "none"
  /\ rpc = "idle" /\ rkey = 0 /\ rlevel = 0
  /\ rnode = Header /\ rnext = Nil /\ result = Absent
  /\ seen = {} /\ overlap = "same"

\* The nodes that a walk along level i comes to.
Level(i) ==
  LET from[n \in Nodes \cup {Nil}] == IF n = Nil THEN {}
                                      ELSE {n} \cup from[forward[n][i]]
  IN from[forward[Header][i]]

\* The map the lowest level stands for.
Map ==
  LET lowest == Level(0) IN
  [k \in Keys |-> IF \E n \in lowest : key[n] = k
                    THEN value[CHOOSE n \in lowest : key[n] = k]
                    ELSE Absent]

\* The histories of the search that is running.
Observe ==
  IF rpc' = "idle"
    THEN seen' = {} /\ overlap' = "same"
    ELSE /\ IF rpc # "idle" /\ listVars' = listVars
              THEN seen' = seen
              ELSE seen' = seen \cup {Map'[rkey']}
         /\ overlap' = IF overlap = "cut" \/ "unlink" \in {wpc, wpc'} THEN "cut"
                       ELSE IF overlap = "same" /\ forward' = forward THEN "same"
                       ELSE "grown"

Insert ==
  \/ \E k \in Keys, v \in Values : BeginAssign(k, v) \/ CreateNode(k, v)
  \/ EndAssign \/ Link

Delete ==
  \/ \E k \in Keys : DeleteMissing(k) \/ BeginDelete(k)
  \/ Unlink \/ Free \/ Shrink

Search ==
  /\ \/ \E k \in Searched : StartSearch(k)
     \/ TestNext \/ CompareNext \/ AdvanceNext
     \/ ReadCandidate \/ MatchCandidate \/ ReadValue \/ EndSearch
  /\ UNCHANGED <<listVars, writerVars>>

Next == rpc \notin {"freed", "torn"} /\ (Insert \/ Delete \/ Search) /\ Observe

Spec == Init /\ [][Next]_vars

----------------------------------------------------------------------------
(* Properties *)

\* Every variable keeps its type.
TypeOK ==
  /\ alive \in SUBSET Nodes
  /\ key \in [Nodes -> Keys \cup {0}]
  /\ value \in [Nodes -> Values \cup {Absent}]
  /\ height \in [Nodes -> Levels]
  /\ forward \in [Places -> [Levels -> Nodes \cup {Nil}]]
  /\ curLevel \in Levels
  /\ count \in Nat
  /\ wpc \in {"idle", "assign", "link", "unlink", "shrink"}
  /\ wnode \in Nodes \cup {Nil}
  /\ wvalue \in Values \cup {Absent}
  /\ wlevel \in 0 .. (MaxLevel + 1)
  /\ update \in [Levels -> Places]
  /\ answer \in {"none", "present", "absent"}
  /\ rpc \in {"idle", "test", "compare", "advance", "candidate", "match",
              "value", "done", "freed", "torn"}
  /\ rkey \in Keys \cup {0}
  /\ rlevel \in Levels
  /\ rnode \in Places \cup {Nil}
  /\ rnext \in Nodes \cup {Nil}
  /\ result \in Values \cup {Absent}
  /\ seen \subseteq Values \cup {Absent}
  /\ overlap \in {"same", "grown", "cut"}

\* At any moment, in the middle of an insertion or deletion too, each level is
\* in key order without duplicates and leads to no freed node.
LevelsInOrder ==
  \A i \in Levels : \A n \in Level(i) :
    /\ n \in alive
    /\ forward[n][i] # Nil => key[n] < key[forward[n][i]]

\* Between operations nothing is leaked or half linked: a level holds just the
\* nodes at least that high, _curLevel is the height of the highest node and
\* _elementCount the number of nodes.
LevelsComplete ==
  wpc = "idle" =>
    /\ \A i \in Levels : Level(i) = {n \in alive : height[n] >= i}
    /\ \A n \in alive : height[n] <= curLevel
    /\ curLevel > 0 => \E n \in alive : height[n] = curLevel
    /\ count = Cardinality(alive)

\* The writers see a map: an insertion takes effect when it links the lowest
\* level or assigns, a deletion when it unlinks the lowest level, and each
\* answers what it found.
Engine == INSTANCE KVMap WITH map <- Map

IsMap == Engine!Spec

\* A search that no deletion overlaps is not led astray far: it returns a value
\* its key had while it ran, or rightly reports the key absent, unless a node was
\* inserted under it.
SearchIsExact ==
  rpc = "done" /\ overlap # "cut" =>
    result \in seen \/ (result = Absent /\ overlap = "grown")

(* Statements of the repository that the code does not keep *)

\* README.md:5, a storage engine that supports insertion, deletion and queries
\* on a multi-threaded network library: a query reads no deleted node.
SearchReadsLiveNodes == rpc # "freed"
=============================================================================
