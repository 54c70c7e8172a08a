--------------------------- MODULE SkipListProofs ---------------------------
(* Theorems about SkipList, for every value of its constants. *)
EXTENDS SkipList, FiniteSetTheorems, WellFoundedInduction, TLAPS

----------------------------------------------------------------------------
(* One level: a set L of nodes, linked by the successor function f in the    *)
(* order of their keys K.                                                    *)

\* n comes after p in the order of the keys; everything comes after the header.
After(K, p, n) == p = Header \/ K[p] < K[n]

\* m is the first of L after p, or Nil if there is none.
FirstAfter(L, K, p, m) ==
  /\ m \in L \cup {Nil}
  /\ m # Nil => After(K, p, m)
  /\ \A n \in L : After(K, p, n) => m # Nil /\ K[m] <= K[n]

\* p is the last of L before k, or the header.
LastBefore(L, K, k, p) ==
  /\ p \in L \cup {Header}
  /\ p # Header => K[p] < k
  /\ \A n \in L : K[n] < k => p # Header /\ K[n] <= K[p]

Sorted(L, f, K) == \A p \in L \cup {Header} : FirstAfter(L, K, p, f[p])

----------------------------------------------------------------------------
(* The invariant *)

\* The types of the list and of what the writer keeps.
ListTypeOK ==
  /\ alive \in SUBSET Nodes
  /\ key \in [Nodes -> Keys \cup {0}]
  /\ value \in [Nodes -> Values \cup {Absent}]
  /\ height \in [Nodes -> Levels]
  /\ forward \in [Places -> [Levels -> Nodes \cup {Nil}]]
  /\ curLevel \in Levels
  /\ count \in Nat
  /\ wpc \in {"idle", "assign", "link", "unlink", "shrink"}
  /\ wnode \in Nodes \cup {Nil}
  /\ wvalue \in Values \cup {Absent}
  /\ wlevel \in 0 .. (MaxLevel + 1)
  /\ update \in [Levels -> Places]
  /\ answer \in {"none", "present", "absent"}

\* The nodes that are linked in at level i: the one being inserted is linked in
\* from below, the one being deleted is taken out from below.
LinkedAt(i) ==
  {n \in alive : /\ i <= height[n]
                 /\ wpc = "link" /\ n = wnode => i < wlevel
                 /\ wpc = "unlink" /\ n = wnode => i >= wlevel}

\* The pointers of level i.
Pointers(i) == [p \in Places |-> forward[p][i]]

\* Every level is sorted; no two nodes have the same key.
OrderInv ==
  /\ \A i \in Levels : Sorted(LinkedAt(i), Pointers(i), key)
  /\ \A m, n \in alive : key[m] = key[n] => m = n
  /\ \A n \in alive : key[n] \in Keys /\ value[n] \in Values /\ height[n] <= curLevel

\* A cell's pointers are null until it is linked in.
NullInv ==
  \A n \in Nodes, i \in Levels :
    \/ n \notin alive
    \/ i > height[n]
    \/ wpc = "link" /\ n = wnode /\ i >= wlevel
    => forward[n][i] = Nil

\* What the thread that holds mtx knows.
WriterInv ==
  /\ wpc = "assign" => wnode \in alive /\ wvalue \in Values
  /\ wpc \in {"link", "unlink"} =>
       /\ wnode \in alive
       /\ \A i \in Levels : LastBefore(LinkedAt(i), key, key[wnode], update[i])
  /\ wpc = "link" => /\ wlevel <= height[wnode]
                     /\ wlevel > 0 => answer = "absent"
  /\ wpc = "unlink" => /\ wlevel <= height[wnode] + 1
                       /\ wlevel > 0 => answer = "present"
  \* The pointers of a node that is taken out stay.
  /\ wpc = "unlink" =>
       \A i \in Levels : i < wlevel =>
         FirstAfter(LinkedAt(i), key, wnode, forward[wnode][i])

\* _elementCount and _curLevel, as far as the operation has come.
CountInv ==
  /\ IsFiniteSet(alive)
  /\ Cardinality(alive) = CASE wpc = "link" -> count + 1
                            [] wpc = "shrink" -> count - 1
                            [] OTHER -> count
  /\ wpc # "shrink" /\ curLevel > 0 => \E n \in alive : height[n] = curLevel

ListInv == OrderInv /\ NullInv /\ WriterInv /\ CountInv

\* The nodes of each level.
Chain == [i \in Levels |-> LinkedAt(i)]

\* Where a search stands that no deletion has overlapped: it is on its level, at
\* a node before its key, and reads no freed node.
OnCourse ==
  /\ rpc = "idle" \/ wpc # "unlink"
  /\ rpc \in {"test", "compare", "advance", "candidate"} =>
       /\ rnode \in Chain[rlevel] \cup {Header}
       /\ rnode # Header => key[rnode] < rkey
  /\ rpc = "compare" => /\ rnext \in Chain[rlevel]
                        /\ After(key, rnode, rnext)
                        /\ overlap = "same" => rnext = forward[rnode][rlevel]
  /\ rpc = "advance" => /\ forward[rnode][rlevel] # Nil
                        /\ key[forward[rnode][rlevel]] < rkey
  /\ rpc = "candidate" => /\ rlevel = 0
                          /\ overlap = "same" => LastBefore(Chain[0], key, rkey, rnode)
  /\ rpc = "match" =>
       /\ rnext \in Chain[0] \cup {Nil}
       /\ overlap = "same" /\ (rnext = Nil \/ key[rnext] # rkey) => Map[rkey] = Absent
  /\ rpc = "value" => rnext \in Chain[0] /\ key[rnext] = rkey
  /\ rpc = "done" => result \in seen \/ (result = Absent /\ overlap = "grown")
  /\ rpc # "freed"

ReaderInv ==
  /\ rpc = "idle" => overlap = "same" /\ seen = {}
  /\ rpc # "idle" => rkey \in Keys /\ Map[rkey] \in seen
  /\ overlap # "cut" => OnCourse

IInv == TypeOK /\ ListInv /\ ReaderInv
----------------------------------------------------------------------------
(* Numbers *)

Below == {pair \in Nat \X Nat : pair[1] < pair[2]}

\* A set that is not empty has an element of least rank.
LEMMA LeastRank ==
  ASSUME NEW S, S # {}, NEW rank \in [S -> Nat]
  PROVE  \E x \in S : \A y \in S : rank[x] <= rank[y]
<1> DEFINE T == {rank[x] : x \in S}
<1>1. IsWellFoundedOn(Below, Nat)
  BY NatLessThanWellFounded DEF OpToRel, Below
<1>2. T \in SUBSET Nat /\ T # {}
  OBVIOUS
<1>3. \E n \in T : \A m \in T : <<m, n>> \notin Below
  <2> HIDE DEF T
  <2> QED
    BY <1>1, <1>2, WFMin
<1>4. \A m, n \in Nat : <<m, n>> \in Below <=> m < n
  BY DEF Below
<1>5. PICK n \in T : \A m \in T : ~(m < n)
  BY <1>2, <1>3, <1>4
<1>6. PICK x \in S : n = rank[x]
  BY <1>5
<1>7. \A y \in S : ~(rank[y] < rank[x])
  BY <1>5, <1>6
<1> QED
  BY <1>7

----------------------------------------------------------------------------
(* One level *)

\* A set of nodes that have keys, all different.
Keyed(L, K) ==
  /\ \A n \in L : K[n] \in Int
  /\ Header \notin L /\ Nil \notin L
  /\ \A m, n \in L : K[m] = K[n] => m = n

\* A node linked in after the last one before its key.
LEMMA InsertOne ==
  ASSUME NEW L, NEW f, NEW g, NEW K, NEW n, NEW u,
         Keyed(L \cup {n}, K), n \notin L, Header # Nil,
         Sorted(L, f, K), LastBefore(L, K, K[n], u),
         g[n] = f[u], g[u] = n,
         \A p \in L \cup {Header} : p # u => g[p] = f[p]
  PROVE  Sorted(L \cup {n}, g, K)
<1>1. /\ \A x \in L : K[x] \in Int /\ K[x] # K[n] /\ x # n /\ x # Header /\ x # Nil
      /\ K[n] \in Int /\ n # Header /\ n # Nil
  BY DEF Keyed
<1>2. /\ u \in L \cup {Header} /\ u # n
      /\ u # Header => K[u] < K[n]
      /\ \A x \in L : K[x] < K[n] => u # Header /\ K[x] <= K[u]
  BY <1>1 DEF LastBefore
<1> SUFFICES ASSUME NEW p \in L \cup {n} \cup {Header}
             PROVE  FirstAfter(L \cup {n}, K, p, g[p])
  BY DEF Sorted
<1>3. CASE p = n
  <2>1. FirstAfter(L, K, u, f[u])
    BY <1>2 DEF Sorted
  <2>2. \A x \in L : K[n] < K[x] => After(K, u, x)
    BY <1>1, <1>2 DEF After
  <2>3. f[u] # Nil => f[u] \in L /\ K[n] < K[f[u]]
    BY <1>1, <1>2, <2>1 DEF FirstAfter, After
  <2> QED
    BY <1>1, <1>3, <2>1, <2>2, <2>3 DEF FirstAfter, After
<1>4. CASE p = u
  <2>1. After(K, u, n)
    BY <1>2 DEF After
  <2>2. \A x \in L : After(K, u, x) => K[n] <= K[x]
    BY <1>1, <1>2 DEF After
  <2> QED
    BY <1>1, <1>4, <2>1, <2>2 DEF FirstAfter
<1>5. CASE p # n /\ p # u
  <2>1. p \in L \cup {Header} /\ g[p] = f[p] /\ FirstAfter(L, K, p, f[p])
    BY <1>5 DEF Sorted
  <2>2. After(K, p, n) => f[p] # Nil /\ K[f[p]] <= K[n]
    <3> SUFFICES ASSUME After(K, p, n) PROVE f[p] # Nil /\ K[f[p]] <= K[n]
      OBVIOUS
    <3>1. u \in L /\ After(K, p, u)
      <4>1. CASE p = Header
        BY <1>2, <1>5, <4>1 DEF After
      <4>2. CASE p \in L
        <5>1. K[p] < K[n] /\ u # Header /\ K[p] <= K[u]
          BY <1>1, <1>2, <4>2 DEF After
        <5>2. K[p] # K[u]
          BY <1>2, <1>5, <4>2, <5>1 DEF Keyed
        <5> QED
          BY <1>1, <1>2, <4>2, <5>1, <5>2 DEF After
      <4> QED
        BY <2>1, <4>1, <4>2
    <3>2. f[p] # Nil /\ f[p] \in L /\ K[f[p]] <= K[u]
      BY <2>1, <3>1 DEF FirstAfter
    <3> QED
      BY <1>1, <1>2, <3>1, <3>2
  <2> QED
    BY <2>1, <2>2 DEF FirstAfter
<1> QED
  BY <1>3, <1>4, <1>5

\* A node taken out.
LEMMA RemoveOne ==
  ASSUME NEW L, NEW f, NEW g, NEW K, NEW n \in L, NEW u \in L \cup {Header},
         Keyed(L, K), Header # Nil, Sorted(L, f, K),
         f[u] = n, g[u] = f[n],
         \A p \in L \cup {Header} : p # u => g[p] = f[p]
  PROVE  /\ Sorted(L \ {n}, g, K)
         /\ FirstAfter(L \ {n}, K, n, f[n])
<1>1. \A x \in L : K[x] \in Int /\ x # Header /\ x # Nil
  BY DEF Keyed
<1>2. \A x, y \in L : x # y => K[x] # K[y]
  BY DEF Keyed
<1>3. FirstAfter(L, K, n, f[n]) /\ FirstAfter(L, K, u, n)
  BY DEF Sorted
<1>4. u # n /\ After(K, u, n)
  BY <1>1, <1>3 DEF FirstAfter, After
<1>5. f[n] # n
  BY <1>1, <1>3 DEF FirstAfter, After
<1>6. FirstAfter(L \ {n}, K, n, f[n])
  BY <1>3, <1>5 DEF FirstAfter
<1>7. ASSUME NEW p \in (L \ {n}) \cup {Header}
      PROVE  FirstAfter(L \ {n}, K, p, g[p])
  <2>1. CASE p = u
    <3>1. \A x \in L \ {n} : After(K, u, x) => After(K, n, x)
      <4> SUFFICES ASSUME NEW x \in L \ {n}, After(K, u, x) PROVE K[n] < K[x]
        BY DEF After
      <4>1. K[n] <= K[x] /\ K[n] # K[x]
        BY <1>2, <1>3 DEF FirstAfter
      <4> QED
        BY <1>1, <4>1
    <3>2. f[n] # Nil => After(K, u, f[n])
      BY <1>1, <1>3, <1>4 DEF FirstAfter, After
    <3> QED
      BY <1>6, <2>1, <3>1, <3>2 DEF FirstAfter
  <2>2. CASE p # u
    <3>1. g[p] = f[p] /\ FirstAfter(L, K, p, f[p])
      BY <2>2 DEF Sorted
    <3>2. f[p] # n
      <4> SUFFICES ASSUME f[p] = n PROVE FALSE
        OBVIOUS
      <4>1. After(K, p, n)
        BY <1>1, <3>1 DEF FirstAfter
      <4>2. ~After(K, p, u) \/ u = Header
        BY <1>1, <1>4, <3>1 DEF FirstAfter, After
      <4>3. ~After(K, u, p) \/ p = Header
        BY <1>1, <1>3, <4>1 DEF FirstAfter, After
      <4>4. p \in L /\ u \in L
        BY <2>2, <4>2, <4>3 DEF After
      <4> QED
        BY <1>1, <1>2, <2>2, <4>2, <4>3, <4>4 DEF After
    <3> QED
      BY <3>1, <3>2 DEF FirstAfter
  <2> QED
    BY <2>1, <2>2
<1> QED
  BY <1>6, <1>7 DEF Sorted

\* There is a last node before a key, or none.
LEMMA LastExists ==
  ASSUME NEW L, NEW K, NEW k \in Int, Keyed(L, K)
  PROVE  \E p : LastBefore(L, K, k, p)
<1> DEFINE S == {n \in L : K[n] < k}
           rank == [n \in S |-> k - K[n]]
<1>1. CASE S = {}
  BY <1>1 DEF LastBefore
<1>2. CASE S # {}
  <2>1. rank \in [S -> Nat]
    BY DEF Keyed
  <2>2. PICK p \in S : \A n \in S : rank[p] <= rank[n]
    <3> HIDE DEF rank, S
    <3> QED
      BY <1>2, <2>1, LeastRank
  <2>3. \A n \in S : K[n] <= K[p]
    <3> SUFFICES ASSUME NEW n \in S PROVE K[n] <= K[p]
      OBVIOUS
    <3>1. k - K[p] <= k - K[n] /\ K[p] \in Int /\ K[n] \in Int
      BY <2>2 DEF Keyed
    <3> QED
      BY <3>1
  <2>4. p # Header
    BY DEF Keyed
  <2> QED
    BY <2>3, <2>4 DEF LastBefore
<1> QED
  BY <1>1, <1>2

\* It is unique.
LEMMA LastUnique ==
  ASSUME NEW L, NEW K, NEW k \in Int, Keyed(L, K), NEW p, NEW q,
         LastBefore(L, K, k, p), LastBefore(L, K, k, q)
  PROVE  p = q
<1>1. CASE p = Header
  <2>1. q \notin L
    BY <1>1 DEF LastBefore, Keyed
  <2> QED
    BY <1>1, <2>1 DEF LastBefore
<1>2. CASE q = Header
  <2>1. p \notin L
    BY <1>2 DEF LastBefore, Keyed
  <2> QED
    BY <1>2, <2>1 DEF LastBefore
<1>3. CASE p # Header /\ q # Header
  <2>1. p \in L /\ q \in L /\ K[p] <= K[q] /\ K[q] <= K[p]
    BY <1>3 DEF LastBefore
  <2>2. K[p] \in Int /\ K[q] \in Int
    BY <2>1 DEF Keyed
  <2>3. K[p] = K[q]
    BY <2>1, <2>2
  <2> QED
    BY <2>1, <2>3 DEF Keyed
<1> QED
  BY <1>1, <1>2, <1>3

\* What follows the last node before k is the first node not before k.
LEMMA NextOfLast ==
  ASSUME NEW L, NEW f, NEW K, NEW k \in Int, NEW p, Keyed(L, K),
         Sorted(L, f, K), LastBefore(L, K, k, p)
  PROVE  /\ f[p] \in L \cup {Nil}
         /\ f[p] # Nil => K[f[p]] >= k
         /\ \A n \in L : K[n] >= k => f[p] # Nil /\ K[f[p]] <= K[n]
<1>1. FirstAfter(L, K, p, f[p]) /\ (p \in L \/ p = Header)
  BY DEF Sorted, LastBefore
<1>2. ASSUME f[p] # Nil, K[f[p]] < k PROVE FALSE
  BY <1>1, <1>2 DEF FirstAfter, LastBefore, After, Keyed
<1>3. \A n \in L : K[n] >= k => After(K, p, n)
  BY <1>1 DEF LastBefore, After, Keyed
<1>4. f[p] # Nil => K[f[p]] \in Int
  BY <1>1 DEF FirstAfter, Keyed
<1> QED
  BY <1>1, <1>2, <1>3, <1>4 DEF FirstAfter
----------------------------------------------------------------------------
(* The writer's search *)

\* Advance walks from any node before k to the last one.
LEMMA AdvanceFact ==
  ASSUME NEW i \in Levels, NEW k \in Int, NEW L \in SUBSET Nodes,
         Keyed(L, key), Sorted(L, Pointers(i), key),
         \A n \in Nodes \ L : forward[n][i] = Nil,
         NEW p, LastBefore(L, key, k, p)
  PROVE  \A n \in L \cup {Header} :
           n = Header \/ key[n] < k => Advance(i, k)[n] = p
<1> DEFINE go(n) == forward[n][i] # Nil /\ key[forward[n][i]] < k
           a == Advance(i, k)
           F == [n \in Places |-> IF go(n) THEN p ELSE n]
<1>0. Header \in Places /\ L \subseteq Places /\ Header \notin L /\ Nil \notin Places
  BY SkipListAssumption DEF Places
<1>1. \A n \in L \cup {Header} : FirstAfter(L, key, n, forward[n][i])
  BY <1>0 DEF Sorted, Pointers
<1>2. \A n \in Places : go(n) => n \in L \cup {Header} /\ forward[n][i] \in L
  BY <1>1 DEF FirstAfter, Places
<1>3. ASSUME NEW n \in L \cup {Header}, n = Header \/ key[n] < k, ~go(n)
      PROVE  n = p
  <2>1. ASSUME NEW x \in L, key[x] < k PROVE n # Header /\ key[x] <= key[n]
    <3>1. ~After(key, n, x)
      <4> SUFFICES ASSUME After(key, n, x) PROVE FALSE
        OBVIOUS
      <4>1. forward[n][i] # Nil /\ key[forward[n][i]] <= key[x] /\ forward[n][i] \in L
        BY <1>1 DEF FirstAfter
      <4>2. key[forward[n][i]] \in Int /\ key[x] \in Int
        BY <4>1 DEF Keyed
      <4> QED
        BY <1>3, <2>1, <4>1, <4>2
    <3> QED
      BY <3>1 DEF After, Keyed
  <2>2. LastBefore(L, key, k, n)
    BY <1>3, <2>1 DEF LastBefore
  <2> QED
    BY <2>2, LastUnique
<1>4. a = [n \in Places |-> IF go(n) THEN a[forward[n][i]] ELSE n]
  <2>1. \A n \in Places : go(n) => F[forward[n][i]] = p
    BY <1>0, <1>2, <1>3
  <2>2. F = [n \in Places |-> IF go(n) THEN F[forward[n][i]] ELSE n]
    BY <2>1
  <2>3. a = CHOOSE last : last = [n \in Places |-> IF go(n) THEN last[forward[n][i]] ELSE n]
    BY DEF Advance
  <2> HIDE DEF F, a, go
  <2> QED
    BY <2>2, <2>3
<1> HIDE DEF a
<1>5. \A n \in L : key[n] < k => a[n] = p
  <2> DEFINE S == {n \in L : key[n] < k /\ a[n] # p}
             rank == [n \in S |-> k - key[n]]
  <2> SUFFICES ASSUME S # {} PROVE FALSE
    OBVIOUS
  <2>1. rank \in [S -> Nat]
    BY DEF Keyed
  <2>2. PICK x \in S : \A n \in S : rank[x] <= rank[n]
    <3> HIDE DEF rank, S
    <3> QED
      BY <2>1, LeastRank
  <2>3. go(x)
    BY <1>0, <1>3, <1>4
  <2> DEFINE y == forward[x][i]
  <2>4. y \in L /\ key[x] < key[y] /\ key[y] < k
    BY <1>0, <1>1, <1>2, <2>3 DEF FirstAfter, After
  <2>5. a[x] = a[y]
    BY <1>0, <1>4, <2>3
  <2>6. y \in S
    BY <2>4, <2>5
  <2>7. key[x] \in Int /\ key[y] \in Int /\ k - key[x] <= k - key[y]
    BY <2>2, <2>4, <2>6 DEF Keyed
  <2> QED
    BY <2>4, <2>7
<1>6. a[Header] = p
  <2>1. CASE go(Header)
    BY <1>0, <1>2, <1>4, <1>5, <2>1
  <2>2. CASE ~go(Header)
    BY <1>0, <1>3, <1>4, <2>2
  <2> QED
    BY <2>1, <2>2
<1> QED
  BY <1>5, <1>6 DEF a

\* Between operations the levels are nested.
LEMMA Nested ==
  ASSUME ListTypeOK, OrderInv, wpc \notin {"link", "unlink"}
  PROVE  /\ \A i \in Levels : LinkedAt(i) \subseteq alive
         /\ \A i, j \in Levels : i <= j => LinkedAt(j) \subseteq LinkedAt(i)
         /\ \A i \in Levels : i > curLevel => LinkedAt(i) = {}
         /\ LinkedAt(0) = alive
<1>1. \A n \in alive : height[n] \in Levels /\ height[n] <= curLevel
  BY DEF ListTypeOK, OrderInv
<1>2. curLevel \in Levels
  BY DEF ListTypeOK
<1> QED
  BY <1>1, <1>2, SkipListAssumption DEF LinkedAt, Levels

\* Every level is a set of nodes with keys of their own.
LEMMA LevelKeyed ==
  ASSUME ListTypeOK, OrderInv, NEW i
  PROVE  /\ LinkedAt(i) \subseteq alive /\ alive \subseteq Nodes
         /\ Keyed(alive, key) /\ Keyed(LinkedAt(i), key)
         /\ Header # Nil
<1>1. LinkedAt(i) \subseteq alive
  BY DEF LinkedAt
<1>2. alive \subseteq Nodes
  BY DEF ListTypeOK
<1> QED
  BY <1>1, <1>2, SkipListAssumption DEF OrderInv, Keyed

\* insertElement and deleteElement find the last node before the key at every
\* level.
LEMMA PredecessorsFact ==
  ASSUME ListTypeOK, OrderInv, NullInv, wpc = "idle", NEW k \in Int
  PROVE  /\ \A i \in Levels : LastBefore(LinkedAt(i), key, k, Predecessors(k)[i])
         /\ Predecessors(k) \in [Levels -> Places]
<1> DEFINE pm(i) == CHOOSE p : LastBefore(LinkedAt(i), key, k, p)
           P == Predecessors(k)
           F == [i \in Levels |-> pm(i)]
<1>1. \A i \in Levels : LastBefore(LinkedAt(i), key, k, pm(i))
  BY LevelKeyed, LastExists
<1>2. ASSUME NEW i \in Levels, NEW p, LastBefore(LinkedAt(i), key, k, p)
      PROVE  p = pm(i)
  BY <1>1, <1>2, LevelKeyed, LastUnique
<1> HIDE DEF pm
<1>3. ASSUME NEW i \in Levels, NEW n \in LinkedAt(i) \cup {Header},
             n = Header \/ key[n] < k
      PROVE  Advance(i, k)[n] = pm(i)
  <2>1. LinkedAt(i) \in SUBSET Nodes /\ Keyed(LinkedAt(i), key)
    BY LevelKeyed, Zenon
  <2>2. Sorted(LinkedAt(i), Pointers(i), key)
    BY DEF OrderInv
  <2>3. \A m \in Nodes \ LinkedAt(i) : forward[m][i] = Nil
    <3> SUFFICES ASSUME NEW m \in Nodes \ LinkedAt(i) PROVE forward[m][i] = Nil
      OBVIOUS
    <3>1. m \notin alive \/ ~(i <= height[m])
      BY DEF LinkedAt
    <3>2. m \in alive => height[m] \in Int /\ i \in Int
      BY DEF ListTypeOK, Levels
    <3> QED
      BY <3>1, <3>2 DEF NullInv
  <2> QED
    BY <1>1, <1>3, <2>1, <2>2, <2>3, AdvanceFact
<1>4. curLevel \in Levels /\ Levels \subseteq Nat /\ \A i \in Levels : i < curLevel => i + 1 \in Levels
  BY SkipListAssumption DEF ListTypeOK, Levels
<1>5. \A i \in Levels : i > curLevel => pm(i) = Header
  <2> SUFFICES ASSUME NEW i \in Levels, i > curLevel PROVE pm(i) = Header
    OBVIOUS
  <2>1. LinkedAt(i) = {}
    BY Nested
  <2> QED
    BY <1>1, <2>1 DEF LastBefore
<1>6. ASSUME NEW i \in Levels, i < curLevel
      PROVE  Advance(i, k)[pm(i + 1)] = pm(i)
  <2>1. i + 1 \in Levels /\ i <= i + 1
    BY <1>4, <1>6
  <2>2. /\ pm(i + 1) \in LinkedAt(i + 1) \cup {Header}
        /\ pm(i + 1) # Header => key[pm(i + 1)] < k
    BY <1>1, <2>1 DEF LastBefore
  <2>3. LinkedAt(i + 1) \subseteq LinkedAt(i)
    BY <2>1, Nested
  <2> QED
    BY <1>3, <2>2, <2>3
<1>7. P = [i \in Levels |->
             IF i > curLevel
               THEN Header
               ELSE Advance(i, k)[IF i = curLevel THEN Header ELSE P[i + 1]]]
  <2>1. F = [i \in Levels |->
               IF i > curLevel
                 THEN Header
                 ELSE Advance(i, k)[IF i = curLevel THEN Header ELSE F[i + 1]]]
    <3> SUFFICES ASSUME NEW i \in Levels
                 PROVE  pm(i) = IF i > curLevel
                                  THEN Header
                                  ELSE Advance(i, k)[IF i = curLevel THEN Header
                                                                     ELSE F[i + 1]]
      OBVIOUS
    <3>1. CASE i > curLevel
      BY <1>4, <1>5, <3>1
    <3>2. CASE i = curLevel
      BY <1>3, <1>4, <3>2
    <3>3. CASE i < curLevel
      <4>1. F[i + 1] = pm(i + 1)
        BY <1>4, <3>3
      <4> HIDE DEF F
      <4> QED
        BY <1>4, <1>6, <3>3, <4>1
    <3> QED
      BY <1>4, <3>1, <3>2, <3>3
  <2>2. P = CHOOSE pred :
              pred = [i \in Levels |->
                        IF i > curLevel
                          THEN Header
                          ELSE Advance(i, k)[IF i = curLevel THEN Header
                                                             ELSE pred[i + 1]]]
    BY DEF Predecessors
  <2> HIDE DEF F, P
  <2> QED
    BY <2>1, <2>2, Zenon
<1> HIDE DEF P
<1>8. \A i \in Levels : P[i] = pm(i)
  <2> DEFINE S == {i \in Levels : i <= curLevel /\ P[i] # pm(i)}
             rank == [i \in S |-> curLevel - i]
  <2>1. ASSUME S # {} PROVE FALSE
    <3>1. rank \in [S -> Nat]
      <4>1. \A i \in Levels : i <= curLevel => curLevel - i \in Nat
        BY <1>4
      <4> QED
        BY <4>1, Zenon
    <3>2. PICK j \in S : \A i \in S : rank[j] <= rank[i]
      <4> HIDE DEF rank, S
      <4> QED
        BY <2>1, <3>1, LeastRank
    <3>3. CASE j = curLevel
      BY <1>3, <1>4, <1>7, <3>3
    <3>4. CASE j < curLevel
      <4>1. j + 1 \in Levels /\ j + 1 <= curLevel
        BY <1>4, <3>4
      <4>2. ~(curLevel - j <= curLevel - (j + 1))
        BY <1>4
      <4>3. j + 1 \notin S
        BY <3>2, <4>2
      <4>4. P[j + 1] = pm(j + 1)
        BY <4>1, <4>3
      <4>5. P[j] = Advance(j, k)[P[j + 1]]
        <5>1. j \in Levels /\ ~(j > curLevel) /\ j # curLevel
          BY <1>4, <3>4
        <5> HIDE DEF P, S, rank
        <5> QED
          BY <1>7, <5>1, Zenon
      <4>6. Advance(j, k)[pm(j + 1)] = pm(j)
        BY <1>6, <3>4
      <4>7. P[j] = pm(j)
        BY <4>4, <4>5, <4>6
      <4> HIDE DEF P, rank
      <4> QED
        BY <4>7
    <3> QED
      BY <1>4, <3>3, <3>4
  <2>2. ASSUME NEW i \in Levels, i > curLevel PROVE P[i] = Header
    BY <1>4, <1>7, <2>2
  <2> QED
    BY <1>4, <1>5, <2>1, <2>2
<1>9. P \in [Levels -> Places]
  <2>1. \A i \in Levels : P[i] \in Places
    <3> SUFFICES ASSUME NEW i \in Levels PROVE P[i] \in Places
      OBVIOUS
    <3>1. LastBefore(LinkedAt(i), key, k, P[i])
      BY <1>1, <1>8
    <3>2. LinkedAt(i) \subseteq Nodes
      BY LevelKeyed, Zenon
    <3> QED
      BY <3>1, <3>2 DEF LastBefore, Places
  <2>2. DOMAIN P = Levels /\ P = [i \in DOMAIN P |-> P[i]]
    BY <1>7
  <2> HIDE DEF P
  <2> QED
    BY <2>1, <2>2
<1> QED
  BY <1>1, <1>8, <1>9 DEF P

\* The candidate is the node with the key, if there is one.
LEMMA CandidateFact ==
  ASSUME ListTypeOK, OrderInv, NullInv, wpc = "idle", NEW k \in Int
  PROVE  /\ Holds(Candidate(k), k) => Candidate(k) \in alive
         /\ \A n \in alive : key[n] = k => n = Candidate(k)
<1> DEFINE p == Predecessors(k)[0]
           f == Pointers(0)
           m == forward[p][0]
<1>1. 0 \in Levels /\ LinkedAt(0) = alive
  BY Nested, SkipListAssumption DEF Levels
<1>2. LastBefore(alive, key, k, p) /\ Keyed(alive, key) /\ Sorted(alive, f, key)
  <2>1. Keyed(alive, key)
    BY LevelKeyed, Zenon
  <2> QED
    BY <1>1, <2>1, PredecessorsFact DEF OrderInv
<1>3. f[p] = m
  <2>1. p \in Places
    BY <1>2 DEF LastBefore, Places, ListTypeOK
  <2> QED
    BY <2>1 DEF Pointers
<1> HIDE DEF f, p
<1>4. /\ m \in alive \cup {Nil}
      /\ \A n \in alive : key[n] >= k => m # Nil /\ key[m] <= key[n]
      /\ m # Nil => key[m] >= k
  <2> HIDE DEF m
  <2>1. /\ f[p] \in alive \cup {Nil}
        /\ f[p] # Nil => key[f[p]] >= k
        /\ \A n \in alive : key[n] >= k => f[p] # Nil /\ key[f[p]] <= key[n]
    BY <1>2, NextOfLast
  <2> QED
    BY <1>3, <2>1
<1>5. m = Candidate(k)
  BY DEF Candidate, p
<1>6. ASSUME NEW n \in alive, key[n] = k PROVE n = m
  <2>1. key[n] \in Int /\ m # Nil /\ key[m] <= key[n]
    BY <1>2, <1>4, <1>6 DEF Keyed
  <2>2. m \in alive /\ key[m] \in Int /\ key[m] = key[n]
    BY <1>2, <1>4, <1>6, <2>1 DEF Keyed
  <2> QED
    BY <1>2, <2>2 DEF Keyed
<1> QED
  BY <1>4, <1>5, <1>6 DEF Holds
----------------------------------------------------------------------------
(* A walk along a level *)

\* A walk along a sorted level comes to all its nodes, and to no other.
LEMMA WalkFact ==
  ASSUME NEW i \in Levels, NEW L \in SUBSET Nodes, IsFiniteSet(L),
         Keyed(L, key), Sorted(L, Pointers(i), key),
         \A n \in Nodes \ L : \/ forward[n][i] = Nil
                              \/ key[n] \in Int /\ FirstAfter(L, key, n, forward[n][i])
  PROVE  Level(i) = L
<1> DEFINE next(n) == forward[n][i]
           up(n) == {m \in L : key[n] < key[m]}
           G == [n \in Nodes \cup {Nil} |->
                   IF n = Nil THEN {}
                   ELSE IF next(n) = Nil THEN {n} ELSE {n} \cup up(n)]
           f == CHOOSE from :
                  from = [n \in Nodes \cup {Nil} |->
                            IF n = Nil THEN {} ELSE {n} \cup from[next(n)]]
<1>1. Header \notin Nodes /\ Nil \notin Nodes /\ Header \in Places /\ Nodes \subseteq Places
  BY SkipListAssumption DEF Places
<1>2. \A n \in L : FirstAfter(L, key, n, next(n))
  BY <1>1 DEF Sorted, Pointers
<1>3. ASSUME NEW n \in Nodes, next(n) # Nil
      PROVE  next(n) \in L /\ up(n) = {next(n)} \cup up(next(n))
  <2>1. FirstAfter(L, key, n, next(n)) /\ key[n] \in Int
    BY <1>2, <1>3 DEF Keyed
  <2> DEFINE m == next(n)
  <2>2. m \in L /\ key[n] < key[m] /\ key[m] \in Int
    BY <1>1, <1>3, <2>1 DEF FirstAfter, After, Keyed
  <2>3. ASSUME NEW x \in L, key[n] < key[x] PROVE x = m \/ key[m] < key[x]
    <3>1. key[m] <= key[x] /\ key[x] \in Int
      BY <2>1, <2>3 DEF FirstAfter, After, Keyed
    <3>2. key[m] = key[x] => x = m
      BY <2>2 DEF Keyed
    <3> QED
      BY <2>2, <3>1, <3>2
  <2>4. ASSUME NEW x \in L, x = m \/ key[m] < key[x] PROVE key[n] < key[x]
    <3>1. key[x] \in Int
      BY DEF Keyed
    <3> QED
      BY <2>1, <2>2, <2>4, <3>1
  <2> HIDE DEF m
  <2>5. up(n) = {m} \cup up(m)
    BY <2>2, <2>3, <2>4
  <2> QED
    BY <2>2, <2>5 DEF m
<1>4. ASSUME NEW n \in L, next(n) = Nil PROVE up(n) = {}
  BY <1>1, <1>2, <1>4 DEF FirstAfter, After
<1> HIDE DEF up
<1>5. f = [n \in Nodes \cup {Nil} |-> IF n = Nil THEN {} ELSE {n} \cup f[next(n)]]
  <2>1. \A n \in Nodes : next(n) # Nil => G[next(n)] = {next(n)} \cup up(next(n))
    <3> SUFFICES ASSUME NEW n \in Nodes, next(n) # Nil
                 PROVE  G[next(n)] = {next(n)} \cup up(next(n))
      OBVIOUS
    <3>1. next(n) \in L
      BY <1>3
    <3> QED
      BY <1>1, <1>4, <3>1
  <2>2. \A n \in Nodes : next(n) # Nil => up(n) = G[next(n)]
    BY <1>3, <2>1
  <2>3. G[Nil] = {}
    OBVIOUS
  <2>4. G = [n \in Nodes \cup {Nil} |-> IF n = Nil THEN {} ELSE {n} \cup G[next(n)]]
    BY <2>2, <2>3
  <2> HIDE DEF G, next
  <2> QED
    BY <2>4, Zenon
<1>6. Level(i) = f[next(Header)]
  BY DEF Level
<1> HIDE DEF f
<1>7. f[Nil] = {}
  BY <1>5
<1>8. \A n \in L : f[n] = {n} \cup up(n)
  <2> DEFINE S == {n \in L : f[n] # {n} \cup up(n)}
             rank == [n \in S |-> Cardinality(up(n))]
  <2> SUFFICES ASSUME S # {} PROVE FALSE
    OBVIOUS
  <2>1. \A n \in L : IsFiniteSet(up(n)) /\ Cardinality(up(n)) \in Nat
    BY FS_Subset, FS_CardinalityType DEF up
  <2>2. rank \in [S -> Nat]
    BY <2>1
  <2>3. PICK x \in S : \A n \in S : rank[x] <= rank[n]
    <3> HIDE DEF rank, S
    <3> QED
      BY <2>2, LeastRank
  <2>4. f[x] = {x} \cup f[next(x)]
    BY <1>1, <1>5
  <2>5. next(x) # Nil
    BY <1>4, <1>7, <2>4
  <2> DEFINE y == next(x)
  <2>6. y \in L /\ up(x) = {y} \cup up(y)
    BY <1>3, <2>5
  <2>7. y \in S
    BY <2>4, <2>6
  <2>8. y \notin up(y)
    BY <2>6 DEF up, Keyed
  <2>9. Cardinality(up(x)) = Cardinality(up(y)) + 1
    <3> DEFINE U == up(y)
    <3>1. IsFiniteSet(U) /\ y \notin U /\ up(x) = U \cup {y}
      BY <2>1, <2>6, <2>8
    <3> HIDE DEF U, y
    <3>2. Cardinality(U \cup {y}) = Cardinality(U) + 1
      BY <3>1, FS_AddElement
    <3> QED
      BY <3>1, <3>2 DEF U
  <2>10. Cardinality(up(x)) <= Cardinality(up(y))
    BY <2>3, <2>7
  <2> QED
    BY <2>1, <2>6, <2>9, <2>10
<1>9. FirstAfter(L, key, Header, next(Header))
  BY <1>1 DEF Sorted, Pointers
<1>10. CASE next(Header) = Nil
  <2>1. L = {}
    BY <1>9, <1>10 DEF FirstAfter, After
  <2> QED
    BY <1>6, <1>7, <1>10, <2>1
<1>11. CASE next(Header) # Nil
  <2> DEFINE x == next(Header)
  <2>1. x \in L /\ \A n \in L : key[x] <= key[n]
    BY <1>9, <1>11 DEF FirstAfter, After
  <2>2. \A n \in L : n = x \/ key[x] < key[n]
    BY <2>1 DEF Keyed
  <2>3. L = {x} \cup up(x)
    BY <2>1, <2>2 DEF up
  <2> QED
    BY <1>6, <1>8, <2>1, <2>3
<1> QED
  BY <1>10, <1>11

\* Level is the set of the nodes that are linked in.
LEMMA LevelFact ==
  ASSUME ListTypeOK, ListInv, NEW i \in Levels
  PROVE  Level(i) = LinkedAt(i)
<1>1. /\ LinkedAt(i) \in SUBSET Nodes /\ Keyed(LinkedAt(i), key)
      /\ LinkedAt(i) \subseteq alive
  BY LevelKeyed, Zenon DEF ListInv
<1>2. IsFiniteSet(LinkedAt(i))
  BY <1>1, FS_Subset DEF ListInv, CountInv
<1>3. Sorted(LinkedAt(i), Pointers(i), key)
  BY DEF ListInv, OrderInv
<1>4. ASSUME NEW n \in Nodes \ LinkedAt(i)
      PROVE  \/ forward[n][i] = Nil
             \/ key[n] \in Int /\ FirstAfter(LinkedAt(i), key, n, forward[n][i])
  <2>1. i \in Int /\ height[n] \in Int /\ wlevel \in Int
    BY DEF ListTypeOK, Levels
  <2>2. \/ n \notin alive
        \/ i > height[n]
        \/ wpc = "link" /\ n = wnode /\ i >= wlevel
        \/ wpc = "unlink" /\ n = wnode /\ i < wlevel
    BY <2>1 DEF LinkedAt
  <2>3. CASE n \in alive /\ wpc = "unlink" /\ n = wnode /\ i < wlevel
    BY <2>3, SkipListAssumption DEF ListInv, WriterInv, OrderInv
  <2> QED
    BY <2>2, <2>3 DEF ListInv, NullInv
<1> QED
  BY <1>1, <1>2, <1>3, <1>4, WalkFact, Zenon

----------------------------------------------------------------------------
(* The map *)

\* The map a set L of nodes with keys K and values V stands for.
MapOf(L, K, V) ==
  [k \in Keys |-> IF \E n \in L : K[n] = k THEN V[CHOOSE n \in L : K[n] = k] ELSE Absent]

Mapped(L, K, V) == Keyed(L, K) /\ \A n \in L : K[n] \in Keys /\ V[n] \in Values

\* It maps the key of each node to its value and the other keys to nothing.
LEMMA MapOfFact ==
  ASSUME NEW L, NEW K, NEW V, Mapped(L, K, V)
  PROVE  /\ MapOf(L, K, V) \in [Keys -> Values \cup {Absent}]
         /\ \A n \in L : MapOf(L, K, V)[K[n]] = V[n]
         /\ \A k \in Keys : (\A n \in L : K[n] # k) => MapOf(L, K, V)[k] = Absent
<1> DEFINE m == MapOf(L, K, V)
<1>1. m = [k \in Keys |-> IF \E n \in L : K[n] = k THEN V[CHOOSE n \in L : K[n] = k]
                                                    ELSE Absent]
  BY DEF MapOf
<1> HIDE DEF m
<1>2. \A k \in Keys : (\A n \in L : K[n] # k) => m[k] = Absent
  BY <1>1
<1>3. \A n \in L : m[K[n]] = V[n]
  <2> SUFFICES ASSUME NEW n \in L PROVE m[K[n]] = V[n]
    OBVIOUS
  <2>1. (CHOOSE l \in L : K[l] = K[n]) = n
    BY DEF Mapped, Keyed
  <2> QED
    BY <1>1, <2>1 DEF Mapped
<1>4. ASSUME NEW k \in Keys PROVE m[k] \in Values \cup {Absent}
  BY <1>2, <1>3 DEF Mapped
<1>5. m = [k \in Keys |-> m[k]]
  BY <1>1
<1>6. m \in [Keys -> Values \cup {Absent}]
  BY <1>4, <1>5
<1> QED
  BY <1>2, <1>3, <1>6 DEF m

\* Nodes that agree on keys and values give the same map.
LEMMA SameMap ==
  ASSUME NEW L, NEW K, NEW V, NEW N, NEW W, Mapped(L, K, V), Mapped(L, N, W),
         \A n \in L : N[n] = K[n] /\ W[n] = V[n]
  PROVE  MapOf(L, N, W) = MapOf(L, K, V)
<1> DEFINE a == MapOf(L, K, V)
           b == MapOf(L, N, W)
<1>1. /\ a \in [Keys -> Values \cup {Absent}]
      /\ \A n \in L : a[K[n]] = V[n]
      /\ \A k \in Keys : (\A n \in L : K[n] # k) => a[k] = Absent
  BY MapOfFact
<1>2. /\ b \in [Keys -> Values \cup {Absent}]
      /\ \A n \in L : b[N[n]] = W[n]
      /\ \A k \in Keys : (\A n \in L : N[n] # k) => b[k] = Absent
  BY MapOfFact
<1> HIDE DEF a, b
<1>3. ASSUME NEW k \in Keys PROVE b[k] = a[k]
  BY <1>1, <1>2
<1>4. b = a
  BY <1>1, <1>2, <1>3
<1> QED
  BY <1>4 DEF a, b

\* Nodes that agree but for one key give maps that agree but for that key.
LEMMA ChangedMap ==
  ASSUME NEW L, NEW K, NEW V, NEW M, NEW N, NEW W, Mapped(L, K, V), Mapped(M, N, W),
         NEW k0 \in Keys, NEW v,
         \A n \in L : K[n] # k0 => n \in M /\ N[n] = K[n] /\ W[n] = V[n],
         \A n \in M : N[n] # k0 => n \in L /\ N[n] = K[n],
         \/ v = Absent /\ \A n \in M : N[n] # k0
         \/ \E n \in M : N[n] = k0 /\ W[n] = v
  PROVE  MapOf(M, N, W) = [MapOf(L, K, V) EXCEPT ![k0] = v]
<1> DEFINE a == MapOf(L, K, V)
           b == MapOf(M, N, W)
<1>1. /\ a \in [Keys -> Values \cup {Absent}]
      /\ \A n \in L : a[K[n]] = V[n]
      /\ \A k \in Keys : (\A n \in L : K[n] # k) => a[k] = Absent
  BY MapOfFact
<1>2. /\ b \in [Keys -> Values \cup {Absent}]
      /\ \A n \in M : b[N[n]] = W[n]
      /\ \A k \in Keys : (\A n \in M : N[n] # k) => b[k] = Absent
  BY MapOfFact
<1> HIDE DEF a, b
<1>3. ASSUME NEW k \in Keys, k # k0 PROVE b[k] = a[k]
  <2>1. CASE \E n \in L : K[n] = k
    BY <1>1, <1>2, <1>3, <2>1
  <2>2. CASE \A n \in L : K[n] # k
    <3>1. \A n \in M : N[n] # k
      BY <1>3, <2>2
    <3> QED
      BY <1>1, <1>2, <2>2, <3>1
  <2> QED
    BY <2>1, <2>2
<1>4. b[k0] = v
  BY <1>2
<1>5. b = [a EXCEPT ![k0] = v]
  BY <1>1, <1>2, <1>3, <1>4
<1> QED
  BY <1>5 DEF a, b

\* Map is the map of the nodes of the lowest level.
LEMMA MapIs ==
  ASSUME ListTypeOK, ListInv
  PROVE  Map = MapOf(LinkedAt(0), key, value) /\ Mapped(LinkedAt(0), key, value)
<1>1. Level(0) = LinkedAt(0)
  BY LevelFact, SkipListAssumption DEF Levels
<1>2. LinkedAt(0) \subseteq alive /\ Keyed(LinkedAt(0), key)
  BY LevelKeyed DEF ListInv
<1>3. \A n \in LinkedAt(0) : key[n] \in Keys /\ value[n] \in Values
  BY <1>2 DEF ListInv, OrderInv
<1> QED
  BY <1>1, <1>2, <1>3 DEF Map, MapOf, Mapped

----------------------------------------------------------------------------
(* The steps of the writer *)

\* Whether a level is sorted depends on the keys and pointers of its nodes only.
LEMMA SameSorted ==
  ASSUME NEW L, NEW f, NEW g, NEW K, NEW M, Header \notin L,
         Sorted(L, f, K), \A n \in L : M[n] = K[n],
         \A p \in L \cup {Header} : g[p] = f[p]
  PROVE  Sorted(L, g, M)
<1> SUFFICES ASSUME NEW p \in L \cup {Header} PROVE FirstAfter(L, M, p, f[p])
  BY DEF Sorted
<1>1. FirstAfter(L, K, p, f[p])
  BY DEF Sorted
<1> QED
  BY <1>1 DEF FirstAfter, After

LEMMA SameLast ==
  ASSUME NEW L, NEW K, NEW M, NEW k, NEW p, Header \notin L,
         LastBefore(L, K, k, p), \A n \in L : M[n] = K[n]
  PROVE  LastBefore(L, M, k, p)
BY DEF LastBefore

LEMMA SameFirst ==
  ASSUME NEW L, NEW K, NEW M, NEW p, NEW m, Header \notin L,
         FirstAfter(L, K, p, m), \A n \in L \cup {p} : M[n] = K[n]
  PROVE  FirstAfter(L, M, p, m)
BY DEF FirstAfter, After

\* A step that changes neither the list nor the set of linked nodes.
LEMMA SameList ==
  ASSUME ListTypeOK, ListInv,
         UNCHANGED <<alive, key, height, forward, curLevel, count>>,
         \A n \in alive : value'[n] \in Values,
         wpc \in {"idle", "assign"}, wpc' \in {"idle", "assign"},
         wpc' = "assign" => wnode' \in alive /\ wvalue' \in Values
  PROVE  ListInv' /\ \A i : LinkedAt(i)' = LinkedAt(i)
<1>1. \A i : LinkedAt(i)' = LinkedAt(i)
  BY DEF LinkedAt
<1>2. \A i \in Levels : Pointers(i)' = Pointers(i)
  BY DEF Pointers
<1>3. OrderInv'
  BY <1>1, <1>2 DEF ListInv, OrderInv
<1>4. NullInv' /\ WriterInv' /\ CountInv'
  BY DEF ListInv, NullInv, WriterInv, CountInv
<1> QED
  BY <1>1, <1>3, <1>4 DEF ListInv

LEMMA AssignStep ==
  ASSUME ListTypeOK, ListInv,
         \/ \E k \in Keys, v \in Values : BeginAssign(k, v)
         \/ EndAssign
         \/ \E k \in Keys : DeleteMissing(k)
  PROVE  ListInv' /\ ListTypeOK' /\ \A i : LinkedAt(i)' = LinkedAt(i)
<1>1. CASE \E k \in Keys, v \in Values : BeginAssign(k, v)
  <2> PICK k \in Keys, v \in Values : BeginAssign(k, v)
    BY <1>1
  <2>1. k \in Int /\ wpc = "idle"
    BY SkipListAssumption DEF BeginAssign
  <2>2. Candidate(k) \in alive
    BY <2>1, CandidateFact DEF BeginAssign, ListInv
  <2>3. ListTypeOK'
    BY <2>2 DEF BeginAssign, ListTypeOK, listVars
  <2> QED
    BY <2>1, <2>2, <2>3, SameList DEF BeginAssign, listVars, ListInv, OrderInv
<1>2. CASE EndAssign
  <2>1. \A n \in alive : value'[n] \in Values
    BY <1>2 DEF EndAssign, ListInv, OrderInv, WriterInv, ListTypeOK
  <2>2. ListTypeOK'
    <3>1. value' \in [Nodes -> Values \cup {Absent}]
      BY <1>2 DEF EndAssign, ListTypeOK
    <3>2. /\ wpc' = "idle" /\ wnode' \in Nodes \cup {Nil} /\ wvalue' \in Values \cup {Absent}
          /\ update' \in [Levels -> Places] /\ answer' = "present"
      BY <1>2 DEF EndAssign, Unlock, Places
    <3>3. wlevel' \in 0 .. (MaxLevel + 1)
      BY <1>2, SkipListAssumption DEF EndAssign, Unlock
    <3>4. UNCHANGED <<alive, key, height, forward, curLevel, count>>
      BY <1>2 DEF EndAssign
    <3> QED
      BY <3>1, <3>2, <3>3, <3>4 DEF ListTypeOK
  <2> QED
    BY <1>2, <2>1, <2>2, SameList DEF EndAssign, Unlock
<1>3. CASE \E k \in Keys : DeleteMissing(k)
  <2>1. ListTypeOK'
    BY <1>3 DEF DeleteMissing, ListTypeOK, listVars
  <2> QED
    BY <1>3, <2>1, SameList DEF DeleteMissing, listVars, ListInv, OrderInv
<1> QED
  BY <1>1, <1>2, <1>3

LEMMA CreateStep ==
  ASSUME ListTypeOK, ListInv, NEW k \in Keys, NEW v \in Values, CreateNode(k, v)
  PROVE  /\ ListInv'
         /\ \A i \in Levels : LinkedAt(i)' = LinkedAt(i)
         /\ \A n \in alive : n \in alive' /\ key'[n] = key[n] /\ value'[n] = value[n]
         /\ ListTypeOK'
<1>1. wpc = "idle" /\ k \in Int /\ \A i \in Levels : i \in Nat
  BY SkipListAssumption DEF CreateNode, Levels
<1>2. PICK n \in Nodes \ alive, h \in Levels :
        /\ alive' = alive \cup {n}
        /\ key' = [key EXCEPT ![n] = k]
        /\ value' = [value EXCEPT ![n] = v]
        /\ height' = [height EXCEPT ![n] = h]
        /\ wnode' = n
        /\ curLevel' = RaisedLevel(h)
  BY Zenon DEF CreateNode, RandomLevel
<1>3. /\ update' = Predecessors(k) /\ wlevel' = 0 /\ wpc' = "link"
      /\ UNCHANGED <<forward, count>>
  BY DEF CreateNode
<1>4. /\ alive \subseteq Nodes /\ key \in [Nodes -> Keys \cup {0}]
      /\ value \in [Nodes -> Values \cup {Absent}] /\ height \in [Nodes -> Levels]
      /\ curLevel \in Levels /\ n \notin alive /\ n \in Nodes
  BY DEF ListTypeOK
<1>5. /\ \A m \in alive : key'[m] = key[m] /\ value'[m] = value[m] /\ height'[m] = height[m]
      /\ key'[n] = k /\ value'[n] = v /\ height'[n] = h
  BY <1>2, <1>4
<1>6. \A m \in alive : key[m] # k
  <2> SUFFICES ASSUME NEW m \in alive, key[m] = k PROVE FALSE
    OBVIOUS
  <2>1. m = Candidate(k)
    BY <1>1, CandidateFact DEF ListInv
  <2>2. m # Nil
    BY <1>4, SkipListAssumption
  <2> QED
    BY <2>1, <2>2 DEF CreateNode, Holds
<1>7. curLevel' \in Levels /\ h <= curLevel' /\ curLevel <= curLevel'
      /\ curLevel' \in {h, curLevel}
  BY <1>1, <1>2, <1>4 DEF RaisedLevel
<1>8. \A i \in Levels : LinkedAt(i)' = LinkedAt(i)
  BY <1>1, <1>2, <1>3, <1>5 DEF LinkedAt
<1>9. \A i \in Levels : LinkedAt(i) \subseteq alive /\ Header \notin LinkedAt(i)
  BY LevelKeyed, <1>4, SkipListAssumption DEF ListInv
<1>10. \A i \in Levels : LastBefore(LinkedAt(i), key, k, Predecessors(k)[i])
  BY <1>1, PredecessorsFact DEF ListInv
<1>11. OrderInv'
  <2>1. ASSUME NEW i \in Levels PROVE Sorted(LinkedAt(i), Pointers(i), key)'
    <3>1. Pointers(i)' = Pointers(i)
      BY <1>3 DEF Pointers
    <3>2. Sorted(LinkedAt(i), Pointers(i), key)
      BY DEF ListInv, OrderInv
    <3>3. Sorted(LinkedAt(i), Pointers(i), key')
      BY <1>5, <1>9, <3>2, SameSorted
    <3> QED
      BY <1>8, <3>1, <3>3
  <2>2. \A m, x \in alive' : key'[m] = key'[x] => m = x
    BY <1>2, <1>5, <1>6 DEF ListInv, OrderInv
  <2>3. \A m \in alive' : key'[m] \in Keys /\ value'[m] \in Values /\ height'[m] <= curLevel'
    <3>1. \A m \in alive : height[m] <= curLevel'
      BY <1>1, <1>4, <1>7 DEF ListInv, OrderInv
    <3> QED
      BY <1>2, <1>5, <1>7, <3>1 DEF ListInv, OrderInv
  <2> QED
    BY <2>1, <2>2, <2>3 DEF OrderInv
<1>12. NullInv'
  BY <1>1, <1>2, <1>3, <1>5 DEF ListInv, NullInv
<1>13. WriterInv'
  <2>1. ASSUME NEW i \in Levels PROVE LastBefore(LinkedAt(i), key, key[wnode], update[i])'
    <3>1. LastBefore(LinkedAt(i), key', k, Predecessors(k)[i])
      BY <1>5, <1>9, <1>10, SameLast
    <3> QED
      BY <1>2, <1>3, <1>5, <1>8, <3>1
  <2>2. wnode' \in alive' /\ wlevel' <= height'[wnode'] /\ ~(wlevel' > 0)
    BY <1>1, <1>2, <1>3, <1>5
  <2>3. wpc' = "link"
    BY <1>3
  <2> QED
    BY <2>1, <2>2, <2>3, Zenon DEF WriterInv
<1>14. CountInv'
  <2>1. IsFiniteSet(alive') /\ Cardinality(alive') = count + 1
    BY <1>1, <1>2, FS_AddElement DEF ListInv, CountInv
  <2>2. curLevel' > 0 => \E m \in alive' : height'[m] = curLevel'
    <3>1. CASE curLevel' = h
      BY <1>2, <1>5, <3>1
    <3>2. CASE curLevel' = curLevel
      BY <1>1, <1>2, <1>5, <3>2 DEF ListInv, CountInv
    <3> QED
      BY <1>7, <3>1, <3>2
  <2> QED
    BY <1>3, <2>1, <2>2 DEF CountInv
<1>15. ListTypeOK'
  <2>1. Predecessors(k) \in [Levels -> Places]
    BY <1>1, PredecessorsFact DEF ListInv
  <2>2. /\ alive' \in SUBSET Nodes /\ key' \in [Nodes -> Keys \cup {0}]
        /\ value' \in [Nodes -> Values \cup {Absent}] /\ height' \in [Nodes -> Levels]
    BY <1>2, <1>4
  <2>3. UNCHANGED <<wvalue, answer>> /\ 0 \in 0 .. (MaxLevel + 1)
    BY SkipListAssumption DEF CreateNode
  <2> QED
    BY <1>2, <1>3, <1>7, <2>1, <2>2, <2>3 DEF ListTypeOK
<1> QED
  BY <1>2, <1>5, <1>8, <1>11, <1>12, <1>13, <1>14, <1>15 DEF ListInv

\* Linking a node in at one level.
LEMMA LinkStep ==
  ASSUME ListTypeOK, ListInv, Link
  PROVE  /\ ListInv'
         /\ \A i \in Levels :
              LinkedAt(i)' = IF i = wlevel THEN LinkedAt(i) \cup {wnode} ELSE LinkedAt(i)
         /\ wnode \notin LinkedAt(wlevel) /\ wlevel \in Levels
         /\ forward' # forward
         /\ ListTypeOK'
<1> PICK n, j, u, L : n = wnode /\ j = wlevel /\ u = update[j] /\ L = LinkedAt(j)
  OBVIOUS
<1>1. /\ wpc = "link" /\ n \in alive /\ j <= height[n]
      /\ \A i \in Levels : LastBefore(LinkedAt(i), key, key[n], update[i])
  BY DEF Link, ListInv, WriterInv
<1>2. /\ alive' = alive /\ key' = key /\ value' = value /\ height' = height
      /\ curLevel' = curLevel
      /\ forward' = Linked(n, j)
      /\ answer' = "absent"
      /\ \/ /\ j < height[n] /\ wlevel' = j + 1
            /\ count' = count /\ wpc' = wpc /\ wnode' = n /\ update' = update
         \/ ~(j < height[n]) /\ count' = count + 1 /\ wpc' = "idle"
  BY DEF Link, Unlock
<1>3. /\ height[n] \in Levels /\ Levels \subseteq Int /\ j \in Levels /\ n \in Nodes
      /\ \A m \in alive : height[m] \in Int
  BY <1>1, SkipListAssumption DEF ListTypeOK, Levels
<1>4. /\ \A i \in Levels : LinkedAt(i) \subseteq alive /\ Header \notin LinkedAt(i)
      /\ alive \subseteq Nodes /\ Header \notin Nodes /\ Header # Nil
      /\ Keyed(alive, key)
  BY LevelKeyed, SkipListAssumption DEF ListInv
<1>5. n \notin L
  <2>1. ~(j < j)
    BY <1>3
  <2> QED
    BY <1>1, <2>1 DEF LinkedAt
<1>6. /\ LastBefore(L, key, key[n], u) /\ u \in L \cup {Header} /\ u # n
      /\ u \in Places /\ n \in Places
  BY <1>1, <1>3, <1>4, <1>5 DEF LastBefore, Places
<1>7. \A p \in Places, i \in Levels :
        forward'[p][i] = IF i = j /\ p = u THEN n
                         ELSE IF i = j /\ p = n THEN forward[u][j] ELSE forward[p][i]
  BY <1>2, <1>3, <1>6 DEF Linked, ListTypeOK
<1>8. /\ LinkedAt(j)' = L \cup {n}
      /\ \A i \in Levels : i # j => LinkedAt(i)' = LinkedAt(i)
  <2>1. ASSUME NEW i \in Levels
        PROVE  LinkedAt(i)' = {m \in alive : i <= height[m] /\ (m = n => i <= j)}
    <3>1. /\ LinkedAt(i)' = {m \in alive : /\ i <= height[m]
                                          /\ (wpc' = "link" /\ m = wnode' => i < wlevel')
                                          /\ (wpc' = "unlink" /\ m = wnode' => i >= wlevel')}
          /\ i \in Int /\ j \in Int /\ height[n] \in Int
      BY <1>1, <1>2, <1>3 DEF LinkedAt
    <3>2. CASE wpc' = "idle"
      <4>1. j = height[n]
        BY <1>1, <1>2, <3>1, <3>2
      <4> QED
        BY <3>1, <3>2, <4>1
    <3>3. CASE wpc' = "link" /\ wlevel' = j + 1 /\ wnode' = n
      <4>1. i <= j <=> i < j + 1
        BY <3>1
      <4> QED
        BY <3>1, <3>3, <4>1
    <3> QED
      BY <1>1, <1>2, <3>2, <3>3
  <2>2. ASSUME NEW i \in Levels
        PROVE  LinkedAt(i) = {m \in alive : i <= height[m] /\ (m = n => i < j)}
    BY <1>1 DEF LinkedAt
  <2>3. \A i \in Levels : i # j => (i <= j <=> i < j)
    BY <1>3
  <2>4. j <= j /\ ~(j < j)
    BY <1>3
  <2>5. L = {m \in alive : j <= height[m] /\ (m = n => j < j)}
    BY <1>3, <2>2
  <2>6. L \cup {n} = {m \in alive : j <= height[m] /\ (m = n => j <= j)}
    BY <1>1, <2>4, <2>5
  <2>7. LinkedAt(j)' = {m \in alive : j <= height[m] /\ (m = n => j <= j)}
    BY <1>3, <2>1
  <2>8. \A i \in Levels : i # j => LinkedAt(i)' = LinkedAt(i)
    BY <2>1, <2>2, <2>3
  <2> QED
    BY <2>6, <2>7, <2>8
<1>9. OrderInv'
  <2>1. Sorted(LinkedAt(j), Pointers(j), key)'
    <3> PICK f, g : f = Pointers(j) /\ g = Pointers(j)'
      OBVIOUS
    <3>1. /\ \A p \in Places : f[p] = forward[p][j]
          /\ \A p \in Places : g[p] = forward'[p][j]
      BY DEF Pointers
    <3>2. Sorted(L, f, key)
      BY <1>3 DEF ListInv, OrderInv
    <3>3. Keyed(L \cup {n}, key)
      BY <1>1, <1>3, <1>4 DEF Keyed
    <3>4. /\ g[n] = f[u] /\ g[u] = n
          /\ \A p \in L \cup {Header} : p # u => g[p] = f[p]
      <4>1. L \cup {Header} \subseteq Places
        BY <1>3, <1>4 DEF Places
      <4>2. g[n] = f[u] /\ g[u] = n
        BY <1>3, <1>6, <1>7, <3>1
      <4>3. \A p \in L \cup {Header} : p # n
        BY <1>3, <1>5, <1>4
      <4>4. \A p \in L \cup {Header} : p # u => g[p] = f[p]
        BY <1>3, <1>7, <3>1, <4>1, <4>3
      <4> QED
        BY <4>2, <4>4
    <3>5. Sorted(L \cup {n}, g, key)
      BY <1>4, <1>5, <1>6, <3>2, <3>3, <3>4, InsertOne
    <3> QED
      BY <1>2, <1>8, <3>5
  <2>2. ASSUME NEW i \in Levels, i # j PROVE Sorted(LinkedAt(i), Pointers(i), key)'
    <3>1. Pointers(i)' = Pointers(i)
      BY <1>2, <1>7, <2>2 DEF Pointers
    <3> QED
      BY <1>2, <1>8, <2>2, <3>1 DEF ListInv, OrderInv
  <2>3. \A i \in Levels : Sorted(LinkedAt(i), Pointers(i), key)'
    <3> SUFFICES ASSUME NEW i \in Levels PROVE Sorted(LinkedAt(i), Pointers(i), key)'
      OBVIOUS
    <3>1. CASE i = j
      BY <2>1, <3>1
    <3>2. CASE i # j
      BY <2>2, <3>2
    <3> QED
      BY <3>1, <3>2
  <2>4. /\ \A m, x \in alive' : key'[m] = key'[x] => m = x
        /\ \A m \in alive' : key'[m] \in Keys /\ value'[m] \in Values /\ height'[m] <= curLevel'
    BY <1>2 DEF ListInv, OrderInv
  <2> QED
    BY <2>3, <2>4 DEF OrderInv
<1>10. NullInv'
  <2> SUFFICES ASSUME NEW m \in Nodes, NEW i \in Levels,
                      \/ m \notin alive
                      \/ i > height[m]
                      \/ wpc' = "link" /\ m = wnode' /\ i >= wlevel'
               PROVE  forward'[m][i] = Nil
    BY <1>2 DEF NullInv
  <2>1. \/ m \notin alive
        \/ i > height[m]
        \/ wpc = "link" /\ m = n /\ i >= j
    BY <1>1, <1>2, <1>3
  <2>2. forward[m][i] = Nil
    BY <2>1 DEF ListInv, NullInv
  <2>3. ~(i = j /\ m = n)
    BY <1>1, <1>2, <1>3
  <2>4. ~(i = j /\ m = u)
    <3> SUFFICES ASSUME i = j, m = u PROVE FALSE
      OBVIOUS
    <3>1. u \in L /\ u \in alive
      BY <1>3, <1>4, <1>6
    <3>2. j <= height[u]
      BY <3>1 DEF LinkedAt
    <3> QED
      BY <1>3, <1>6, <2>1, <3>1, <3>2
  <2>5. m \in Places
    BY DEF Places
  <2> QED
    BY <1>7, <2>2, <2>3, <2>4, <2>5
<1>11. WriterInv'
  <2>1. CASE wpc' = "idle"
    BY <2>1 DEF WriterInv
  <2>2. CASE /\ j < height[n] /\ wlevel' = j + 1
             /\ count' = count /\ wpc' = wpc /\ wnode' = n /\ update' = update
    <3>1. ASSUME NEW i \in Levels
          PROVE  LastBefore(LinkedAt(i), key, key[wnode], update[i])'
      <4>1. LastBefore(LinkedAt(i), key, key[n], update[i])
        BY <1>1
      <4>2. ~(key[n] < key[n])
        BY <1>1, <1>4 DEF Keyed
      <4>3. LinkedAt(i)' \in {LinkedAt(i), LinkedAt(i) \cup {n}}
        BY <1>8
      <4>4. LastBefore(LinkedAt(i)', key, key[n], update[i])
        BY <4>1, <4>2, <4>3 DEF LastBefore
      <4> QED
        BY <1>2, <2>2, <4>4
    <3>2. /\ wnode' \in alive' /\ answer' = "absent"
          /\ wnode' = n /\ wlevel' = j + 1 /\ height' = height
      BY <1>1, <1>2, <2>2
    <3>3. j + 1 <= height[n]
      <4>1. j \in Int /\ height[n] \in Int
        BY <1>3
      <4> QED
        BY <2>2, <4>1
    <3>4. wlevel' <= height'[wnode']
      BY <3>2, <3>3
    <3>5. wpc' = "link"
      BY <1>1, <2>2
    <3> QED
      BY <3>1, <3>2, <3>4, <3>5, Zenon DEF WriterInv
  <2> QED
    BY <1>2, <2>1, <2>2
<1>12. CountInv'
  BY <1>1, <1>2 DEF ListInv, CountInv
<1>13. forward' # forward
  <2>1. FirstAfter(L, key, u, forward[u][j])
    BY <1>3, <1>6 DEF ListInv, OrderInv, Sorted, Pointers
  <2>2. forward[u][j] # n
    BY <1>3, <1>4, <1>5, <2>1, SkipListAssumption DEF FirstAfter
  <2> QED
    BY <1>3, <1>6, <1>7, <2>2
<1>14. ListTypeOK'
  <2>1. forward' \in [Places -> [Levels -> Nodes \cup {Nil}]]
    <3>1. forward[u][j] \in Nodes \cup {Nil}
      BY <1>3, <1>6 DEF ListTypeOK
    <3>2. [forward EXCEPT ![n][j] = forward[u][j]] \in [Places -> [Levels -> Nodes \cup {Nil}]]
      BY <1>3, <1>6, <3>1 DEF ListTypeOK
    <3>3. forward' = [[forward EXCEPT ![n][j] = forward[u][j]] EXCEPT ![u][j] = n]
      BY <1>2 DEF Linked
    <3> QED
      BY <1>3, <1>6, <3>2, <3>3
  <2>2. wpc' = "link" \/ Unlock
    BY <1>1, <1>2 DEF Link
  <2>3. wlevel' \in 0 .. (MaxLevel + 1) /\ count' \in Nat
    <3>1. CASE wlevel' = j + 1 /\ count' = count
      BY <1>3, <3>1, SkipListAssumption DEF ListTypeOK, Levels
    <3>2. CASE Unlock /\ count' = count + 1
      BY <3>2, SkipListAssumption DEF Unlock, ListTypeOK
    <3> QED
      BY <3>1, <3>2 DEF Link
  <2>4. /\ update' \in [Levels -> Places] /\ wnode' \in Nodes \cup {Nil}
        /\ wvalue' \in Values \cup {Absent}
        /\ wpc' \in {"idle", "link"}
    <3>1. CASE Unlock
      BY <3>1 DEF Unlock, Places
    <3>2. CASE UNCHANGED <<wpc, wnode, wvalue, update>>
      BY <1>1, <3>2 DEF ListTypeOK
    <3> QED
      BY <3>1, <3>2 DEF Link
  <2> QED
    BY <1>2, <2>1, <2>3, <2>4 DEF ListTypeOK
<1> QED
  BY <1>3, <1>5, <1>8, <1>9, <1>10, <1>11, <1>12, <1>13, <1>14 DEF ListInv

LEMMA BeginDeleteStep ==
  ASSUME ListTypeOK, ListInv, NEW k \in Keys, BeginDelete(k)
  PROVE  ListInv' /\ ListTypeOK' /\ \A i \in Levels : LinkedAt(i)' = LinkedAt(i)
<1>1. /\ wpc = "idle" /\ wpc' = "unlink" /\ wlevel' = 0
      /\ wnode' = Candidate(k) /\ update' = Predecessors(k)
      /\ UNCHANGED <<alive, key, value, height, forward, curLevel, count>>
      /\ Holds(Candidate(k), k) /\ k \in Int
  BY SkipListAssumption DEF BeginDelete, listVars
<1>2. wnode' \in alive /\ key[wnode'] = k
  BY <1>1, CandidateFact DEF ListInv, Holds
<1>3. \A i \in Levels : i >= 0 /\ ~(i < 0)
  BY SkipListAssumption DEF Levels
<1>4. \A i \in Levels : LinkedAt(i)' = LinkedAt(i)
  BY <1>1, <1>3 DEF LinkedAt
<1>5. \A i \in Levels : Pointers(i)' = Pointers(i)
  BY <1>1 DEF Pointers
<1>6. OrderInv'
  BY <1>1, <1>4, <1>5 DEF ListInv, OrderInv
<1>7. NullInv'
  BY <1>1 DEF ListInv, NullInv
<1>8. WriterInv'
  <2>1. ASSUME NEW i \in Levels
        PROVE  LastBefore(LinkedAt(i), key, key[wnode], update[i])'
    <3>1. LastBefore(LinkedAt(i), key, k, Predecessors(k)[i])
      BY <1>1, PredecessorsFact DEF ListInv
    <3> QED
      BY <1>1, <1>2, <1>4, <3>1
  <2>2. wlevel' <= height'[wnode'] + 1 /\ ~(wlevel' > 0)
    <3>1. height[wnode'] \in Nat
      BY <1>2, SkipListAssumption DEF ListTypeOK, Levels
    <3> QED
      BY <1>1, <3>1
  <2>3. \A i \in Levels : ~(i < wlevel')
    BY <1>1, <1>3
  <2> QED
    BY <1>1, <1>2, <2>1, <2>2, <2>3, Zenon DEF WriterInv
<1>9. CountInv'
  BY <1>1 DEF ListInv, CountInv
<1>10. ListTypeOK'
  <2>1. Predecessors(k) \in [Levels -> Places]
    BY <1>1, PredecessorsFact DEF ListInv
  <2>2. UNCHANGED <<wvalue, answer>> /\ 0 \in 0 .. (MaxLevel + 1)
    BY SkipListAssumption DEF BeginDelete
  <2> QED
    BY <1>1, <1>2, <2>1, <2>2 DEF ListTypeOK
<1> QED
  BY <1>4, <1>6, <1>7, <1>8, <1>9, <1>10 DEF ListInv

\* Taking a node out at one level.
LEMMA UnlinkStep ==
  ASSUME ListTypeOK, ListInv, Unlink
  PROVE  /\ ListInv'
         /\ \A i \in Levels :
              LinkedAt(i)' = IF i = wlevel THEN LinkedAt(i) \ {wnode} ELSE LinkedAt(i)
         /\ wnode \in LinkedAt(wlevel) /\ wlevel \in Levels
         /\ ListTypeOK'
<1> PICK n, j, u, L : n = wnode /\ j = wlevel /\ u = update[j] /\ L = LinkedAt(j)
  OBVIOUS
<1>1. /\ wpc = "unlink" /\ n \in alive /\ n \in Nodes
      /\ \A i \in Levels : LastBefore(LinkedAt(i), key, key[n], update[i])
      /\ \A i \in Levels : i < j => FirstAfter(LinkedAt(i), key, n, forward[n][i])
      /\ j <= curLevel /\ forward[u][j] = n
  BY DEF Unlink, UnlinkDone, ListInv, WriterInv, ListTypeOK
<1>2. /\ alive' = alive /\ key' = key /\ value' = value /\ height' = height
      /\ curLevel' = curLevel /\ count' = count
      /\ wpc' = "unlink" /\ wnode' = n /\ update' = update
      /\ forward' = [forward EXCEPT ![u][j] = forward[n][j]]
      /\ answer' = "present" /\ wlevel' = j + 1
  BY DEF Unlink
<1>3. /\ j \in Levels /\ \A i \in Levels : i \in Int
      /\ \A m \in alive : height[m] \in Int
  BY <1>1, SkipListAssumption DEF ListTypeOK, Levels
<1>4. /\ \A i \in Levels : LinkedAt(i) \subseteq alive /\ Header \notin LinkedAt(i)
      /\ alive \subseteq Nodes /\ Header \notin Nodes /\ Header # Nil /\ Nil \notin Nodes
      /\ Keyed(L, key) /\ key[n] \in Int
  BY <1>1, LevelKeyed, SkipListAssumption DEF ListInv, Keyed
<1>5. /\ LastBefore(L, key, key[n], u) /\ u \in L \cup {Header} /\ u # n
      /\ u \in Places /\ n \in Places
  BY <1>1, <1>3, <1>4 DEF LastBefore, Places
<1>6. \A p \in Places, i \in Levels :
        forward'[p][i] = IF i = j /\ p = u THEN forward[n][j] ELSE forward[p][i]
  BY <1>2, <1>3, <1>5 DEF ListTypeOK
<1> PICK f, g : f = Pointers(j) /\ g = Pointers(j)'
  OBVIOUS
<1>7. /\ \A p \in Places : f[p] = forward[p][j]
      /\ \A p \in Places : g[p] = forward'[p][j]
      /\ Sorted(L, f, key)
  BY <1>3 DEF Pointers, ListInv, OrderInv
<1>8. n \in L
  <2>1. f[u] = n /\ FirstAfter(L, key, u, f[u])
    BY <1>1, <1>5, <1>7 DEF Sorted
  <2> QED
    BY <1>1, <1>4, <2>1 DEF FirstAfter
<1>9. /\ Sorted(L \ {n}, g, key)
      /\ FirstAfter(L \ {n}, key, n, f[n])
  <2>1. /\ f[u] = n /\ g[u] = f[n]
        /\ \A p \in L \cup {Header} : p # u => g[p] = f[p]
    <3>1. L \cup {Header} \subseteq Places
      BY <1>3, <1>4 DEF Places
    <3> QED
      BY <1>1, <1>3, <1>5, <1>6, <1>7, <3>1
  <2>2. Keyed(L, key) /\ Header # Nil /\ Sorted(L, f, key) /\ n \in L /\ u \in L \cup {Header}
    BY <1>4, <1>5, <1>7, <1>8
  <2>3. \A A, x, y, p, q, K :
          /\ Keyed(A, K) /\ Header # Nil /\ Sorted(A, x, K) /\ p \in A /\ q \in A \cup {Header}
          /\ x[q] = p /\ y[q] = x[p] /\ \A z \in A \cup {Header} : z # q => y[z] = x[z]
          => Sorted(A \ {p}, y, K) /\ FirstAfter(A \ {p}, K, p, x[p])
    BY RemoveOne
  <2> QED
    BY <2>1, <2>2, <2>3
<1>10. /\ LinkedAt(j)' = L \ {n}
       /\ \A i \in Levels : i # j => LinkedAt(i)' = LinkedAt(i)
  <2>1. ASSUME NEW i \in Levels
        PROVE  LinkedAt(i)' = {m \in alive : i <= height[m] /\ (m = n => i > j)}
    <3>1. i >= j + 1 <=> i > j
      BY <1>3
    <3> QED
      BY <1>2, <3>1 DEF LinkedAt
  <2>2. ASSUME NEW i \in Levels
        PROVE  LinkedAt(i) = {m \in alive : i <= height[m] /\ (m = n => i >= j)}
    BY <1>1 DEF LinkedAt
  <2>3. \A i \in Levels : i # j => (i > j <=> i >= j)
    BY <1>3
  <2>4. j >= j /\ ~(j > j)
    BY <1>3
  <2>5. /\ L = {m \in alive : j <= height[m] /\ (m = n => j >= j)}
        /\ LinkedAt(j)' = {m \in alive : j <= height[m] /\ (m = n => j > j)}
    BY <1>3, <2>1, <2>2
  <2>6. \A i \in Levels : i # j => LinkedAt(i)' = LinkedAt(i)
    BY <2>1, <2>2, <2>3
  <2> QED
    BY <2>4, <2>5, <2>6
<1>11. OrderInv'
  <2>1. Sorted(LinkedAt(j), Pointers(j), key)'
    BY <1>2, <1>9, <1>10
  <2>2. ASSUME NEW i \in Levels, i # j PROVE Sorted(LinkedAt(i), Pointers(i), key)'
    <3>1. Pointers(i)' = Pointers(i)
      BY <1>6, <2>2 DEF Pointers
    <3> QED
      BY <1>2, <1>10, <2>2, <3>1 DEF ListInv, OrderInv
  <2>3. \A i \in Levels : Sorted(LinkedAt(i), Pointers(i), key)'
    <3> SUFFICES ASSUME NEW i \in Levels PROVE Sorted(LinkedAt(i), Pointers(i), key)'
      OBVIOUS
    <3>1. CASE i = j
      BY <2>1, <3>1
    <3>2. CASE i # j
      BY <2>2, <3>2
    <3> QED
      BY <3>1, <3>2
  <2>4. /\ \A m, x \in alive' : key'[m] = key'[x] => m = x
        /\ \A m \in alive' : key'[m] \in Keys /\ value'[m] \in Values /\ height'[m] <= curLevel'
    BY <1>2 DEF ListInv, OrderInv
  <2> QED
    BY <2>3, <2>4 DEF OrderInv
<1>12. NullInv'
  <2> SUFFICES ASSUME NEW m \in Nodes, NEW i \in Levels, m \notin alive \/ i > height[m]
               PROVE  forward'[m][i] = Nil
    BY <1>2 DEF NullInv
  <2>1. forward[m][i] = Nil
    BY DEF ListInv, NullInv
  <2>2. ~(i = j /\ m = u)
    <3> SUFFICES ASSUME i = j, m = u PROVE FALSE
      OBVIOUS
    <3>1. u \in L /\ u \in alive
      BY <1>3, <1>4, <1>5
    <3>2. j <= height[u]
      BY <3>1 DEF LinkedAt
    <3> QED
      BY <1>3, <3>1, <3>2
  <2>3. m \in Places
    BY DEF Places
  <2> QED
    BY <1>6, <2>1, <2>2, <2>3
<1>13. WriterInv'
  <2>1. ASSUME NEW i \in Levels
        PROVE  LastBefore(LinkedAt(i), key, key[wnode], update[i])'
    <3>1. LastBefore(LinkedAt(i), key, key[n], update[i])
      BY <1>1
    <3>2. ~(key[n] < key[n])
      BY <1>4
    <3>3. LinkedAt(i)' \in {LinkedAt(i), LinkedAt(i) \ {n}} /\ n # Header
      BY <1>1, <1>4, <1>10
    <3>4. LastBefore(LinkedAt(i)', key, key[n], update[i])
      BY <3>1, <3>2, <3>3 DEF LastBefore
    <3> QED
      BY <1>2, <3>4
  <2>2. wnode' \in alive' /\ answer' = "present" /\ wpc' = "unlink"
    BY <1>1, <1>2
  <2>3. wlevel' <= height'[wnode'] + 1
    <3>1. j <= height[n] /\ j \in Int /\ height[n] \in Int
      BY <1>1, <1>3, <1>8 DEF LinkedAt
    <3> QED
      BY <1>2, <3>1
  <2>4. ASSUME NEW i \in Levels, i < wlevel'
        PROVE  FirstAfter(LinkedAt(i), key, wnode, forward[wnode][i])'
    <3>1. forward'[n][i] = forward[n][i]
      BY <1>5, <1>6
    <3>2. CASE i = j
      <4>1. FirstAfter(LinkedAt(j)', key, n, forward[n][j])
        BY <1>5, <1>7, <1>9, <1>10
      <4> QED
        BY <1>2, <3>1, <3>2, <4>1
    <3>3. CASE i # j
      <4>1. i < j
        BY <1>2, <1>3, <2>4, <3>3
      <4>2. FirstAfter(LinkedAt(i)', key, n, forward[n][i])
        BY <1>1, <1>10, <3>3, <4>1
      <4> QED
        BY <1>2, <3>1, <4>2
    <3> QED
      BY <3>2, <3>3
  <2> QED
    BY <2>1, <2>2, <2>3, <2>4, Zenon DEF WriterInv
<1>14. CountInv'
  BY <1>1, <1>2 DEF ListInv, CountInv
<1>15. ListTypeOK'
  <2>1. forward' \in [Places -> [Levels -> Nodes \cup {Nil}]]
    BY <1>2, <1>3, <1>5 DEF ListTypeOK
  <2>2. wlevel' \in 0 .. (MaxLevel + 1)
    BY <1>2, <1>3, SkipListAssumption DEF Levels
  <2>3. wvalue' = wvalue
    BY DEF Unlink
  <2> QED
    BY <1>1, <1>2, <2>1, <2>2, <2>3 DEF ListTypeOK
<1> QED
  BY <1>3, <1>8, <1>10, <1>11, <1>12, <1>13, <1>14, <1>15 DEF ListInv

\* A node is freed when it is linked in nowhere.
LEMMA FreeStep ==
  ASSUME ListTypeOK, ListInv, Free
  PROVE  /\ ListInv'
         /\ \A i \in Levels : LinkedAt(i)' = LinkedAt(i)
         /\ wnode \notin LinkedAt(0)
         /\ ListTypeOK'
<1> PICK n, j, u : n = wnode /\ j = wlevel /\ u = update[j]
  OBVIOUS
<1>1. /\ wpc = "unlink" /\ n \in alive /\ n \in Nodes /\ height[n] <= curLevel
      /\ \A i \in Levels : LastBefore(LinkedAt(i), key, key[n], update[i])
      /\ j <= curLevel => forward[u][j] # n
  BY DEF Free, UnlinkDone, ListInv, OrderInv, WriterInv, ListTypeOK
<1>2. /\ alive' = alive \ {n} /\ key' = [key EXCEPT ![n] = 0]
      /\ value' = [value EXCEPT ![n] = Absent] /\ height' = [height EXCEPT ![n] = 0]
      /\ forward' = [forward EXCEPT ![n] = [i \in Levels |-> Nil]]
      /\ wpc' = "shrink" /\ curLevel' = curLevel /\ count' = count
  BY DEF Free
<1>3. /\ \A i \in Levels : i \in Int
      /\ height[n] \in Levels /\ j \in Nat /\ curLevel \in Levels
      /\ n \in Places /\ Header # n /\ n # Nil
  BY <1>1, SkipListAssumption DEF ListTypeOK, Levels, Places
<1>4. /\ \A i : LinkedAt(i) \subseteq alive /\ Header \notin LinkedAt(i) /\ Keyed(LinkedAt(i), key)
      /\ alive \subseteq Nodes /\ key[n] \in Int
  BY <1>1, LevelKeyed, SkipListAssumption DEF ListInv, Keyed
<1>5. height[n] < j
  <2> SUFFICES ASSUME j <= height[n] PROVE FALSE
    BY <1>3
  <2>1. PICK L, f : L = LinkedAt(j) /\ f = Pointers(j)
    OBVIOUS
  <2>2. j \in Levels /\ j <= curLevel
    BY <1>1, <1>3, SkipListAssumption DEF Levels
  <2>3. n \in L
    BY <2>1, <1>1, <1>3, <2>2 DEF LinkedAt
  <2>4. /\ LastBefore(L, key, key[n], u) /\ Sorted(L, f, key) /\ Keyed(L, key)
        /\ u \in Places
    BY <1>1, <1>4, <2>1, <2>2 DEF ListInv, OrderInv, LastBefore, Places
  <2>5. /\ f[u] \in L \cup {Nil}
        /\ f[u] # Nil => key[f[u]] >= key[n]
        /\ \A m \in L : key[m] >= key[n] => f[u] # Nil /\ key[f[u]] <= key[m]
    <3>1. Keyed(L, key) /\ Sorted(L, f, key)
      BY <2>4
    <3>2. ASSUME NEW k \in Int, LastBefore(L, key, k, u)
          PROVE  /\ f[u] \in L \cup {Nil}
                 /\ f[u] # Nil => key[f[u]] >= k
                 /\ \A m \in L : key[m] >= k => f[u] # Nil /\ key[f[u]] <= key[m]
      BY <3>1, <3>2, NextOfLast
    <3>3. key[n] \in Int /\ LastBefore(L, key, key[n], u)
      BY <1>4, <2>4
    <3> QED
      BY <3>2, <3>3
  <2>6. f[u] \in L /\ key[f[u]] >= key[n] /\ key[f[u]] <= key[n]
    BY <1>4, <2>3, <2>5
  <2>7. f[u] = n
    BY <1>4, <2>3, <2>4, <2>6 DEF Keyed
  <2> QED
    BY <1>1, <2>1, <2>2, <2>4, <2>7 DEF Pointers
<1>6. ASSUME NEW i \in Levels
      PROVE  LinkedAt(i)' = LinkedAt(i) /\ n \notin LinkedAt(i)
  <2>1. n \notin LinkedAt(i)
    BY <1>1, <1>3, <1>5 DEF LinkedAt
  <2>2. \A m \in alive \ {n} : height'[m] = height[m]
    BY <1>2, <1>4 DEF ListTypeOK
  <2>3. LinkedAt(i)' = {m \in alive \ {n} : i <= height'[m]}
    BY <1>2 DEF LinkedAt
  <2>4. LinkedAt(i) \ {n} = {m \in alive \ {n} : i <= height[m]}
    BY <1>1 DEF LinkedAt
  <2> QED
    BY <2>1, <2>2, <2>3, <2>4
<1>7. /\ \A m \in alive \ {n} : /\ key'[m] = key[m] /\ value'[m] = value[m]
                                /\ height'[m] = height[m]
      /\ \A p \in Places, i \in Levels :
           forward'[p][i] = IF p = n THEN Nil ELSE forward[p][i]
  BY <1>2, <1>3, <1>4 DEF ListTypeOK
<1>8. OrderInv'
  <2>1. ASSUME NEW i \in Levels PROVE Sorted(LinkedAt(i), Pointers(i), key)'
    <3> PICK L, f, g, K : L = LinkedAt(i) /\ f = Pointers(i) /\ g = Pointers(i)' /\ K = key'
      OBVIOUS
    <3>1. Sorted(L, f, key) /\ Header \notin L
      BY <1>4 DEF ListInv, OrderInv
    <3>2. \A m \in L : K[m] = key[m]
      BY <1>4, <1>6, <1>7
    <3>3. L \cup {Header} \subseteq Places /\ n \notin L \cup {Header}
      BY <1>3, <1>4, <1>6 DEF Places
    <3>4. \A p \in L \cup {Header} : g[p] = f[p]
      BY <1>7, <3>3 DEF Pointers
    <3>5. Sorted(L, g, K)
      BY <3>1, <3>2, <3>4, SameSorted
    <3> QED
      BY <1>6, <3>5
  <2>2. /\ \A m, x \in alive' : key'[m] = key'[x] => m = x
        /\ \A m \in alive' : key'[m] \in Keys /\ value'[m] \in Values /\ height'[m] <= curLevel'
    BY <1>2, <1>7 DEF ListInv, OrderInv
  <2> QED
    BY <2>1, <2>2 DEF OrderInv
<1>9. NullInv'
  <2> SUFFICES ASSUME NEW m \in Nodes, NEW i \in Levels,
                      m \notin alive \ {n} \/ i > height'[m]
               PROVE  forward'[m][i] = Nil
    BY <1>2 DEF NullInv
  <2>1. m \in Places
    BY DEF Places
  <2>2. CASE m = n
    BY <1>7, <2>1, <2>2
  <2>3. CASE m # n
    <3>1. m \notin alive \/ i > height[m]
      BY <1>7, <2>3
    <3> QED
      BY <1>7, <2>1, <2>3, <3>1 DEF ListInv, NullInv
  <2> QED
    BY <2>2, <2>3
<1>10. WriterInv'
  BY <1>2 DEF WriterInv
<1>11. CountInv'
  <2>1. IsFiniteSet(alive') /\ Cardinality(alive') = count' - 1
    BY <1>1, <1>2, FS_RemoveElement DEF ListInv, CountInv
  <2> QED
    BY <1>2, <2>1 DEF CountInv
<1>12. ListTypeOK'
  <2>1. forward' \in [Places -> [Levels -> Nodes \cup {Nil}]]
    BY <1>2 DEF ListTypeOK
  <2>2. height' \in [Nodes -> Levels]
    <3>1. 0 \in Levels
      BY SkipListAssumption DEF Levels
    <3> QED
      BY <1>2, <3>1 DEF ListTypeOK
  <2>3. UNCHANGED <<wnode, wvalue, wlevel, update, answer>>
    BY DEF Free
  <2> QED
    BY <1>2, <2>1, <2>2, <2>3 DEF ListTypeOK
<1>13. 0 \in Levels
  BY SkipListAssumption DEF Levels
<1> QED
  BY <1>6, <1>8, <1>9, <1>10, <1>11, <1>12, <1>13 DEF ListInv

\* The level that is left on top holds a node, and no node is higher.
LEMMA ShrinkStep ==
  ASSUME ListTypeOK, ListInv, Shrink
  PROVE  ListInv' /\ ListTypeOK' /\ \A i : LinkedAt(i)' = LinkedAt(i)
<1> DEFINE Top(i) == /\ i = 0 \/ forward[Header][i] # Nil
                     /\ \A l \in (i + 1) .. curLevel : forward[Header][l] = Nil
<1>1. /\ wpc = "shrink" /\ wpc' = "idle" /\ count' = count - 1
      /\ UNCHANGED <<alive, key, value, height, forward>>
      /\ curLevel' = CHOOSE i \in 0 .. curLevel : Top(i)
  BY DEF Shrink, Unlock
<1>2. curLevel \in Levels /\ curLevel \in Nat /\ MaxLevel \in Nat
  BY SkipListAssumption DEF ListTypeOK, Levels
<1>3. \E i \in 0 .. curLevel : Top(i)
  <2> DEFINE S == {i \in 0 .. curLevel : i = 0 \/ forward[Header][i] # Nil}
             rank == [i \in S |-> curLevel - i]
  <2>1. 0 \in S
    BY <1>2
  <2>2. rank \in [S -> Nat]
    BY <1>2
  <2>3. PICK i \in S : \A l \in S : rank[i] <= rank[l]
    <3> HIDE DEF S, rank
    <3> QED
      BY <2>1, <2>2, LeastRank
  <2>4. \A l \in S : curLevel - i <= curLevel - l
    BY <2>3
  <2>5. ASSUME NEW l \in (i + 1) .. curLevel PROVE forward[Header][l] = Nil
    <3>1. l \notin S
      BY <1>2, <2>4
    <3> QED
      BY <1>2, <3>1
  <2> QED
    BY <2>5
<1> PICK c : c = curLevel'
  OBVIOUS
<1>4. c \in 0 .. curLevel /\ Top(c)
  <2> HIDE DEF Top
  <2> QED
    BY <1>1, <1>3
<1>5. c \in Levels /\ c \in Nat /\ c <= curLevel
  BY <1>2, <1>4 DEF Levels
<1>6. \A i : LinkedAt(i)' = LinkedAt(i)
  BY <1>1 DEF LinkedAt
<1>7. \A i : Pointers(i)' = Pointers(i)
  BY <1>1 DEF Pointers
<1>8. \A i \in Levels : FirstAfter(LinkedAt(i), key, Header, forward[Header][i])
  BY DEF ListInv, OrderInv, Sorted, Pointers, Places
<1>9. ASSUME NEW n \in alive PROVE height[n] <= c
  <2> SUFFICES ASSUME ~(height[n] <= c) PROVE FALSE
    OBVIOUS
  <2> PICK h : h = height[n]
    OBVIOUS
  <2>1. h \in Levels /\ h \in Int /\ h <= curLevel
    BY <1>2 DEF ListTypeOK, ListInv, OrderInv, Levels
  <2>2. n \in LinkedAt(h)
    BY <1>1, <2>1 DEF LinkedAt
  <2>3. forward[Header][h] # Nil
    BY <1>8, <2>1, <2>2 DEF FirstAfter, After
  <2>4. h \in (c + 1) .. curLevel
    BY <1>2, <1>5, <2>1
  <2> QED
    BY <1>4, <2>3, <2>4
<1>10. OrderInv'
  <2>1. ASSUME NEW i \in Levels PROVE Sorted(LinkedAt(i), Pointers(i), key)'
    BY <1>1, <1>6, <1>7 DEF ListInv, OrderInv
  <2>2. /\ \A m, x \in alive' : key'[m] = key'[x] => m = x
        /\ \A m \in alive' : key'[m] \in Keys /\ value'[m] \in Values /\ height'[m] <= curLevel'
    BY <1>1, <1>9 DEF ListInv, OrderInv
  <2> QED
    BY <2>1, <2>2 DEF OrderInv
<1>11. NullInv' /\ WriterInv'
  BY <1>1 DEF ListInv, NullInv, WriterInv
<1>12. CountInv' /\ count' \in Nat
  <2>1. IsFiniteSet(alive) /\ Cardinality(alive) = count'
    BY <1>1 DEF ListInv, CountInv
  <2>2. ASSUME c > 0 PROVE \E n \in alive : height[n] = c
    <3> PICK n : n = forward[Header][c]
      OBVIOUS
    <3>1. n # Nil
      BY <1>4, <1>5, <2>2
    <3>2. n \in LinkedAt(c)
      BY <1>5, <1>8, <3>1 DEF FirstAfter
    <3>3. n \in alive /\ c <= height[n] /\ height[n] \in Int
      BY <1>2, <3>2 DEF LinkedAt, ListTypeOK, Levels
    <3> QED
      BY <1>5, <1>9, <3>3
  <2>3. count' \in Nat
    BY <2>1, FS_CardinalityType
  <2> QED
    BY <1>1, <2>1, <2>2, <2>3 DEF CountInv
<1>13. ListTypeOK'
  BY <1>1, <1>5, <1>12, SkipListAssumption DEF ListTypeOK, Shrink, Unlock, Places
<1> QED
  BY <1>6, <1>10, <1>11, <1>12, <1>13 DEF ListInv

\* Every step of the writer keeps the list in order.
LEMMA WriterStep ==
  ASSUME ListTypeOK, ListInv, Insert \/ Delete
  PROVE  ListTypeOK' /\ ListInv'
<1>1. CASE \/ \E k \in Keys, v \in Values : BeginAssign(k, v)
           \/ EndAssign
           \/ \E k \in Keys : DeleteMissing(k)
  BY <1>1, AssignStep
<1>2. CASE \E k \in Keys, v \in Values : CreateNode(k, v)
  BY <1>2, CreateStep
<1>3. CASE Link
  BY <1>3, LinkStep
<1>4. CASE \E k \in Keys : BeginDelete(k)
  BY <1>4, BeginDeleteStep
<1>5. CASE Unlink
  BY <1>5, UnlinkStep
<1>6. CASE Free
  BY <1>6, FreeStep
<1>7. CASE Shrink
  BY <1>7, ShrinkStep
<1> QED
  BY <1>1, <1>2, <1>3, <1>4, <1>5, <1>6, <1>7, Zenon DEF Insert, Delete

\* A search, and a step that changes nothing, leaves the list alone.
LEMMA IdleStep ==
  ASSUME UNCHANGED <<listVars, writerVars>>
  PROVE  /\ ListTypeOK => ListTypeOK'
         /\ ListInv => ListInv'
         /\ Chain' = Chain
         /\ Map' = Map
<1> USE DEF listVars, writerVars
<1>1. \A i : LinkedAt(i)' = LinkedAt(i) /\ Pointers(i)' = Pointers(i)
  BY DEF LinkedAt, Pointers
<1>2. ListTypeOK => ListTypeOK'
  BY DEF ListTypeOK
<1>3. OrderInv => OrderInv'
  BY <1>1 DEF OrderInv
<1>4. NullInv => NullInv'
  BY DEF NullInv
<1>5. WriterInv => WriterInv'
  BY <1>1 DEF WriterInv
<1>6. CountInv => CountInv'
  BY DEF CountInv
<1>7. Map' = Map
  BY DEF Map, Level
<1>8. Chain' = Chain
  BY <1>1 DEF Chain
<1> QED
  BY <1>8, <1>2, <1>3, <1>4, <1>5, <1>6, <1>7 DEF ListInv

----------------------------------------------------------------------------
(* The list as a map *)

\* A step of the writer is a step of the map or changes neither the map nor the
\* answer.
LEMMA MapStep ==
  ASSUME ListTypeOK, ListInv, Insert \/ Delete
  PROVE  Engine!Next \/ UNCHANGED <<Map, answer>>
<1>1. ListTypeOK' /\ ListInv'
  BY WriterStep
<1>2. Map = MapOf(LinkedAt(0), key, value) /\ Mapped(LinkedAt(0), key, value)
  BY MapIs
<1>3. (Map = MapOf(LinkedAt(0), key, value) /\ Mapped(LinkedAt(0), key, value))'
  BY <1>1, MapIs, PTL
<1> PICK L, K, V, M, N, W : /\ L = LinkedAt(0) /\ K = key /\ V = value
                            /\ M = LinkedAt(0)' /\ N = key' /\ W = value'
  OBVIOUS
<1>4. Map = MapOf(L, K, V) /\ Mapped(L, K, V) /\ Map' = MapOf(M, N, W) /\ Mapped(M, N, W)
  BY <1>2, <1>3
<1>5. 0 \in Levels /\ L \subseteq alive /\ alive \subseteq Nodes /\ Keyed(alive, key)
  BY LevelKeyed, SkipListAssumption DEF ListInv, Levels
<1>6. ASSUME M = L, \A n \in L : N[n] = K[n] /\ W[n] = V[n] PROVE Map' = Map
  BY <1>4, <1>6, SameMap
<1>7. /\ \A n \in L : Map[key[n]] = value[n] /\ value[n] \in Values /\ key[n] \in Keys
      /\ \A k \in Keys : (\A n \in L : key[n] # k) => Map[k] = Absent
      /\ Map \in [Keys -> Values \cup {Absent}]
  BY <1>4, MapOfFact DEF Mapped
<1>8. \A v \in Values : v # Absent
  BY SkipListAssumption
<1>9. CASE EndAssign
  <2> PICK n, v : n = wnode /\ v = wvalue
    OBVIOUS
  <2>1. /\ wpc = "assign" /\ n \in alive /\ n \in Nodes /\ v \in Values
        /\ W = [V EXCEPT ![n] = v] /\ N = K /\ M = L /\ answer' = "present"
    BY <1>5, <1>9, AssignStep DEF EndAssign, ListInv, WriterInv
  <2>2. n \in L /\ V \in [Nodes -> Values \cup {Absent}]
    <3>1. height[n] >= 0
      BY <2>1, SkipListAssumption DEF ListTypeOK, Levels
    <3> QED
      BY <2>1, <3>1 DEF LinkedAt, ListTypeOK
  <2>3. K[n] \in Keys /\ Map[K[n]] # Absent
    BY <1>7, <1>8, <2>2
  <2>4. \A x \in L : K[x] = K[n] => x = n
    BY <1>5, <2>2 DEF Keyed
  <2>5. W[n] = v /\ \A x \in L : x # n => W[x] = V[x]
    BY <1>5, <2>1, <2>2
  <2>6. MapOf(M, N, W) = [MapOf(L, K, V) EXCEPT ![K[n]] = v]
    <3>1. \A x \in L : K[x] # K[n] => x \in M /\ N[x] = K[x] /\ W[x] = V[x]
      BY <2>1, <2>5
    <3>2. \A x \in M : N[x] # K[n] => x \in L /\ N[x] = K[x]
      BY <2>1
    <3>3. \E x \in M : N[x] = K[n] /\ W[x] = v
      BY <2>1, <2>2, <2>5
    <3> QED
      BY <1>4, <2>3, <3>1, <3>2, <3>3, ChangedMap
  <2>7. Engine!Set(K[n], v)
    BY <1>4, <2>1, <2>3, <2>6 DEF Engine!Set, Engine!Found
  <2> QED
    BY <2>1, <2>3, <2>7 DEF Engine!Next
<1>10. CASE Link
  <2> PICK n, v : n = wnode /\ v = value[wnode]
    OBVIOUS
  <2>1. /\ wpc = "link" /\ n \in alive /\ N = K /\ W = V /\ answer' = "absent"
        /\ wlevel > 0 => answer = "absent"
        /\ M = IF wlevel = 0 THEN L \cup {n} ELSE L
        /\ wlevel = 0 => n \notin L
        /\ wlevel \in Nat /\ K[n] \in Keys /\ v \in Values
    BY <1>5, <1>10, LinkStep, SkipListAssumption
       DEF Link, ListInv, WriterInv, OrderInv, ListTypeOK, Levels
  <2>2. CASE wlevel > 0
    <3>1. M = L
      BY <2>1, <2>2
    <3> QED
      BY <1>6, <2>1, <2>2, <3>1
  <2>3. CASE wlevel = 0
    <3>1. \A x \in L : K[x] # K[n]
      BY <1>5, <2>1, <2>3 DEF Keyed
    <3>2. Map[K[n]] = Absent
      BY <1>7, <2>1, <3>1
    <3>3. MapOf(M, N, W) = [MapOf(L, K, V) EXCEPT ![K[n]] = v]
      <4>1. \A x \in L : K[x] # K[n] => x \in M /\ N[x] = K[x] /\ W[x] = V[x]
        BY <2>1, <2>3
      <4>2. \A x \in M : N[x] # K[n] => x \in L /\ N[x] = K[x]
        BY <2>1, <2>3
      <4>3. \E x \in M : N[x] = K[n] /\ W[x] = v
        BY <2>1, <2>3
      <4> QED
        BY <1>4, <2>1, <4>1, <4>2, <4>3, ChangedMap
    <3>4. Engine!Set(K[n], v)
      BY <1>4, <2>1, <3>2, <3>3 DEF Engine!Set, Engine!Found
    <3> QED
      BY <2>1, <3>4 DEF Engine!Next
  <2> QED
    BY <2>1, <2>2, <2>3
<1>11. CASE Unlink
  <2> PICK n : n = wnode
    OBVIOUS
  <2>1. /\ wpc = "unlink" /\ n \in alive /\ N = K /\ W = V /\ answer' = "present"
        /\ wlevel > 0 => answer = "present"
        /\ M = IF wlevel = 0 THEN L \ {n} ELSE L
        /\ wlevel = 0 => n \in L
        /\ wlevel \in Nat /\ K[n] \in Keys
    BY <1>5, <1>11, UnlinkStep, SkipListAssumption
       DEF Unlink, ListInv, WriterInv, OrderInv, ListTypeOK, Levels
  <2>2. CASE wlevel > 0
    <3>1. M = L
      BY <2>1, <2>2
    <3> QED
      BY <1>6, <2>1, <2>2, <3>1
  <2>3. CASE wlevel = 0
    <3>1. \A x \in L : K[x] = K[n] => x = n
      BY <1>5, <2>1 DEF Keyed
    <3>2. Map[K[n]] # Absent
      BY <1>7, <1>8, <2>1, <2>3
    <3>3. MapOf(M, N, W) = [MapOf(L, K, V) EXCEPT ![K[n]] = Absent]
      <4>1. \A x \in L : K[x] # K[n] => x \in M /\ N[x] = K[x] /\ W[x] = V[x]
        BY <2>1, <2>3
      <4>2. \A x \in M : N[x] # K[n] => x \in L /\ N[x] = K[x]
        BY <2>1, <2>3
      <4>3. \A x \in M : N[x] # K[n]
        BY <2>1, <2>3, <3>1
      <4> QED
        BY <1>4, <2>1, <4>1, <4>2, <4>3, ChangedMap
    <3>4. Engine!Del(K[n])
      BY <1>4, <2>1, <3>2, <3>3 DEF Engine!Del, Engine!Found
    <3> QED
      BY <2>1, <3>4 DEF Engine!Next
  <2> QED
    BY <2>1, <2>2, <2>3
<1>12. ASSUME NEW k \in Keys, DeleteMissing(k) PROVE Engine!Next
  <2>1. /\ wpc = "idle" /\ ~Holds(Candidate(k), k) /\ k \in Int
        /\ answer' = "absent" /\ N = K /\ W = V /\ M = L
    BY <1>12, AssignStep, SkipListAssumption DEF DeleteMissing, listVars
  <2>2. Map' = Map
    BY <1>6, <2>1
  <2>3. \A n \in alive : key[n] # k
    <3> SUFFICES ASSUME NEW n \in alive, key[n] = k PROVE FALSE
      OBVIOUS
    <3>1. n = Candidate(k)
      BY <2>1, CandidateFact DEF ListInv
    <3>2. n # Nil
      BY <1>5, SkipListAssumption
    <3> QED
      BY <2>1, <3>1, <3>2 DEF Holds
  <2>4. Map[k] = Absent
    BY <1>5, <1>7, <2>3
  <2>5. Map = [Map EXCEPT ![k] = Absent]
    BY <1>7, <2>4
  <2>6. Engine!Del(k)
    BY <2>1, <2>2, <2>4, <2>5 DEF Engine!Del, Engine!Found
  <2> QED
    BY <2>6 DEF Engine!Next
<1>13. ASSUME NEW k \in Keys, NEW v \in Values, BeginAssign(k, v)
       PROVE  UNCHANGED <<Map, answer>>
  <2>1. M = L /\ N = K /\ W = V /\ UNCHANGED answer
    BY <1>13, AssignStep DEF BeginAssign, listVars
  <2> QED
    BY <1>6, <2>1
<1>14. ASSUME NEW k \in Keys, NEW v \in Values, CreateNode(k, v)
       PROVE  UNCHANGED <<Map, answer>>
  <2>1. M = L /\ \A n \in L : N[n] = K[n] /\ W[n] = V[n]
    BY <1>5, <1>14, CreateStep
  <2>2. UNCHANGED answer
    BY <1>14 DEF CreateNode
  <2> QED
    BY <1>6, <2>1, <2>2
<1>15. ASSUME NEW k \in Keys, BeginDelete(k) PROVE UNCHANGED <<Map, answer>>
  <2>1. M = L /\ N = K /\ W = V /\ UNCHANGED answer
    BY <1>5, <1>15, BeginDeleteStep DEF BeginDelete, listVars
  <2> QED
    BY <1>6, <2>1
<1>16. CASE Free
  <2>1. M = L /\ wnode \notin L /\ UNCHANGED answer
    BY <1>5, <1>16, FreeStep DEF Free
  <2>2. /\ N = [K EXCEPT ![wnode] = 0] /\ W = [V EXCEPT ![wnode] = Absent]
        /\ K \in [Nodes -> Keys \cup {0}] /\ V \in [Nodes -> Values \cup {Absent}]
    BY <1>16 DEF Free, ListTypeOK
  <2>3. \A n \in L : N[n] = K[n] /\ W[n] = V[n]
    BY <1>5, <2>1, <2>2
  <2> QED
    BY <1>6, <2>1, <2>3
<1>17. CASE Shrink
  <2>1. M = L /\ N = K /\ W = V /\ UNCHANGED answer
    BY <1>17, ShrinkStep DEF Shrink
  <2> QED
    BY <1>6, <2>1
<1> QED
  BY <1>9, <1>10, <1>11, <1>12, <1>13, <1>14, <1>15, <1>16, <1>17, Zenon DEF Insert, Delete
----------------------------------------------------------------------------
(* The search *)

\* What a writer's step that takes no node out means for a search.
LEMMA Growing ==
  ASSUME ListTypeOK, ListInv, Insert \/ Delete, wpc # "unlink", wpc' # "unlink"
  PROVE  /\ \A i \in Levels : Chain[i] \subseteq Chain'[i]
         /\ forward' = forward => Chain' = Chain
         /\ \A n \in alive : key'[n] = key[n]
<1>0. \A i \in Levels : Chain[i] = LinkedAt(i) /\ Chain'[i] = LinkedAt(i)'
  BY DEF Chain
<1>1. CASE \/ \E k \in Keys, v \in Values : BeginAssign(k, v)
           \/ EndAssign
           \/ \E k \in Keys : DeleteMissing(k)
  <2>1. \A i : LinkedAt(i)' = LinkedAt(i)
    BY <1>1, AssignStep
  <2>2. key' = key
    BY <1>1 DEF BeginAssign, EndAssign, DeleteMissing, listVars
  <2>3. Chain' = Chain
    BY <2>1 DEF Chain
  <2> QED
    BY <2>2, <2>3
<1>2. CASE \E k \in Keys, v \in Values : CreateNode(k, v)
  <2>1. \A i \in Levels : LinkedAt(i)' = LinkedAt(i)
    BY <1>2, CreateStep
  <2>2. Chain' = Chain
    BY <2>1 DEF Chain
  <2> QED
    BY <1>2, <2>2, CreateStep
<1>3. CASE Link
  BY <1>0, <1>3, LinkStep DEF Link
<1>4. CASE Shrink
  <2>1. Chain' = Chain
    BY <1>4, ShrinkStep DEF Chain
  <2> QED
    BY <1>4, <2>1 DEF Shrink
<1>5. ~Unlink /\ ~Free /\ \A k \in Keys : ~BeginDelete(k)
  BY DEF Unlink, Free, BeginDelete
<1> QED
  BY <1>1, <1>2, <1>3, <1>4, <1>5, Zenon DEF Insert, Delete

\* While no node is taken out the levels are nested.
LEMMA LevelBelow ==
  ASSUME ListTypeOK, wpc # "unlink", NEW i \in Levels, i > 0
  PROVE  i - 1 \in Levels /\ Chain[i] \subseteq Chain[i - 1]
<1>1. i - 1 \in Levels /\ i \in Int /\ i - 1 < i
  BY SkipListAssumption DEF Levels
<1>2. ASSUME NEW n \in LinkedAt(i) PROVE n \in LinkedAt(i - 1)
  <2>1. n \in alive /\ i <= height[n] /\ (wpc = "link" /\ n = wnode => i < wlevel)
    BY DEF LinkedAt
  <2>2. height[n] \in Int /\ wlevel \in Int
    BY <2>1 DEF ListTypeOK, Levels
  <2>3. i - 1 <= height[n] /\ (wpc = "link" /\ n = wnode => i - 1 < wlevel)
    BY <1>1, <2>1, <2>2
  <2> QED
    BY <2>1, <2>3 DEF LinkedAt
<1> QED
  BY <1>1, <1>2 DEF Chain

\* What a search needs to know of the list.
LEMMA ReaderView ==
  ASSUME ListTypeOK, ListInv
  PROVE  /\ \A i \in Levels : /\ Chain[i] \subseteq alive
                              /\ Keyed(Chain[i], key)
                              /\ \A n \in Chain[i] : i <= height[n]
                              /\ \A p \in Chain[i] \cup {Header} :
                                   FirstAfter(Chain[i], key, p, forward[p][i])
         /\ alive \subseteq Nodes /\ Header # Nil /\ Nil \notin Nodes /\ Header \notin Nodes
         /\ \A n \in Chain[0] : Map[key[n]] = value[n]
         /\ \A k \in Keys : (\A n \in Chain[0] : key[n] # k) => Map[k] = Absent
         /\ \A k \in Keys : Map[k] = Absent => \A n \in Chain[0] : key[n] # k
         /\ \A k \in Keys : Map[k] \in Values \cup {Absent}
         /\ 0 \in Levels
<1>1. ASSUME NEW i \in Levels
      PROVE  /\ LinkedAt(i) \subseteq alive /\ Keyed(LinkedAt(i), key)
             /\ \A n \in LinkedAt(i) : i <= height[n]
             /\ \A p \in LinkedAt(i) \cup {Header} :
                  FirstAfter(LinkedAt(i), key, p, forward[p][i])
  <2>1. /\ LinkedAt(i) \subseteq alive /\ Keyed(LinkedAt(i), key)
        /\ LinkedAt(i) \cup {Header} \subseteq Places
    BY LevelKeyed DEF ListInv, Places
  <2>2. Sorted(LinkedAt(i), Pointers(i), key)
    BY DEF ListInv, OrderInv
  <2>3. \A p \in LinkedAt(i) \cup {Header} : Pointers(i)[p] = forward[p][i]
    BY <2>1 DEF Pointers
  <2>4. \A n \in LinkedAt(i) : i <= height[n]
    BY DEF LinkedAt
  <2> QED
    BY <2>1, <2>2, <2>3, <2>4 DEF Sorted
<1>2. Map = MapOf(LinkedAt(0), key, value) /\ Mapped(LinkedAt(0), key, value)
  BY MapIs
<1>3. /\ \A n \in LinkedAt(0) : Map[key[n]] = value[n] /\ value[n] \in Values
      /\ \A k \in Keys : (\A n \in LinkedAt(0) : key[n] # k) => Map[k] = Absent
      /\ Map \in [Keys -> Values \cup {Absent}]
  BY <1>2, MapOfFact DEF Mapped
<1> QED
  <2>1. \A i \in Levels : Chain[i] = LinkedAt(i)
    BY DEF Chain
  <2>2. 0 \in Levels
    BY SkipListAssumption DEF Levels
  <2>3. alive \subseteq Nodes
    BY DEF ListTypeOK
  <2>4. \A k \in Keys : Map[k] = Absent => \A n \in LinkedAt(0) : key[n] # k
    BY <1>3, SkipListAssumption
  <2> QED
    BY <1>1, <1>3, <2>1, <2>2, <2>3, <2>4, SkipListAssumption

\* The part of this that is needed of the list after a step too.
LEMMA NextView ==
  ASSUME ListTypeOK, ListInv
  PROVE  /\ \A i \in Levels : /\ Keyed(Chain[i], key)
                              /\ \A p \in Chain[i] \cup {Header} :
                                   FirstAfter(Chain[i], key, p, forward[p][i])
         /\ \A k \in Keys : (\A n \in Chain[0] : key[n] # k) => Map[k] = Absent
BY ReaderView

LEMMA MapValues ==
  ASSUME ListTypeOK, ListInv
  PROVE  \A k \in Keys : Map[k] \in Values \cup {Absent}
BY ReaderView

\* The nodes a search goes by on level i, from p: forward is as far as it gets.
LEMMA Passed ==
  ASSUME NEW L, NEW K, NEW p \in L \cup {Header}, NEW m, NEW k \in Int, Keyed(L, K),
         p # Header => K[p] < k, FirstAfter(L, K, p, m), m = Nil \/ K[m] >= k
  PROVE  LastBefore(L, K, k, p)
<1>1. \A n \in L : K[n] \in Int
  BY DEF Keyed
<1>2. ASSUME NEW n \in L, K[n] < k PROVE p # Header /\ K[n] <= K[p]
  <2>1. ~After(K, p, n)
    <3> SUFFICES ASSUME After(K, p, n) PROVE FALSE
      OBVIOUS
    <3>1. m # Nil /\ m \in L /\ K[m] <= K[n]
      BY DEF FirstAfter
    <3> QED
      BY <1>1, <1>2, <3>1
  <2> QED
    BY <1>1, <2>1 DEF After
<1> QED
  BY <1>2 DEF LastBefore


\* A search keeps its course when a level is done: it goes one level down, or it
\* stands at the last node before its key.
LEMMA LevelDoneStep ==
  ASSUME ListTypeOK, ListInv, OnCourse, wpc # "unlink", rpc \in {"test", "compare"},
         rkey \in Int, rlevel \in Levels, NEW m,
         m = Nil \/ key[m] >= rkey,
         rlevel = 0 /\ overlap = "same" => FirstAfter(Chain[0], key, rnode, m),
         LevelDone, UNCHANGED <<listVars, writerVars, overlap>>
  PROVE  OnCourse'
<1>1. Chain' = Chain /\ key' = key /\ forward' = forward /\ wpc' = wpc
  BY IdleStep DEF listVars, writerVars
<1>2. /\ rnode \in Chain[rlevel] \cup {Header}
      /\ rnode # Header => key[rnode] < rkey
  BY DEF OnCourse
<1>3. CASE rlevel > 0
  <2>1. /\ rlevel' = rlevel - 1 /\ rpc' = "test"
        /\ UNCHANGED <<rkey, rnode, rnext, result>>
    BY <1>3 DEF LevelDone
  <2>2. rnode' \in Chain'[rlevel'] \cup {Header}
    BY <1>1, <1>2, <1>3, <2>1, LevelBelow
  <2> QED
    BY <1>1, <1>2, <2>1, <2>2 DEF OnCourse
<1>4. CASE ~(rlevel > 0)
  <2>1. rlevel = 0
    BY <1>4, SkipListAssumption DEF Levels
  <2>2. rpc' = "candidate" /\ UNCHANGED <<rkey, rlevel, rnode, rnext, result>>
    BY <1>4 DEF LevelDone, RGoto
  <2>3. overlap = "same" => LastBefore(Chain[0], key, rkey, rnode)
    <3> SUFFICES ASSUME overlap = "same" PROVE LastBefore(Chain[0], key, rkey, rnode)
      OBVIOUS
    <3>1. Keyed(Chain[0], key) /\ rnode \in Chain[0] \cup {Header}
      BY <1>2, <2>1, ReaderView
    <3>2. FirstAfter(Chain[0], key, rnode, m)
      BY <2>1
    <3> QED
      BY <1>2, <3>1, <3>2, Passed
  <2>4. overlap' = "same" => LastBefore(Chain'[0], key', rkey', rnode')
    BY <1>1, <2>2, <2>3
  <2>5. rnode' \in Chain'[rlevel'] \cup {Header} /\ (rnode' # Header => key'[rnode'] < rkey')
    BY <1>1, <1>2, <2>2
  <2> QED
    BY <1>1, <2>1, <2>2, <2>4, <2>5 DEF OnCourse
<1> QED
  BY <1>3, <1>4

\* A step of a search that is on its course leaves it there.
LEMMA SearchStep ==
  ASSUME ListTypeOK, ListInv, OnCourse, wpc # "unlink", rpc \notin {"idle", "freed", "torn"},
         rkey \in Keys, rlevel \in Levels, overlap \in {"same", "grown"},
         Map[rkey] \in seen,
         TestNext \/ CompareNext \/ AdvanceNext \/ ReadCandidate \/ MatchCandidate \/ ReadValue,
         UNCHANGED <<listVars, writerVars, seen, overlap>>
  PROVE  OnCourse'
<1>1. /\ Chain' = Chain /\ key' = key /\ forward' = forward /\ wpc' = wpc
      /\ Map' = Map /\ seen' = seen /\ overlap' = overlap
  BY IdleStep DEF listVars, writerVars
<1>2. rkey \in Int
  BY SkipListAssumption
<1> PICK C : C = Chain
  OBVIOUS
<1>3. /\ \A i \in Levels : /\ C[i] \subseteq alive
                           /\ Keyed(C[i], key)
                           /\ \A n \in C[i] : i <= height[n]
                           /\ \A p \in C[i] \cup {Header} :
                                FirstAfter(C[i], key, p, forward[p][i])
      /\ alive \subseteq Nodes /\ Header # Nil /\ Nil \notin Nodes /\ Header \notin Nodes
      /\ \A n \in C[0] : Map[key[n]] = value[n]
      /\ \A k \in Keys : (\A n \in C[0] : key[n] # k) => Map[k] = Absent
      /\ 0 \in Levels
  BY ReaderView
<1>4. ASSUME rpc \in {"test", "compare", "advance", "candidate"}
      PROVE  /\ rnode \in C[rlevel] \cup {Header} /\ HasLevel(rnode, rlevel) /\ Valid(rnode)
             /\ rnode # Header => key[rnode] < rkey
             /\ FirstAfter(C[rlevel], key, rnode, forward[rnode][rlevel])
  <2>1. rnode \in C[rlevel] \cup {Header} /\ (rnode # Header => key[rnode] < rkey)
    BY <1>4 DEF OnCourse
  <2> QED
    BY <1>3, <2>1 DEF HasLevel, Valid
<1>5. CASE TestNext
  <2>1. rpc = "test"
    BY <1>5 DEF TestNext
  <2>2. CASE forward[rnode][rlevel] = Nil
    <3>1. LevelDone
      BY <1>4, <1>5, <2>1, <2>2 DEF TestNext
    <3>2. rlevel = 0 => FirstAfter(Chain[0], key, rnode, Nil)
      BY <1>4, <2>1, <2>2
    <3> QED
      BY <1>2, <2>1, <3>1, <3>2, LevelDoneStep
  <2>3. CASE forward[rnode][rlevel] # Nil
    <3>1. /\ rnext' = forward[rnode][rlevel] /\ rpc' = "compare"
          /\ UNCHANGED <<rkey, rlevel, rnode, result>>
      BY <1>4, <1>5, <2>1, <2>3 DEF TestNext
    <3>2. forward[rnode][rlevel] \in C[rlevel] /\ After(key, rnode, forward[rnode][rlevel])
      BY <1>4, <2>1, <2>3 DEF FirstAfter
    <3> QED
      BY <1>1, <1>4, <2>1, <3>1, <3>2 DEF OnCourse
  <2> QED
    BY <2>2, <2>3
<1>6. CASE CompareNext
  <2>1. /\ rpc = "compare" /\ rnext \in C[rlevel] /\ After(key, rnode, rnext)
        /\ overlap = "same" => rnext = forward[rnode][rlevel]
    BY <1>6 DEF CompareNext, OnCourse
  <2>2. Valid(rnext) /\ rnext # Nil /\ key[rnext] \in Int
    BY <1>3, <2>1 DEF Valid, Keyed
  <2>3. CASE key[rnext] < rkey
    <3>1. rpc' = "advance" /\ UNCHANGED <<rkey, rlevel, rnode, rnext, result>>
      BY <1>2, <1>6, <2>2, <2>3 DEF CompareNext, RGoto
    <3> PICK m : m = forward[rnode][rlevel]
      OBVIOUS
    <3>2. m # Nil /\ m \in C[rlevel] /\ key[m] <= key[rnext]
      BY <1>4, <2>1 DEF FirstAfter
    <3>3. key[m] \in Int
      BY <1>3, <3>2 DEF Keyed
    <3>4. key[m] < rkey
      BY <1>2, <2>2, <2>3, <3>2, <3>3
    <3> QED
      BY <1>1, <1>4, <2>1, <3>1, <3>2, <3>4 DEF OnCourse
  <2>4. CASE key[rnext] >= rkey
    <3>1. LevelDone
      BY <1>2, <1>6, <2>2, <2>4 DEF CompareNext
    <3>2. rlevel = 0 /\ overlap = "same" => FirstAfter(Chain[0], key, rnode, rnext)
      BY <1>4, <2>1
    <3> QED
      BY <1>2, <2>1, <2>4, <3>1, <3>2, LevelDoneStep
  <2> QED
    BY <1>2, <2>2, <2>3, <2>4
<1>7. CASE AdvanceNext
  <2>1. /\ rpc = "advance" /\ forward[rnode][rlevel] # Nil
        /\ key[forward[rnode][rlevel]] < rkey
    BY <1>7 DEF AdvanceNext, OnCourse
  <2>2. /\ rnode' = forward[rnode][rlevel] /\ rpc' = "test"
        /\ UNCHANGED <<rkey, rlevel, rnext, result>>
    BY <1>4, <1>7, <2>1 DEF AdvanceNext
  <2>3. forward[rnode][rlevel] \in C[rlevel]
    BY <1>4, <2>1 DEF FirstAfter
  <2> QED
    BY <1>1, <2>1, <2>2, <2>3 DEF OnCourse
<1>8. CASE ReadCandidate
  <2> PICK m : m = forward[rnode][0]
    OBVIOUS
  <2>1. /\ rpc = "candidate" /\ rlevel = 0
        /\ overlap = "same" => LastBefore(C[0], key, rkey, rnode)
    BY <1>8 DEF ReadCandidate, OnCourse
  <2>2. rnext' = m /\ rpc' = "match" /\ UNCHANGED <<rkey, rlevel, rnode, result>>
    BY <1>4, <1>8, <2>1 DEF ReadCandidate
  <2>3. FirstAfter(C[0], key, rnode, m)
    BY <1>4, <2>1
  <2>4. ASSUME overlap = "same", m = Nil \/ key[m] # rkey PROVE Map[rkey] = Absent
    <3> SUFFICES ASSUME NEW n \in C[0], key[n] = rkey PROVE FALSE
      BY <1>3
    <3>1. \A x \in C[0] : key[x] \in Int
      BY <1>3 DEF Keyed
    <3>2. After(key, rnode, n)
      BY <1>2, <1>4, <2>1 DEF After
    <3>3. m # Nil /\ m \in C[0] /\ key[m] <= rkey
      BY <2>3, <3>2 DEF FirstAfter
    <3>4. key[m] \in Int /\ key[m] < rkey
      BY <1>2, <2>4, <3>1, <3>3
    <3>5. rnode # Header /\ key[m] <= key[rnode] /\ rnode \in C[0]
      BY <2>1, <2>4, <3>3, <3>4 DEF LastBefore
    <3>6. key[rnode] < key[m]
      BY <2>3, <3>3, <3>5 DEF FirstAfter, After
    <3> QED
      BY <3>1, <3>4, <3>5, <3>6
  <2>5. m \in C[0] \cup {Nil}
    BY <2>3 DEF FirstAfter
  <2> QED
    BY <1>1, <2>2, <2>4, <2>5 DEF OnCourse
<1>9. CASE MatchCandidate
  <2>1. /\ rpc = "match" /\ rnext \in C[0] \cup {Nil}
        /\ overlap = "same" /\ (rnext = Nil \/ key[rnext] # rkey) => Map[rkey] = Absent
    BY <1>9 DEF MatchCandidate, OnCourse
  <2>2. rnext # Nil => Valid(rnext)
    BY <1>3, <2>1 DEF Valid
  <2>3. ~Valid(Nil)
    BY <1>3 DEF Valid
  <2>4. CASE rnext = Nil \/ key[rnext] # rkey
    <3>1. rpc' = "done" /\ result' = Absent
      BY <1>9, <2>2, <2>3, <2>4 DEF MatchCandidate, Return
    <3> QED
      BY <1>1, <2>1, <2>4, <3>1 DEF OnCourse
  <2>5. CASE rnext # Nil /\ key[rnext] = rkey
    <3>1. rpc' = "value" /\ UNCHANGED <<rkey, rlevel, rnode, rnext, result>>
      BY <1>9, <2>2, <2>5 DEF MatchCandidate, RGoto
    <3> QED
      BY <1>1, <2>1, <2>5, <3>1 DEF OnCourse
  <2> QED
    BY <2>4, <2>5
<1>10. CASE ReadValue
  <2>1. rpc = "value" /\ rnext \in C[0] /\ key[rnext] = rkey
    BY <1>10 DEF ReadValue, OnCourse
  <2>2. Valid(rnext)
    BY <1>3, <2>1 DEF Valid
  <2>3. CASE rpc' = "torn"
    BY <1>1, <2>3 DEF OnCourse
  <2>4. CASE Return(value[rnext])
    <3>1. value[rnext] = Map[rkey]
      BY <1>3, <2>1
    <3> QED
      BY <1>1, <2>4, <3>1 DEF OnCourse, Return
  <2> QED
    BY <1>10, <2>2, <2>3, <2>4 DEF ReadValue, RGoto
<1> QED
  BY <1>5, <1>6, <1>7, <1>8, <1>9, <1>10

\* Every step of a search keeps the invariant of the search.
LEMMA SearchKeepsReader ==
  ASSUME IInv, Search, Observe
  PROVE  ReaderInv'
<1>1. UNCHANGED <<listVars, writerVars>>
  BY DEF Search
<1>2. /\ Chain' = Chain /\ Map' = Map /\ wpc' = wpc /\ forward' = forward
      /\ listVars' = listVars
  BY <1>1, IdleStep DEF listVars, writerVars
<1>3. ListTypeOK /\ ListInv /\ ReaderInv
  BY DEF IInv, TypeOK, ListTypeOK
<1>4. CASE rpc' = "idle"
  BY <1>4 DEF Observe, ReaderInv, OnCourse
<1>5. CASE rpc = "idle" /\ rpc' # "idle"
  <2>1. PICK k \in Searched : StartSearch(k)
    BY <1>5 DEF Search, TestNext, CompareNext, AdvanceNext, ReadCandidate, MatchCandidate,
                ReadValue, EndSearch
  <2>2. rkey' \in Keys /\ rnode' = Header /\ rpc' = "test"
    BY <2>1, SkipListAssumption DEF StartSearch
  <2>3. seen' = seen \cup {Map'[rkey']} /\ (overlap' # "cut" => wpc # "unlink")
    BY <1>2, <1>5 DEF Observe
  <2> QED
    BY <1>2, <2>2, <2>3 DEF ReaderInv, OnCourse
<1>6. CASE rpc # "idle" /\ rpc' # "idle"
  <2>1. \/ TestNext \/ CompareNext \/ AdvanceNext
        \/ ReadCandidate \/ MatchCandidate \/ ReadValue
    BY <1>6 DEF Search, StartSearch, EndSearch
  <2>2. rkey' = rkey
    BY <2>1 DEF TestNext, CompareNext, AdvanceNext, ReadCandidate, MatchCandidate,
                ReadValue, LevelDone, RGoto, ReadFreed, Return
  <2>3. seen' = seen
    BY <1>2, <1>6 DEF Observe
  <2>4. overlap' # "cut" => /\ overlap' = overlap /\ overlap \in {"same", "grown"}
                            /\ wpc # "unlink"
    BY <1>2, <1>6 DEF Observe, IInv, TypeOK
  <2>5. rpc \notin {"idle", "freed", "torn"}
    BY <2>1 DEF TestNext, CompareNext, AdvanceNext, ReadCandidate, MatchCandidate, ReadValue
  <2>6. rkey \in Keys /\ Map[rkey] \in seen /\ (overlap # "cut" => OnCourse) /\ rlevel \in Levels
    BY <1>6 DEF IInv, ReaderInv, TypeOK
  <2>7. overlap' # "cut" => OnCourse'
    BY <1>1, <1>3, <2>1, <2>3, <2>4, <2>5, <2>6, SearchStep
  <2> QED
    BY <1>2, <1>6, <2>2, <2>3, <2>6, <2>7 DEF ReaderInv
<1> QED
  BY <1>4, <1>5, <1>6

\* Every step of the writer keeps the invariant of the search.
LEMMA WriterKeepsReader ==
  ASSUME IInv, Insert \/ Delete, Observe
  PROVE  ReaderInv'
<1>1. ListTypeOK /\ ListInv /\ ReaderInv
  BY DEF IInv, TypeOK, ListTypeOK
<1>2. ListTypeOK' /\ ListInv'
  BY <1>1, WriterStep
<1>3. UNCHANGED readerVars
  BY DEF Insert, Delete, BeginAssign, EndAssign, CreateNode, Link, DeleteMissing,
         BeginDelete, Unlink, Free, Shrink
<1>4. /\ rpc' = rpc /\ rkey' = rkey /\ rlevel' = rlevel /\ rnode' = rnode
      /\ rnext' = rnext /\ result' = result
  BY <1>3 DEF readerVars
<1>5. CASE rpc = "idle"
  BY <1>4, <1>5 DEF Observe, ReaderInv, OnCourse
<1>6. CASE rpc # "idle"
  <2>1. rkey \in Keys /\ Map[rkey] \in seen
    BY <1>1, <1>6 DEF ReaderInv
  <2>2. Map'[rkey'] \in seen' /\ seen \subseteq seen'
    <3>1. CASE listVars' = listVars
      <4>1. seen' = seen
        BY <1>4, <1>6, <3>1 DEF Observe
      <4>2. Map' = Map
        BY <3>1 DEF listVars, Map, Level
      <4> QED
        BY <1>4, <2>1, <4>1, <4>2
    <3>2. CASE listVars' # listVars
      BY <1>4, <1>6, <3>2 DEF Observe
    <3> QED
      BY <3>1, <3>2
  <2>3. ASSUME overlap' # "cut" PROVE OnCourse'
    <3>1. /\ overlap # "cut" /\ wpc # "unlink" /\ wpc' # "unlink"
          /\ overlap' = "same" => overlap = "same" /\ forward' = forward
          /\ overlap = "grown" => overlap' = "grown"
      BY <1>4, <1>6, <2>3 DEF Observe
    <3>2. OnCourse /\ rlevel \in Levels /\ 0 \in Levels
      BY <1>1, <3>1, SkipListAssumption DEF ReaderInv, IInv, TypeOK, Levels
    <3>3. /\ \A i \in Levels : Chain[i] \subseteq Chain'[i]
          /\ forward' = forward => Chain' = Chain
          /\ \A n \in alive : key'[n] = key[n]
      BY <1>1, <3>1, Growing
    <3>4. /\ \A i \in Levels : Chain[i] \subseteq alive
          /\ alive \subseteq Nodes /\ Nil \notin Nodes /\ Header \notin Nodes
          /\ \A k \in Keys : Map[k] = Absent => \A n \in Chain[0] : key[n] # k
      BY <1>1, ReaderView
    <3>5. /\ \A i \in Levels : /\ Keyed(Chain'[i], key')
                               /\ \A p \in Chain'[i] \cup {Header} :
                                    FirstAfter(Chain'[i], key', p, forward'[p][i])
          /\ \A k \in Keys : (\A n \in Chain'[0] : key'[n] # k) => Map'[k] = Absent
      <4>1. (/\ \A i \in Levels : /\ Keyed(Chain[i], key)
                                  /\ \A p \in Chain[i] \cup {Header} :
                                       FirstAfter(Chain[i], key, p, forward[p][i])
             /\ \A k \in Keys : (\A n \in Chain[0] : key[n] # k) => Map[k] = Absent)'
        BY <1>2, NextView, PTL
      <4> QED
        BY <4>1
    <3>6. ASSUME rpc \in {"test", "compare", "advance", "candidate"}
          PROVE  /\ rnode' \in Chain'[rlevel'] \cup {Header}
                 /\ rnode' # Header => key'[rnode'] = key[rnode] /\ key'[rnode'] < rkey'
      BY <1>4, <3>2, <3>3, <3>4, <3>6 DEF OnCourse
    <3>7. ASSUME rpc = "compare"
          PROVE  /\ rnext' \in Chain'[rlevel'] /\ After(key', rnode', rnext')
                 /\ overlap' = "same" => rnext' = forward'[rnode'][rlevel']
      <4>1. /\ rnext \in Chain[rlevel] /\ After(key, rnode, rnext)
            /\ overlap = "same" => rnext = forward[rnode][rlevel]
        BY <3>2, <3>7 DEF OnCourse
      <4>2. key'[rnext] = key[rnext] /\ rnext \in Chain'[rlevel]
        BY <3>2, <3>3, <3>4, <4>1
      <4> QED
        BY <1>4, <3>1, <3>6, <3>7, <4>1, <4>2 DEF After
    <3>8. ASSUME rpc = "advance"
          PROVE  forward'[rnode'][rlevel'] # Nil /\ key'[forward'[rnode'][rlevel']] < rkey'
      <4> PICK m, l : m = forward[rnode][rlevel] /\ l = forward'[rnode][rlevel]
        OBVIOUS
      <4>1. m # Nil /\ key[m] < rkey /\ rnode \in Chain[rlevel] \cup {Header}
        BY <3>2, <3>8 DEF OnCourse
      <4>2. m \in Chain[rlevel] /\ After(key, rnode, m)
        BY <1>1, <3>2, <4>1, ReaderView DEF FirstAfter
      <4>3. m \in Chain'[rlevel] /\ After(key', rnode, m) /\ key'[m] = key[m]
        BY <3>2, <3>3, <3>4, <4>1, <4>2 DEF After
      <4>4. l # Nil /\ l \in Chain'[rlevel] /\ key'[l] <= key'[m]
        BY <1>4, <3>2, <3>5, <3>6, <3>8, <4>3 DEF FirstAfter
      <4>5. key'[l] \in Int /\ key'[m] \in Int /\ rkey \in Int
        BY <2>1, <3>2, <3>5, <4>3, <4>4, SkipListAssumption DEF Keyed
      <4>6. key'[l] < rkey
        BY <4>1, <4>3, <4>4, <4>5
      <4> QED
        BY <1>4, <4>4, <4>6
    <3>9. ASSUME rpc = "candidate"
          PROVE  rlevel' = 0 /\ (overlap' = "same" => LastBefore(Chain'[0], key', rkey', rnode'))
      <4>1. rlevel = 0 /\ (overlap = "same" => LastBefore(Chain[0], key, rkey, rnode))
        BY <3>2, <3>9 DEF OnCourse
      <4>2. overlap' = "same" => LastBefore(Chain'[0], key', rkey, rnode)
        <5> SUFFICES ASSUME overlap' = "same" PROVE LastBefore(Chain'[0], key', rkey, rnode)
          OBVIOUS
        <5>1. LastBefore(Chain[0], key, rkey, rnode) /\ Chain' = Chain
          BY <3>1, <3>3, <4>1
        <5>2. Header \notin Chain[0] /\ \A n \in Chain[0] : key'[n] = key[n]
          BY <3>2, <3>3, <3>4
        <5> QED
          BY <5>1, <5>2, SameLast
      <4> QED
        BY <1>4, <4>1, <4>2
    <3>10. ASSUME rpc = "match"
           PROVE  /\ rnext' \in Chain'[0] \cup {Nil}
                  /\ overlap' = "same" /\ (rnext' = Nil \/ key'[rnext'] # rkey')
                       => Map'[rkey'] = Absent
      <4>1. /\ rnext \in Chain[0] \cup {Nil}
            /\ overlap = "same" /\ (rnext = Nil \/ key[rnext] # rkey) => Map[rkey] = Absent
        BY <3>2, <3>10 DEF OnCourse
      <4>2. ASSUME overlap' = "same", rnext = Nil \/ key'[rnext] # rkey
            PROVE  Map'[rkey] = Absent
        <5>1. Chain' = Chain /\ \A n \in Chain[0] : key'[n] = key[n]
          BY <3>1, <3>2, <3>3, <3>4, <4>2
        <5>2. Map[rkey] = Absent
          BY <3>1, <4>1, <4>2, <5>1
        <5>3. \A n \in Chain[0] : key[n] # rkey
          BY <2>1, <3>4, <5>2
        <5> QED
          BY <2>1, <3>5, <5>1, <5>3
      <4> QED
        BY <1>4, <3>2, <3>3, <4>1, <4>2
    <3>11. ASSUME rpc = "value" PROVE rnext' \in Chain'[0] /\ key'[rnext'] = rkey'
      BY <1>4, <3>2, <3>3, <3>4, <3>11 DEF OnCourse
    <3>12. ASSUME rpc = "done"
           PROVE  result' \in seen' \/ (result' = Absent /\ overlap' = "grown")
      BY <1>4, <2>2, <3>1, <3>2, <3>12 DEF OnCourse
    <3>13. rpc' # "freed"
      BY <1>4, <3>2 DEF OnCourse
    <3> QED
      BY <1>4, <3>1, <3>6, <3>7, <3>8, <3>9, <3>10, <3>11, <3>12, <3>13 DEF OnCourse
  <2> QED
    BY <1>4, <1>6, <2>1, <2>2, <2>3 DEF ReaderInv
<1> QED
  BY <1>5, <1>6
----------------------------------------------------------------------------
(* The whole *)

\* The variables of the search and the histories keep their types.
LEMMA ReaderTypes ==
  ASSUME IInv, Insert \/ Delete \/ Search, Observe
  PROVE  /\ rpc' \in {"idle", "test", "compare", "advance", "candidate", "match",
                      "value", "done", "freed", "torn"}
         /\ rkey' \in Keys \cup {0} /\ rlevel' \in Levels
         /\ rnode' \in Places \cup {Nil} /\ rnext' \in Nodes \cup {Nil}
         /\ result' \in Values \cup {Absent}
         /\ rpc' # "idle" => rkey' \in Keys
<1> DEFINE T == /\ rpc' \in {"idle", "test", "compare", "advance", "candidate", "match",
                             "value", "done", "freed", "torn"}
                /\ rkey' \in Keys \cup {0} /\ rlevel' \in Levels
                /\ rnode' \in Places \cup {Nil} /\ rnext' \in Nodes \cup {Nil}
                /\ result' \in Values \cup {Absent}
                /\ rpc' # "idle" => rkey' \in Keys
<1>1. /\ rpc \in {"idle", "test", "compare", "advance", "candidate", "match",
                  "value", "done", "freed", "torn"}
      /\ rkey \in Keys \cup {0} /\ rlevel \in Levels
      /\ rnode \in Places \cup {Nil} /\ rnext \in Nodes \cup {Nil}
      /\ result \in Values \cup {Absent}
      /\ rpc # "idle" => rkey \in Keys
  BY DEF IInv, TypeOK, ReaderInv
<1>2. /\ forward \in [Places -> [Levels -> Nodes \cup {Nil}]] /\ alive \subseteq Nodes
      /\ value \in [Nodes -> Values \cup {Absent}] /\ curLevel \in Levels /\ 0 \in Levels
      /\ \A i \in Levels : i > 0 => i - 1 \in Levels
      /\ Searched \subseteq Keys
  BY SkipListAssumption DEF IInv, TypeOK, Levels
<1>3. \A n, i : HasLevel(n, i) => n \in Places
  BY <1>2 DEF HasLevel, Places
<1>4. CASE Insert \/ Delete
  <2>1. UNCHANGED readerVars
    BY <1>4 DEF Insert, Delete, BeginAssign, EndAssign, CreateNode, Link, DeleteMissing,
                BeginDelete, Unlink, Free, Shrink
  <2> QED
    BY <1>1, <2>1 DEF readerVars
<1>5. ASSUME NEW k \in Searched, StartSearch(k) PROVE T
  BY <1>1, <1>2, <1>5 DEF StartSearch, Places
<1>6. ASSUME ReadFreed PROVE rpc # "idle" => T
  BY <1>1, <1>6 DEF ReadFreed, RGoto
<1>7. ASSUME LevelDone PROVE rpc # "idle" => T
  BY <1>1, <1>2, <1>7 DEF LevelDone, RGoto
<1>8. CASE TestNext
  <2>1. CASE /\ HasLevel(rnode, rlevel) /\ rnext' = forward[rnode][rlevel] /\ rpc' = "compare"
             /\ UNCHANGED <<rkey, rlevel, rnode, result>>
    BY <1>1, <1>2, <1>3, <1>8, <2>1 DEF TestNext
  <2> QED
    BY <1>6, <1>7, <1>8, <2>1 DEF TestNext
<1>9. CASE CompareNext
  <2>1. CASE RGoto("advance")
    BY <1>1, <1>9, <2>1 DEF CompareNext, RGoto
  <2> QED
    BY <1>6, <1>7, <1>9, <2>1 DEF CompareNext
<1>10. CASE AdvanceNext
  <2>1. CASE /\ HasLevel(rnode, rlevel) /\ rnode' = forward[rnode][rlevel] /\ rpc' = "test"
             /\ UNCHANGED <<rkey, rlevel, rnext, result>>
    BY <1>1, <1>2, <1>3, <1>10, <2>1 DEF AdvanceNext, Places
  <2> QED
    BY <1>6, <1>10, <2>1 DEF AdvanceNext
<1>11. CASE ReadCandidate
  <2>1. CASE /\ Valid(rnode) /\ rnext' = forward[rnode][0] /\ rpc' = "match"
             /\ UNCHANGED <<rkey, rlevel, rnode, result>>
    <3>1. rnode \in Places
      BY <1>2, <2>1 DEF Valid, Places
    <3> QED
      BY <1>1, <1>2, <1>11, <2>1, <3>1 DEF ReadCandidate
  <2> QED
    BY <1>6, <1>11, <2>1 DEF ReadCandidate
<1>12. CASE MatchCandidate
  <2>1. CASE Return(Absent) \/ RGoto("value")
    BY <1>1, <1>12, <2>1 DEF MatchCandidate, Return, RGoto
  <2> QED
    BY <1>6, <1>12, <2>1 DEF MatchCandidate
<1>13. CASE ReadValue
  <2>1. CASE RGoto("torn")
    BY <1>1, <1>13, <2>1 DEF ReadValue, RGoto
  <2>2. CASE Valid(rnext) /\ Return(value[rnext])
    <3>1. rnext = Header \/ rnext \in Nodes
      BY <1>2, <2>2 DEF Valid
    <3>2. rnext \in Nodes
      BY <1>1, <3>1, SkipListAssumption
    <3> QED
      BY <1>1, <1>2, <1>13, <2>2, <3>2 DEF ReadValue, Return
  <2> QED
    BY <1>6, <1>13, <2>1, <2>2 DEF ReadValue
<1>14. CASE EndSearch
  BY <1>1, <1>2, <1>14 DEF EndSearch, Places
<1>15. CASE Search
  BY <1>5, <1>8, <1>9, <1>10, <1>11, <1>12, <1>13, <1>14, <1>15 DEF Search
<1> QED
  BY <1>4, <1>15

\* The invariant is inductive.
LEMMA NextInv ==
  ASSUME IInv, [Next]_vars
  PROVE  IInv'
<1>1. ListTypeOK /\ ListInv
  BY DEF IInv, TypeOK, ListTypeOK
<1>2. CASE Next
  <2>1. (Insert \/ Delete \/ Search) /\ Observe
    BY <1>2 DEF Next
  <2>2. ListTypeOK' /\ ListInv'
    <3>1. CASE Search
      BY <1>1, <3>1, IdleStep DEF Search
    <3>2. CASE Insert \/ Delete
      BY <1>1, <3>2, WriterStep
    <3> QED
      BY <2>1, <3>1, <3>2
  <2>3. ReaderInv'
    BY <2>1, SearchKeepsReader, WriterKeepsReader
  <2>4. /\ rpc' \in {"idle", "test", "compare", "advance", "candidate", "match",
                     "value", "done", "freed", "torn"}
        /\ rkey' \in Keys \cup {0} /\ rlevel' \in Levels
        /\ rnode' \in Places \cup {Nil} /\ rnext' \in Nodes \cup {Nil}
        /\ result' \in Values \cup {Absent}
        /\ rpc' # "idle" => rkey' \in Keys
    BY <2>1, ReaderTypes
  <2>5. overlap' \in {"same", "grown", "cut"}
    BY <2>1 DEF Observe
  <2>6. seen' \subseteq Values \cup {Absent}
    <3>1. \A k \in Keys : Map'[k] \in Values \cup {Absent}
      <4>1. (\A k \in Keys : Map[k] \in Values \cup {Absent})'
        BY <2>2, MapValues, PTL
      <4> QED
        BY <4>1
    <3>2. seen \subseteq Values \cup {Absent}
      BY DEF IInv, TypeOK
    <3> QED
      BY <2>1, <2>4, <3>1, <3>2 DEF Observe
  <2>7. TypeOK'
    BY <2>2, <2>4, <2>5, <2>6 DEF TypeOK, ListTypeOK
  <2> QED
    BY <2>2, <2>3, <2>7 DEF IInv
<1>3. CASE UNCHANGED vars
  <2>1. UNCHANGED <<listVars, writerVars>>
    BY <1>3 DEF vars
  <2>2. ListTypeOK' /\ ListInv' /\ Chain' = Chain /\ Map' = Map
    BY <1>1, <2>1, IdleStep
  <2>3. /\ rpc' = rpc /\ rkey' = rkey /\ rlevel' = rlevel /\ rnode' = rnode /\ rnext' = rnext
        /\ result' = result /\ seen' = seen /\ overlap' = overlap
        /\ wpc' = wpc /\ key' = key /\ forward' = forward
    BY <1>3 DEF vars, readerVars, writerVars, listVars
  <2>4. TypeOK'
    BY <2>2, <2>3 DEF IInv, TypeOK, ListTypeOK
  <2>5. OnCourse => OnCourse'
    BY <2>2, <2>3 DEF OnCourse
  <2>6. ReaderInv'
    BY <2>2, <2>3, <2>5 DEF IInv, ReaderInv
  <2> QED
    BY <2>2, <2>4, <2>6 DEF IInv
<1> QED
  BY <1>2, <1>3

\* It holds at first.
LEMMA InitInv ==
  ASSUME Init
  PROVE  IInv
<1>1. 0 \in Levels /\ 0 \in 0 .. (MaxLevel + 1) /\ Header \in Places
  BY SkipListAssumption DEF Levels, Places
<1>2. TypeOK
  BY <1>1, SkipListAssumption DEF Init, TypeOK
<1>3. \A i : LinkedAt(i) = {}
  BY DEF Init, LinkedAt
<1>4. OrderInv
  <2>1. ASSUME NEW i \in Levels PROVE Sorted(LinkedAt(i), Pointers(i), key)
    BY <1>1, <1>3, <2>1 DEF Sorted, FirstAfter, Pointers, Init
  <2> QED
    BY <2>1 DEF OrderInv, Init
<1>5. NullInv
  BY DEF NullInv, Init, Places
<1>6. WriterInv
  BY DEF WriterInv, Init
<1>7. CountInv
  BY FS_EmptySet DEF CountInv, Init
<1>8. ReaderInv
  BY DEF ReaderInv, OnCourse, Init
<1> QED
  BY <1>2, <1>4, <1>5, <1>6, <1>7, <1>8 DEF IInv, ListInv

\* In every reachable state the list is in order, the writer's search is still
\* right and a search is on its course.
THEOREM Invariant == Spec => []IInv
<1>1. Init => IInv
  BY InitInv
<1>2. IInv /\ [Next]_vars => IInv'
  BY NextInv
<1> QED
  BY <1>1, <1>2, PTL DEF Spec

\* Every variable keeps its type.
THEOREM TypeCorrect == Spec => []TypeOK
<1>1. IInv => TypeOK
  BY DEF IInv
<1> QED
  BY <1>1, Invariant, PTL

\* In the middle of an insertion or deletion too, a walk along a level meets keys
\* in order and no freed node.
THEOREM LevelsStayInOrder == Spec => []LevelsInOrder
<1>1. IInv => LevelsInOrder
  <2> SUFFICES ASSUME IInv, NEW i \in Levels, NEW n \in Level(i)
               PROVE  /\ n \in alive
                      /\ forward[n][i] # Nil => key[n] < key[forward[n][i]]
    BY DEF LevelsInOrder
  <2>1. ListTypeOK /\ ListInv
    BY DEF IInv, TypeOK, ListTypeOK
  <2>2. n \in Chain[i]
    BY <2>1, LevelFact DEF Chain
  <2>3. n \in alive /\ n # Header /\ FirstAfter(Chain[i], key, n, forward[n][i])
    BY <2>1, <2>2, ReaderView
  <2> QED
    BY <2>3 DEF FirstAfter, After
<1> QED
  BY <1>1, Invariant, PTL

\* Between operations no node is leaked or half linked, and _curLevel and
\* _elementCount are right.
THEOREM LevelsAreComplete == Spec => []LevelsComplete
<1>1. IInv => LevelsComplete
  <2> SUFFICES ASSUME IInv, wpc = "idle"
               PROVE  /\ \A i \in Levels : Level(i) = {n \in alive : height[n] >= i}
                      /\ \A n \in alive : height[n] <= curLevel
                      /\ curLevel > 0 => \E n \in alive : height[n] = curLevel
                      /\ count = Cardinality(alive)
    BY DEF LevelsComplete
  <2>1. ListTypeOK /\ ListInv
    BY DEF IInv, TypeOK, ListTypeOK
  <2>2. ASSUME NEW i \in Levels PROVE Level(i) = {n \in alive : height[n] >= i}
    <3>1. \A n \in alive : i <= height[n] <=> height[n] >= i
      BY <2>1 DEF ListTypeOK, Levels
    <3>2. LinkedAt(i) = {n \in alive : i <= height[n]}
      BY DEF LinkedAt
    <3> QED
      BY <2>1, <3>1, <3>2, LevelFact
  <2>3. /\ \A n \in alive : height[n] <= curLevel
        /\ curLevel > 0 => \E n \in alive : height[n] = curLevel
    BY <2>1 DEF ListInv, OrderInv, CountInv
  <2>4. count = Cardinality(alive)
    BY <2>1 DEF ListInv, CountInv
  <2> QED
    BY <2>2, <2>3, <2>4
<1> QED
  BY <1>1, Invariant, PTL

\* A search that no deletion overlaps returns a value its key had while it ran, or
\* misses a key that was inserted under it.
THEOREM SearchesAreExact == Spec => []SearchIsExact
<1>1. IInv => SearchIsExact
  BY DEF IInv, ReaderInv, OnCourse, SearchIsExact
<1> QED
  BY <1>1, Invariant, PTL

\* At first the map is empty.
LEMMA InitMap ==
  ASSUME Init
  PROVE  Engine!Init
<1>1. ListTypeOK /\ ListInv
  BY InitInv DEF IInv, TypeOK, ListTypeOK
<1>2. Map = MapOf(LinkedAt(0), key, value)
  BY <1>1, MapIs
<1>3. LinkedAt(0) = {}
  BY DEF LinkedAt, Init
<1>4. Map = [k \in Keys |-> Absent]
  BY <1>2, <1>3 DEF MapOf
<1> QED
  BY <1>4 DEF Engine!Init, Init

\* The writers see a map: the list implements the specification of the engine.
THEOREM ImplementsMap == Spec => IsMap
<1>1. Init => Engine!Init
  BY InitMap
<1>2. IInv /\ [Next]_vars => [Engine!Next]_<<Map, answer>>
  <2> SUFFICES ASSUME IInv, [Next]_vars PROVE [Engine!Next]_<<Map, answer>>
    OBVIOUS
  <2>1. ListTypeOK /\ ListInv
    BY DEF IInv, TypeOK, ListTypeOK
  <2>2. CASE UNCHANGED <<listVars, writerVars>>
    <3>1. Map' = Map
      BY <2>2, IdleStep
    <3>2. answer' = answer
      BY <2>2 DEF writerVars
    <3> QED
      BY <3>1, <3>2
  <2>3. CASE Insert \/ Delete
    BY <2>1, <2>3, MapStep
  <2> QED
    BY <2>2, <2>3 DEF Next, Search, vars
<1> QED
  BY <1>1, <1>2, Invariant, PTL DEF Spec, IsMap, Engine!Spec
=============================================================================
