--------------------------- MODULE KVServerProofs ---------------------------
(***************************************************************************)
(* Proofs about KVServer, for any number of loops, any pool and anything   *)
(* the loops may read.                                                     *)
(***************************************************************************)
EXTENDS KVServer, ThreadPoolProofs, FiniteSetTheorems, SequenceTheorems, WellFoundedInduction

\* Every step of the server is one of its pool, leaves the pool alone, or starts
\* the process again.
LEMMA StepsOfThePool ==
  ASSUME [Next]_vars PROVE PoolNext \/ NewPool \/ UNCHANGED poolVars
<1> USE DEF Loops
<1>1. CASE UNCHANGED vars
  BY <1>1 DEF vars
<1>2. ASSUME NEW l \in Loops, Read(l) PROVE PoolNext \/ NewPool \/ UNCHANGED poolVars
  BY <1>2 DEF Read, ReadBlank, Kill, Restart, ReadSet, ReadDel, ReadGet, OpenWriter,
              OpenReader, Reject, vars
<1>3. ASSUME NEW l \in Loops, ReaderStep(l) PROVE PoolNext \/ NewPool \/ UNCHANGED poolVars
  BY <1>3 DEF ReaderStep, AddSearch, AddThrows, Get, WriteNode, CloseWriter, Undefined,
              Kill, Restart, PoolNext
<1>4. ASSUME NEW l \in Loops, HandlerStep(l) PROVE PoolNext \/ NewPool \/ UNCHANGED poolVars
  BY <1>3, <1>4 DEF HandlerStep, InsertNew, BeginAssign, EndAssign, Delete, GetLine,
              CloseReader, AnswerOk
<1>5. ASSUME NEW l \in Loops, EndSearch(l) PROVE PoolNext
  BY <1>5 DEF EndSearch, PoolNext
<1>6. CASE PoolStep
  BY <1>6 DEF PoolStep, WorkerStep, PoolNext
<1>7. CASE Kill
  BY <1>7 DEF Kill, Restart
<1>8. CASE ExitStep
  BY <1>8 DEF ExitStep, EndExit, Restart, PoolNext
<1> QED
  BY <1>1, <1>2, <1>4, <1>5, <1>6, <1>7, <1>8 DEF Next

\* When exit() destroys the list, no GET of any loop is still searching it, in this
\* process or in any that is started later.
THEOREM NoSearchOutlivesPool == Spec => []NoTaskOutlivesPool
<1>1. Init => PoolInv
  BY PoolInitInv DEF Init
<1>2. PoolInv /\ [Next]_vars => PoolInv'
  BY StepsOfThePool, AddInv, TaskInv, WorkerInv, DestructorInv, PoolStutterInv, NewPoolInv
     DEF PoolNext
<1>3. PoolInv => NoTaskOutlivesPool
  BY DEF PoolInv
<1> QED
  BY <1>1, <1>2, <1>3, PTL DEF Spec

----------------------------------------------------------------------------
(* Numbers *)

\* The numbers below another one.
Below == {pair \in Nat \X Nat : pair[1] < pair[2]}

\* A set of numbers that is not empty has a least one.
LEMMA LeastNumber ==
  ASSUME NEW T \in SUBSET Nat, T # {}
  PROVE  \E n \in T : \A m \in T : n <= m
<1>1. IsWellFoundedOn(Below, Nat)
  BY NatLessThanWellFounded DEF OpToRel, Below
<1>2. \E n \in T : \A m \in T : <<m, n>> \notin Below
  BY <1>1, WFMin
<1>3. \A m, n \in Nat : <<m, n>> \in Below <=> m < n
  BY DEF Below
<1>4. PICK n \in T : \A m \in T : ~(m < n)
  BY <1>2, <1>3
<1>5. \A m \in T : n <= m
  BY <1>4
<1> QED
  BY <1>5

\* One that is bounded has a greatest one.
LEMMA GreatestNumber ==
  ASSUME NEW T \in SUBSET Nat, T # {}, NEW b \in Nat, \A m \in T : m <= b
  PROVE  \E n \in T : \A m \in T : m <= n
<1> DEFINE U == {b - m : m \in T}
<1>1. U \in SUBSET Nat /\ U # {}
  <2>1. \A m \in T : b - m \in Nat
    OBVIOUS
  <2> QED
    BY <2>1
<1>2. PICK u \in U : \A v \in U : u <= v
  <2> HIDE DEF U
  <2> QED
    BY <1>1, LeastNumber
<1>3. PICK n \in T : u = b - n
  BY <1>2
<1>4. \A m \in T : b - n <= b - m
  BY <1>2, <1>3
<1>5. \A m \in T : m <= n
  BY <1>4
<1> QED
  BY <1>5

----------------------------------------------------------------------------
(* The order of the keys *)

\* Every symbol has a code of its own.
LEMMA Codes ==
  ASSUME NEW a \in Symbols
  PROVE  Code(a) \in Nat /\ Order[Code(a)] = a
<1>1. \E i \in DOMAIN Order : Order[i] = a
  BY DEF Symbols
<1>2. Code(a) \in DOMAIN Order /\ Order[Code(a)] = a
  BY <1>1, Zenon DEF Code
<1>3. DOMAIN Order \subseteq Nat
  BY KVAssumption
<1> QED
  BY <1>2, <1>3

\* s and t differ first after n symbols, and there s comes first.
Differ(s, t, n) ==
  /\ n \in 0 .. Len(s) /\ n < Len(t)
  /\ \A i \in 1 .. n : s[i] = t[i]
  /\ n = Len(s) \/ Code(s[n + 1]) < Code(t[n + 1])

\* Before, symbol by symbol.
LEMMA BeforeIsDiffer ==
  ASSUME NEW s \in Seq(Symbols), NEW t \in Seq(Symbols)
  PROVE  Before(s, t) <=> \E n \in Nat : Differ(s, t, n)
<1>1. Len(s) \in Nat /\ Len(t) \in Nat
  OBVIOUS
<1>2. ASSUME NEW n \in 0 .. Len(s), n < Len(t)
      PROVE  SubSeq(s, 1, n) = SubSeq(t, 1, n) <=> \A i \in 1 .. n : s[i] = t[i]
  <2>1. /\ SubSeq(s, 1, n) \in Seq(Symbols) /\ Len(SubSeq(s, 1, n)) = n
        /\ \A i \in 1 .. n : SubSeq(s, 1, n)[i] = s[i]
    <3>1. \A i \in 1 .. n : s[i] \in Symbols
      BY <1>1, <1>2
    <3> QED
      BY <1>1, <1>2
  <2>2. /\ SubSeq(t, 1, n) \in Seq(Symbols) /\ Len(SubSeq(t, 1, n)) = n
        /\ \A i \in 1 .. n : SubSeq(t, 1, n)[i] = t[i]
    BY <1>1, <1>2
  <2>3. ASSUME \A i \in 1 .. n : s[i] = t[i] PROVE SubSeq(s, 1, n) = SubSeq(t, 1, n)
    BY <2>1, <2>2, <2>3, SeqEqual
  <2> QED
    BY <2>1, <2>2, <2>3
<1>3. ASSUME Before(s, t) PROVE \E n \in Nat : Differ(s, t, n)
  <2>1. PICK n \in 0 .. Len(s) :
          /\ n < Len(t) /\ SubSeq(s, 1, n) = SubSeq(t, 1, n)
          /\ n = Len(s) \/ Code(s[n + 1]) < Code(t[n + 1])
    BY <1>3, Zenon DEF Before
  <2>2. Differ(s, t, n)
    BY <1>2, <2>1 DEF Differ
  <2> QED
    BY <1>1, <2>2
<1>4. ASSUME NEW n \in Nat, Differ(s, t, n) PROVE Before(s, t)
  BY <1>2, <1>4 DEF Differ, Before
<1> QED
  BY <1>3, <1>4

\* No word comes before itself.
LEMMA BeforeIrreflexive ==
  ASSUME NEW s \in Seq(Symbols)
  PROVE  ~Before(s, s)
<1> SUFFICES ASSUME NEW n \in Nat, Differ(s, s, n) PROVE FALSE
  BY BeforeIsDiffer
<1>1. n + 1 \in 1 .. Len(s)
  BY DEF Differ
<1>2. Code(s[n + 1]) \in Nat
  BY <1>1, Codes
<1> QED
  BY <1>1, <1>2 DEF Differ

\* What comes before a word comes before what the word comes before.
LEMMA BeforeTransitive ==
  ASSUME NEW s \in Seq(Symbols), NEW t \in Seq(Symbols), NEW u \in Seq(Symbols),
         Before(s, t), Before(t, u)
  PROVE  Before(s, u)
<1>1. PICK m \in Nat : Differ(s, t, m)
  BY BeforeIsDiffer
<1>2. PICK n \in Nat : Differ(t, u, n)
  BY BeforeIsDiffer
<1>3. Len(s) \in Nat /\ Len(t) \in Nat /\ Len(u) \in Nat
  OBVIOUS
<1>4. CASE m < n
  <2>1. t[m + 1] = u[m + 1] /\ \A i \in 1 .. m : t[i] = u[i]
    BY <1>2, <1>4 DEF Differ
  <2>2. m < Len(u)
    BY <1>2, <1>3, <1>4 DEF Differ
  <2>3. Differ(s, u, m)
    BY <1>1, <1>3, <2>1, <2>2 DEF Differ
  <2> QED
    BY <2>3, BeforeIsDiffer
<1>5. CASE m = n
  <2>1. n # Len(t)
    BY <1>1, <1>3, <1>5 DEF Differ
  <2>2. Code(t[m + 1]) < Code(u[m + 1]) /\ m < Len(u)
    BY <1>2, <1>5, <2>1 DEF Differ
  <2>3. \A i \in 1 .. m : s[i] = u[i]
    BY <1>1, <1>2, <1>5 DEF Differ
  <2>4. m = Len(s) \/ Code(s[m + 1]) < Code(u[m + 1])
    <3>1. CASE m # Len(s)
      <4>1. m + 1 \in 1 .. Len(s) /\ m + 1 \in 1 .. Len(t) /\ m + 1 \in 1 .. Len(u)
        BY <1>1, <1>3, <2>2, <3>1 DEF Differ
      <4>2. Code(s[m + 1]) \in Nat /\ Code(t[m + 1]) \in Nat /\ Code(u[m + 1]) \in Nat
        BY <4>1, Codes
      <4>3. Code(s[m + 1]) < Code(t[m + 1])
        BY <1>1, <3>1 DEF Differ
      <4> QED
        BY <2>2, <4>2, <4>3
    <3> QED
      BY <3>1
  <2>5. Differ(s, u, m)
    BY <1>1, <1>3, <2>2, <2>3, <2>4 DEF Differ
  <2> QED
    BY <2>5, BeforeIsDiffer
<1>6. CASE n < m
  <2>1. n < Len(t) /\ n < Len(s)
    BY <1>1, <1>3, <1>6 DEF Differ
  <2>2. s[n + 1] = t[n + 1] /\ \A i \in 1 .. n : s[i] = t[i]
    BY <1>1, <1>6 DEF Differ
  <2>3. Code(t[n + 1]) < Code(u[n + 1]) /\ n < Len(u) /\ \A i \in 1 .. n : t[i] = u[i]
    BY <1>2, <1>3, <2>1 DEF Differ
  <2>4. Differ(s, u, n)
    BY <1>3, <2>1, <2>2, <2>3 DEF Differ
  <2> QED
    BY <2>4, BeforeIsDiffer
<1> QED
  BY <1>4, <1>5, <1>6

\* Of two words one comes before the other.
LEMMA BeforeTotal ==
  ASSUME NEW s \in Seq(Symbols), NEW t \in Seq(Symbols), s # t
  PROVE  Before(s, t) \/ Before(t, s)
<1> DEFINE D == {i \in Nat \ {0} : /\ i <= Len(s) \/ i <= Len(t)
                                   /\ i <= Len(s) /\ i <= Len(t) => s[i] # t[i]}
<1>1. Len(s) \in Nat /\ Len(t) \in Nat
  OBVIOUS
<1>2. D # {}
  <2> SUFFICES ASSUME D = {} PROVE s = t
    OBVIOUS
  <2>1. Len(s) = Len(t)
    <3>1. CASE Len(s) < Len(t)
      <4>1. Len(t) \in D
        BY <1>1, <3>1
      <4> QED
        BY <4>1
    <3>2. CASE Len(t) < Len(s)
      <4>1. Len(s) \in D
        BY <1>1, <3>2
      <4> QED
        BY <4>1
    <3> QED
      BY <1>1, <3>1, <3>2
  <2>2. \A i \in 1 .. Len(s) : s[i] = t[i]
    <3> SUFFICES ASSUME NEW i \in 1 .. Len(s), s[i] # t[i] PROVE FALSE
      OBVIOUS
    <3>1. i \in D
      BY <1>1, <2>1
    <3> QED
      BY <3>1
  <2> QED
    BY <2>1, <2>2, SeqEqual
<1>3. PICK d \in D : \A i \in D : d <= i
  <2>1. D \in SUBSET Nat
    OBVIOUS
  <2> HIDE DEF D
  <2> QED
    BY <1>2, <2>1, LeastNumber
<1> DEFINE n == d - 1
<1>4. n \in Nat /\ n <= Len(s) /\ n <= Len(t) /\ \A i \in 1 .. n : s[i] = t[i]
  <2>1. \A i \in 1 .. n : i \notin D
    BY <1>3
  <2>2. ASSUME NEW i \in 1 .. n PROVE i <= Len(s) /\ i <= Len(t) /\ s[i] = t[i]
    <3>1. i \notin D /\ i \in Nat \ {0} /\ i < d
      BY <2>1
    <3> QED
      BY <1>1, <3>1
  <2>3. n \in Nat
    OBVIOUS
  <2>4. n <= Len(s) /\ n <= Len(t)
    BY <1>1, <2>2, <2>3
  <2> QED
    BY <2>2, <2>3, <2>4
<1>5. CASE d > Len(s)
  <2>1. Differ(s, t, n)
    BY <1>1, <1>4, <1>5 DEF Differ
  <2> QED
    BY <1>4, <2>1, BeforeIsDiffer
<1>6. CASE d > Len(t)
  <2>1. Differ(t, s, n)
    BY <1>1, <1>4, <1>6 DEF Differ
  <2> QED
    BY <1>4, <2>1, BeforeIsDiffer
<1>7. CASE ~(d > Len(s)) /\ ~(d > Len(t))
  <2>1. n + 1 = d /\ d \in 1 .. Len(s) /\ d \in 1 .. Len(t) /\ s[d] # t[d]
    BY <1>1, <1>7
  <2>2. Code(s[d]) \in Nat /\ Code(t[d]) \in Nat /\ Code(s[d]) # Code(t[d])
    <3>1. s[d] \in Symbols /\ t[d] \in Symbols
      BY <2>1
    <3> HIDE DEF D
    <3> QED
      BY <2>1, <3>1, Codes
  <2>3. CASE Code(s[d]) < Code(t[d])
    <3>1. Differ(s, t, n)
      BY <1>1, <1>4, <2>1, <2>3 DEF Differ
    <3> QED
      BY <1>4, <3>1, BeforeIsDiffer
  <2>4. CASE Code(t[d]) < Code(s[d])
    <3>1. Differ(t, s, n)
      BY <1>1, <1>4, <2>1, <2>4 DEF Differ
    <3> QED
      BY <1>4, <3>1, BeforeIsDiffer
  <2> QED
    BY <2>2, <2>3, <2>4
<1> QED
  BY <1>5, <1>6, <1>7

\* The first of some keys exists.
LEMMA FirstExists ==
  ASSUME NEW keys \in SUBSET Seq(Symbols), IsFiniteSet(keys), keys # {}
  PROVE  /\ FirstOf(keys) \in keys
         /\ \A x \in keys \ {FirstOf(keys)} : Before(FirstOf(keys), x)
<1> DEFINE Pre(k) == {x \in keys : Before(x, k)}
           R == {Cardinality(Pre(k)) : k \in keys}
<1>1. \A k \in keys : IsFiniteSet(Pre(k)) /\ Cardinality(Pre(k)) \in Nat
  <2> TAKE k \in keys
  <2>1. Pre(k) \in SUBSET keys
    OBVIOUS
  <2>2. IsFiniteSet(Pre(k))
    BY <2>1, FS_Subset
  <2> QED
    BY <2>2, FS_CardinalityType
<1>2. R \in SUBSET Nat /\ R # {}
  BY <1>1
<1>3. PICK r \in R : \A q \in R : r <= q
  <2> HIDE DEF R
  <2> QED
    BY <1>2, LeastNumber
<1>4. PICK k \in keys : r = Cardinality(Pre(k))
  BY <1>3
<1>5. Pre(k) = {}
  <2> SUFFICES ASSUME NEW x \in keys, Before(x, k) PROVE FALSE
    OBVIOUS
  <2>1. Pre(x) \subseteq Pre(k)
    BY BeforeTransitive
  <2>2. x \in Pre(k) /\ x \notin Pre(x)
    BY BeforeIrreflexive
  <2>3. Cardinality(Pre(x)) <= Cardinality(Pre(k)) /\ Cardinality(Pre(x)) # Cardinality(Pre(k))
    <3> HIDE DEF Pre
    <3>1. IsFiniteSet(Pre(k)) /\ Pre(x) \in SUBSET Pre(k) /\ Pre(x) # Pre(k)
      BY <1>1, <2>1, <2>2
    <3> QED
      BY <3>1, FS_Subset
  <2>4. Cardinality(Pre(k)) <= Cardinality(Pre(x))
    BY <1>3, <1>4
  <2>5. Cardinality(Pre(k)) \in Nat /\ Cardinality(Pre(x)) \in Nat
    BY <1>1
  <2> QED
    BY <2>3, <2>4, <2>5
<1>6. \A x \in keys \ {k} : Before(k, x)
  BY <1>5, BeforeTotal
<1> HIDE DEF Pre, R
<1> QED
  BY <1>6, Zenon DEF FirstOf

\* The keys of the list are finitely many words.
KeysOK == IsFiniteSet(DOMAIN db) /\ DOMAIN db \subseteq Seq(Symbols) \ {<<>>}

\* The node that follows a key, if any does.
LEMMA NextNode ==
  ASSUME KeysOK, NEW k \in Seq(Symbols)
  PROVE  /\ KeyAfter(k) \in Seq(Symbols)
         /\ KeyAfter(k) # End => KeyAfter(k) \in DOMAIN db /\ Before(k, KeyAfter(k))
         /\ \A x \in DOMAIN db : Before(k, x)
              => KeyAfter(k) # End /\ (x = KeyAfter(k) \/ Before(KeyAfter(k), x))
<1> DEFINE later == {x \in DOMAIN db : Before(k, x)}
<1>1. later \in SUBSET Seq(Symbols) /\ <<>> \notin later /\ IsFiniteSet(later)
  <2>1. later \in SUBSET DOMAIN db
    OBVIOUS
  <2> QED
    BY <2>1, FS_Subset DEF KeysOK
<1>2. KeyAfter(k) = FirstOf(later)
  BY DEF KeyAfter
<1>3. CASE later = {}
  <2>1. KeyAfter(k) = End
    <3> HIDE DEF later
    <3> QED
      BY <1>2, <1>3 DEF FirstOf
  <2> QED
    BY <1>3, <2>1 DEF End
<1>4. CASE later # {}
  <2>1. /\ FirstOf(later) \in later
        /\ \A x \in later \ {FirstOf(later)} : Before(FirstOf(later), x)
    <3> HIDE DEF later
    <3> QED
      BY <1>1, <1>4, FirstExists
  <2>2. KeyAfter(k) # End
    BY <1>1, <1>2, <2>1 DEF End
  <2> QED
    BY <1>1, <1>2, <2>1, <2>2
<1> QED
  BY <1>3, <1>4

\* The first node of the list, if it has one.
LEMMA FirstNodeOf ==
  ASSUME KeysOK
  PROVE  /\ FirstNode \in Seq(Symbols)
         /\ FirstNode # End => FirstNode \in DOMAIN db
         /\ \A x \in DOMAIN db : FirstNode # End /\ (x = FirstNode \/ Before(FirstNode, x))
<1> DEFINE keys == DOMAIN db
<1>1. keys \in SUBSET Seq(Symbols) /\ <<>> \notin keys /\ IsFiniteSet(keys)
  BY DEF KeysOK
<1>2. FirstNode = FirstOf(keys)
  BY DEF FirstNode
<1>3. CASE keys = {}
  <2>1. FirstNode = End
    <3> HIDE DEF keys
    <3> QED
      BY <1>2, <1>3 DEF FirstOf
  <2> QED
    BY <1>3, <2>1 DEF End
<1>4. CASE keys # {}
  <2>1. /\ FirstOf(keys) \in keys
        /\ \A x \in keys \ {FirstOf(keys)} : Before(FirstOf(keys), x)
    <3> HIDE DEF keys
    <3> QED
      BY <1>1, <1>4, FirstExists
  <2>2. FirstNode # End
    BY <1>1, <1>2, <2>1 DEF End
  <2> QED
    BY <1>1, <1>2, <2>1, <2>2
<1> QED
  BY <1>3, <1>4

----------------------------------------------------------------------------
(* Texts *)

\* The constants the texts are made of.
LEMMA MarksOf == Delimiter \in Symbols /\ Eol \in Symbols /\ Delimiter # Eol
<1>1. Delimiter \in Symbols /\ Eol \in Symbols
  BY KVAssumption DEF Symbols
<1> QED
  BY <1>1 DEF Delimiter, Eol

\* The first place of a symbol in a text that has it.
LEMMA FindFirst ==
  ASSUME NEW S, NEW text \in Seq(S), NEW a, Has(text, a)
  PROVE  /\ Find(text, a) \in 1 .. Len(text) /\ text[Find(text, a)] = a
         /\ \A j \in 1 .. (Find(text, a) - 1) : text[j] # a
<1> DEFINE T == {i \in 1 .. Len(text) : text[i] = a}
<1>1. DOMAIN text = 1 .. Len(text) /\ Len(text) \in Nat
  OBVIOUS
<1>2. T # {} /\ T \in SUBSET Nat
  BY <1>1 DEF Has
<1>3. PICK i \in T : \A j \in T : i <= j
  <2> HIDE DEF T
  <2> QED
    BY <1>2, LeastNumber
<1>4. i \in DOMAIN text /\ text[i] = a /\ \A j \in 1 .. (i - 1) : text[j] # a
  <2>1. \A j \in 1 .. (i - 1) : j \in 1 .. Len(text) /\ ~(i <= j)
    BY <1>1, <1>3
  <2> QED
    BY <1>1, <1>3, <2>1
<1>5. /\ Find(text, a) \in DOMAIN text /\ text[Find(text, a)] = a
      /\ \A j \in 1 .. (Find(text, a) - 1) : text[j] # a
  <2> HIDE DEF T
  <2> QED
    BY <1>4, Zenon DEF Find
<1> QED
  BY <1>1, <1>5

\* The place is the only one like that.
LEMMA FindIs ==
  ASSUME NEW S, NEW text \in Seq(S), NEW a, NEW i \in 1 .. Len(text), text[i] = a,
         \A j \in 1 .. (i - 1) : text[j] # a
  PROVE  Has(text, a) /\ Find(text, a) = i
<1>1. Has(text, a)
  BY DEF Has
<1>2. /\ Find(text, a) \in 1 .. Len(text) /\ text[Find(text, a)] = a
      /\ \A j \in 1 .. (Find(text, a) - 1) : text[j] # a
  BY <1>1, FindFirst
<1>3. ~(i < Find(text, a)) /\ ~(Find(text, a) < i)
  BY <1>2
<1> QED
  BY <1>1, <1>2, <1>3

\* The beginning of a text.
LEMMA UpToIs ==
  ASSUME NEW S, NEW text \in Seq(S), NEW n \in 0 .. Len(text)
  PROVE  /\ UpTo(text, n) \in Seq(S) /\ Len(UpTo(text, n)) = n
         /\ \A i \in 1 .. n : UpTo(text, n)[i] = text[i]
<1>1. n \in Int /\ Len(text) \in Nat /\ \A i \in 1 .. n : text[i] \in S
  OBVIOUS
<1>2. /\ SubSeq(text, 1, n) \in Seq(S)
      /\ Len(SubSeq(text, 1, n)) = IF 1 <= n THEN n - 1 + 1 ELSE 0
      /\ \A i \in 1 .. n - 1 + 1 : SubSeq(text, 1, n)[i] = text[1 + i - 1]
  BY <1>1, SubSeqProperties
<1> QED
  BY <1>1, <1>2 DEF UpTo

\* The end of a text.
LEMMA FromIs ==
  ASSUME NEW S, NEW text \in Seq(S), NEW m \in 1 .. Len(text) + 1
  PROVE  /\ From(text, m) \in Seq(S) /\ Len(From(text, m)) = Len(text) + 1 - m
         /\ \A i \in 1 .. Len(text) + 1 - m : From(text, m)[i] = text[m + i - 1]
<1> DEFINE n == Len(text)
<1>1. n \in Nat /\ m \in Int /\ \A i \in m .. n : text[i] \in S
  OBVIOUS
<1>2. /\ SubSeq(text, m, n) \in Seq(S)
      /\ Len(SubSeq(text, m, n)) = IF m <= n THEN n - m + 1 ELSE 0
      /\ \A i \in 1 .. n - m + 1 : SubSeq(text, m, n)[i] = text[m + i - 1]
  <2> HIDE DEF n
  <2> QED
    BY <1>1, SubSeqProperties
<1>3. n - m + 1 = n + 1 - m /\ (IF m <= n THEN n - m + 1 ELSE 0) = n + 1 - m
  BY <1>1
<1> QED
  BY <1>1, <1>2, <1>3 DEF From

\* Behind its end a text has no symbols.
LEMMA FromBehind ==
  ASSUME NEW S, NEW text \in Seq(S), NEW m \in Nat, m > Len(text)
  PROVE  From(text, m) = <<>>
  BY SubSeqEmpty DEF From

----------------------------------------------------------------------------
(* What a step may be *)

\* A dump that has read what it should not have goes on.
Wander(l) ==
  /\ ReadsRace(l)
  /\ node' \in {[node EXCEPT ![l] = k] : k \in {KeyAfter(node[l]), End}}
  /\ cut' = cut \ {l}
  /\ overlap' = [overlap EXCEPT ![l] = "mixed"]
  /\ UNCHANGED <<sends, poolVars, db, streamVars, pc, cmd, key, value, had, kept>>

\* The process is started again; the file has what the streams hold back or not.
StartsAgain == Restart /\ file' \in {file, file \o writer.buf}

\* Loop l takes up a command.
Begins(l, words) ==
  \/ ReadSet(l, words) \/ ReadDel(l, words) \/ ReadGet(l, words)
  \/ OpenWriter(l, words) \/ OpenReader(l, words)

\* Loop l goes on with it.
GoesOn(l) ==
  \/ InsertNew(l) \/ BeginAssign(l) \/ EndAssign(l) \/ Delete(l)
  \/ AddSearch(l) \/ AddThrows(l) \/ EndSearch(l) \/ Get(l)
  \/ WriteNode(l) \/ CloseWriter(l) \/ Wander(l)
  \/ GetLine(l) \/ CloseReader(l) \/ AnswerOk(l)

\* Every other step is the pool's, or nobody's.
LEMMA Steps ==
  ASSUME [Next]_vars
  PROVE  \/ UNCHANGED <<serverVars, task>> \/ StartsAgain
         \/ \E l \in Loops : GoesOn(l) \/ \E words \in sends[l] : Begins(l, words)
<1>1. Kill => StartsAgain
  BY DEF Kill, StartsAgain
<1>2. EndExit => StartsAgain
  BY DEF EndExit, StartsAgain
<1>3. CASE UNCHANGED vars
  BY <1>3 DEF vars, serverVars, poolVars
<1>4. ASSUME NEW l \in Loops, Read(l)
      PROVE  \/ UNCHANGED <<serverVars, task>> \/ StartsAgain
             \/ \E words \in sends[l] : Begins(l, words)
  <2>1. CASE ReadBlank(l)
    BY <1>1, <2>1 DEF ReadBlank
  <2>2. ASSUME NEW words \in sends[l], Reject(l, words) PROVE UNCHANGED <<serverVars, task>>
    BY <2>2 DEF Reject, vars, serverVars, poolVars
  <2> QED
    BY <1>4, <2>1, <2>2, Zenon DEF Read, Begins
<1>5. ASSUME NEW l \in Loops, HandlerStep(l) PROVE StartsAgain \/ GoesOn(l)
  <2>1. ASSUME Undefined(l) PROVE StartsAgain \/ Wander(l)
    BY <1>1, <2>1, Zenon DEF Undefined, Wander
  <2> QED
    BY <1>5, <2>1, Zenon DEF HandlerStep, ReaderStep, GoesOn
<1>6. CASE PoolStep
  BY <1>6 DEF PoolStep, WorkerStep, TestStop, SetStop, SpuriousWakeup
<1>7. CASE ExitStep
  BY <1>2, <1>7 DEF ExitStep, NotifyWorkers, Join
<1>8. CASE Kill
  BY <1>1, <1>8
<1>9. ASSUME NEW l \in Loops, EndSearch(l) PROVE GoesOn(l)
  BY <1>9 DEF GoesOn
<1> QED
  BY <1>3, <1>4, <1>5, <1>6, <1>7, <1>8, <1>9, Zenon DEF Next

----------------------------------------------------------------------------
(* Types *)

\* The words of a command.
Words == Seq(Symbols) \ {<<>>}

\* The states of a stream.
Streams == [open : BOOLEAN, fail : BOOLEAN, buf : Seq(Symbols), pos : Nat]

\* Where a handler may be, and the commands it may handle.
Places == {"idle", "insert", "assign", "delete", "add", "get", "dead",
           "dump", "dumped", "load", "loaded"}
Commands == {"none", "SET", "GET", "DEL", "LOAD", "DUMP"}

\* The list has finitely many keys, and neither keys nor values are empty.
PairsOK(map) ==
  /\ IsFiniteSet(DOMAIN map)
  /\ DOMAIN map \subseteq Words
  /\ map \in [DOMAIN map -> Words]

ListOK == PairsOK(db)

\* The streams hold symbols of the file.

StreamsOK == file \in Seq(Symbols) /\ writer \in Streams /\ reader \in Streams

\* Where a handler is says which command it handles.
Fits(p, c) ==
  /\ p = "idle" <=> c = "none"
  /\ p \in {"insert", "assign"} => c \in {"SET", "LOAD"}
  /\ p = "delete" => c = "DEL"
  /\ p \in {"add", "get", "dead"} => c = "GET"
  /\ p \in {"dump", "dumped"} => c = "DUMP"
  /\ p \in {"load", "loaded"} => c = "LOAD"

\* A handler that inserts has a whole pair; a loop between two commands has none.
HandlersOK ==
  /\ pc \in [Loops -> Places] /\ cmd \in [Loops -> Commands]
  /\ key \in [Loops -> Seq(Symbols)] /\ value \in [Loops -> Seq(Symbols)]
  /\ node \in [Loops -> Seq(Symbols)]
  /\ cut \subseteq Loops
  /\ \A l \in Loops :
       /\ Fits(pc[l], cmd[l])
       /\ pc[l] = "idle" => key[l] = <<>> /\ value[l] = <<>>
       /\ pc[l] \in {"insert", "assign"} => key[l] \in Words /\ value[l] \in Words

\* What the runs record.
HistoryOK ==
  /\ overlap \in [Loops -> {"quiet", "busy", "mixed", "failed"}]
  /\ had \in [Loops -> SUBSET Seq(Symbols)]
  /\ kept \in [Loops -> Seq(Symbols)]

\* The types of the server's own variables, and what they rest on.
ServerOK == sends \in Scenarios /\ ListOK /\ StreamsOK /\ HandlersOK /\ HistoryOK

\* What a loop may read.
LEMMA WordsRead ==
  ASSUME ServerOK, NEW l \in Loops, NEW words \in sends[l]
  PROVE  words \in Seq(Words) /\ \A i \in 1 .. Len(words) : words[i] \in Words
<1>1. sends \in [Loops -> SUBSET Seq(Words)]
  BY KVAssumption DEF ServerOK, Words, Symbols
<1>2. words \in Seq(Words)
  BY <1>1
<1> QED
  BY <1>2, ElementOfSeq

\* A handler that takes up a command or goes on to another place.
LEMMA HandlerMoves ==
  ASSUME HandlersOK, NEW l \in Loops, NEW p \in Places, NEW c \in Commands, Fits(p, c),
         NEW k \in Seq(Symbols), NEW v \in Seq(Symbols),
         p = "idle" => k = <<>> /\ v = <<>>,
         p \in {"insert", "assign"} => k \in Words /\ v \in Words,
         pc' = [pc EXCEPT ![l] = p], cmd' = [cmd EXCEPT ![l] = c],
         key' = [key EXCEPT ![l] = k], value' = [value EXCEPT ![l] = v],
         node' \in [Loops -> Seq(Symbols)], cut' \subseteq Loops
  PROVE  HandlersOK'
<1> HIDE DEF Places, Commands, Words
<1>1. /\ pc' \in [Loops -> Places] /\ cmd' \in [Loops -> Commands]
      /\ key' \in [Loops -> Seq(Symbols)] /\ value' \in [Loops -> Seq(Symbols)]
  BY DEF HandlersOK
<1>2. ASSUME NEW m \in Loops
      PROVE  /\ Fits(pc'[m], cmd'[m])
             /\ pc'[m] = "idle" => key'[m] = <<>> /\ value'[m] = <<>>
             /\ pc'[m] \in {"insert", "assign"} => key'[m] \in Words /\ value'[m] \in Words
  <2>1. CASE m = l
    <3>1. pc'[l] = p /\ cmd'[l] = c /\ key'[l] = k /\ value'[l] = v
      BY DEF HandlersOK
    <3> QED
      BY <2>1, <3>1
  <2>2. CASE m # l
    <3>1. pc'[m] = pc[m] /\ cmd'[m] = cmd[m] /\ key'[m] = key[m] /\ value'[m] = value[m]
      BY <2>2 DEF HandlersOK
    <3> QED
      BY <3>1 DEF HandlersOK
  <2> QED
    BY <2>1, <2>2
<1>3. \A m \in Loops :
        /\ Fits(pc[m], cmd[m])'
        /\ (pc[m] = "idle" => key[m] = <<>> /\ value[m] = <<>>)'
        /\ (pc[m] \in {"insert", "assign"} => key[m] \in Words /\ value[m] \in Words)'
  BY <1>2 DEF Fits
<1> QED
  BY <1>1, <1>3 DEF HandlersOK

\* Streams that have just been opened or closed.
LEMMA StreamsOpened ==
  /\ Closed \in Streams
  /\ \A stream \in Streams : Opened(stream) \subseteq Streams
<1>1. <<>> \in Seq(Symbols)
  OBVIOUS
<1>2. Closed \in Streams
  BY <1>1 DEF Closed, Streams
<1>3. ASSUME NEW stream \in Streams PROVE Opened(stream) \subseteq Streams
  <2>1. [stream EXCEPT !.fail = TRUE] \in Streams
    BY DEF Streams
  <2>2. [Closed EXCEPT !.open = TRUE] \in Streams /\ [Closed EXCEPT !.fail = TRUE] \in Streams
    BY <1>2 DEF Streams
  <2> QED
    BY <2>1, <2>2, Zenon DEF Opened
<1> QED
  BY <1>2, <1>3

\* The value of a key, if it is there.
LEMMA ValueOfKey ==
  ASSUME NEW map, PairsOK(map), NEW k
  PROVE  /\ ValueIn(map, k) \in Seq(Symbols)
         /\ k \in DOMAIN map <=> ValueIn(map, k) # <<>>
<1>1. CASE k \in DOMAIN map
  <2>1. ValueIn(map, k) = map[k] /\ map[k] \in Words
    BY <1>1 DEF ValueIn, PairsOK
  <2> QED
    BY <1>1, <2>1 DEF Words
<1>2. CASE k \notin DOMAIN map
  BY <1>2 DEF ValueIn
<1> QED
  BY <1>1, <1>2

\* A pair is inserted.
LEMMA ListInserted ==
  ASSUME ListOK, NEW k \in Words, NEW v \in Words, db' = Inserted(k, v)
  PROVE  /\ ListOK'
         /\ DOMAIN db' = DOMAIN db \cup {k}
         /\ \A x : ValueIn(db', x) = IF x = k THEN v ELSE ValueIn(db, x)
<1> HIDE DEF Words
<1>1. DOMAIN db' = DOMAIN db \cup {k} /\ \A x \in DOMAIN db' : db'[x] = IF x = k THEN v ELSE db[x]
  BY DEF Inserted
<1>2. IsFiniteSet(DOMAIN db \cup {k})
  BY FS_AddElement DEF ListOK, PairsOK
<1>3. db' \in [DOMAIN db' -> Words]
  <2>1. db' = [x \in DOMAIN db' |-> db'[x]]
    BY <1>1 DEF Inserted
  <2>2. \A x \in DOMAIN db' : db'[x] \in Words
    BY <1>1 DEF ListOK, PairsOK
  <2> QED
    BY <2>1, <2>2
<1>4. ASSUME NEW x PROVE ValueIn(db', x) = IF x = k THEN v ELSE ValueIn(db, x)
  BY <1>1 DEF ValueIn
<1> QED
  BY <1>1, <1>2, <1>3, <1>4 DEF ListOK, PairsOK

\* A key is deleted.
LEMMA ListDeleted ==
  ASSUME ListOK, NEW k, db' = Deleted(k)
  PROVE  /\ ListOK'
         /\ DOMAIN db' = DOMAIN db \ {k}
         /\ \A x : ValueIn(db', x) = IF x = k THEN <<>> ELSE ValueIn(db, x)
<1> HIDE DEF Words
<1>1. DOMAIN db' = DOMAIN db \ {k} /\ \A x \in DOMAIN db' : db'[x] = db[x]
  BY DEF Deleted
<1>2. IsFiniteSet(DOMAIN db \ {k})
  BY FS_RemoveElement DEF ListOK, PairsOK
<1>3. db' \in [DOMAIN db' -> Words]
  <2>1. db' = [x \in DOMAIN db' |-> db'[x]]
    BY <1>1 DEF Deleted
  <2>2. \A x \in DOMAIN db' : db'[x] \in Words
    BY <1>1 DEF ListOK, PairsOK
  <2> QED
    BY <2>1, <2>2
<1>4. ASSUME NEW x PROVE ValueIn(db', x) = IF x = k THEN <<>> ELSE ValueIn(db, x)
  BY <1>1 DEF ValueIn
<1> QED
  BY <1>1, <1>2, <1>3, <1>4 DEF ListOK, PairsOK

\* A change of the list is recorded.
LEMMA HistoryRecorded ==
  ASSUME HistoryOK, ListOK', NEW l \in Loops, Recorded(l)
  PROVE  HistoryOK'
<1>1. ValueIn(db', Watched) \in Seq(Symbols)
  BY ValueOfKey DEF ListOK
<1>2. overlap' \in [Loops -> {"quiet", "busy", "mixed", "failed"}]
  BY DEF HistoryOK, Recorded
<1>3. had' \in [Loops -> SUBSET Seq(Symbols)] /\ kept' \in [Loops -> Seq(Symbols)]
  BY <1>1 DEF HistoryOK, Recorded
<1> QED
  BY <1>2, <1>3 DEF HistoryOK

\* What getline() takes out of a text has no line end.
LEMMA FirstLineIs ==
  ASSUME NEW text \in Seq(Symbols)
  PROVE  /\ FirstLine(text) \in Seq(Symbols)
         /\ \A i \in 1 .. Len(FirstLine(text)) : FirstLine(text)[i] = text[i]
         /\ Has(text, Eol) => /\ Len(FirstLine(text)) + 1 \in 1 .. Len(text)
                              /\ text[Len(FirstLine(text)) + 1] = Eol
         /\ ~Has(text, Eol) => Len(FirstLine(text)) = Len(text)
         /\ ~Has(FirstLine(text), Eol)
<1> DEFINE line == FirstLine(text)
<1>1. CASE Has(text, Eol)
  <2> DEFINE n == Find(text, Eol) - 1
  <2>1. n \in 0 .. Len(text) /\ n + 1 \in 1 .. Len(text) /\ text[n + 1] = Eol /\ \A j \in 1 .. n : text[j] # Eol
    BY <1>1, FindFirst
  <2>2. line = UpTo(text, n)
    BY <1>1 DEF FirstLine
  <2> HIDE DEF line, n
  <2>3. line \in Seq(Symbols) /\ Len(line) = n /\ \A i \in 1 .. n : line[i] = text[i]
    BY <2>1, <2>2, UpToIs
  <2>4. ~Has(line, Eol)
    BY <2>1, <2>3 DEF Has
  <2> QED
    BY <1>1, <2>1, <2>3, <2>4 DEF line
<1>2. CASE ~Has(text, Eol)
  BY <1>2 DEF FirstLine
<1> QED
  BY <1>1, <1>2

\* The two parts of a line.
LEMMA PartsOfLine ==
  ASSUME NEW line \in Seq(Symbols), Has(line, Delimiter)
  PROVE  KeyOf(line) \in Seq(Symbols) /\ ValueOf(line) \in Seq(Symbols)
<1> DEFINE n == Find(line, Delimiter)
<1>1. n \in 1 .. Len(line) /\ n - 1 \in 0 .. Len(line) /\ n + 1 \in 1 .. Len(line) + 1
  BY FindFirst
<1> HIDE DEF n
<1>2. UpTo(line, n - 1) \in Seq(Symbols) /\ From(line, n + 1) \in Seq(Symbols)
  BY <1>1, UpToIs, FromIs
<1> QED
  BY <1>2 DEF KeyOf, ValueOf, n

\* What may be read is a text.
LEMMA UnreadIs ==
  ASSUME StreamsOK
  PROVE  /\ Unread \in Seq(Symbols)
         /\ reader.pos <= Len(file) => From(file, reader.pos + 1) \in Seq(Symbols)
         /\ reader.pos >= Len(file) => From(file, reader.pos + 1) = <<>>
<1>1. reader.buf \in Seq(Symbols) /\ reader.pos \in Nat /\ file \in Seq(Symbols)
  BY DEF StreamsOK, Streams
<1>2. reader.pos <= Len(file) => From(file, reader.pos + 1) \in Seq(Symbols)
  <2> SUFFICES ASSUME reader.pos <= Len(file) PROVE From(file, reader.pos + 1) \in Seq(Symbols)
    OBVIOUS
  <2>1. reader.pos + 1 \in 1 .. Len(file) + 1
    BY <1>1
  <2> QED
    BY <1>1, <2>1, FromIs
<1>3. reader.pos >= Len(file) => From(file, reader.pos + 1) = <<>>
  <2> SUFFICES ASSUME reader.pos >= Len(file) PROVE From(file, reader.pos + 1) = <<>>
    OBVIOUS
  <2>1. reader.pos + 1 \in Nat /\ reader.pos + 1 > Len(file)
    BY <1>1
  <2> QED
    BY <1>1, <2>1, FromBehind
<1>4. From(file, reader.pos + 1) \in Seq(Symbols)
  <2>1. <<>> \in Seq(Symbols)
    OBVIOUS
  <2>2. reader.pos <= Len(file) \/ reader.pos >= Len(file)
    BY <1>1
  <2> QED
    BY <1>2, <1>3, <2>1, <2>2
<1>5. reader.buf \o From(file, reader.pos + 1) \in Seq(Symbols)
  BY <1>1, <1>4, ConcatProperties
<1> QED
  BY <1>1, <1>2, <1>3, <1>4, <1>5, Zenon DEF Unread

\* The parts of the types that a step leaves alone.
LEMMA PartsKept ==
  /\ sends' = sends => (sends \in Scenarios <=> sends' \in Scenarios)
  /\ db' = db => (ListOK <=> ListOK')
  /\ file' = file /\ writer' = writer /\ reader' = reader => (StreamsOK <=> StreamsOK')
  /\ overlap' = overlap /\ had' = had /\ kept' = kept => (HistoryOK <=> HistoryOK')
  BY DEF ListOK, StreamsOK, HistoryOK

\* A loop that takes up a command keeps the types.
LEMMA BeginsTypes ==
  ASSUME ServerOK, NEW l \in Loops, NEW words \in sends[l], Begins(l, words)
  PROVE  ServerOK'
<1>1. words \in Seq(Words) /\ \A i \in 1 .. Len(words) : words[i] \in Words
  BY WordsRead
<1>2. /\ sends \in Scenarios /\ ListOK /\ StreamsOK /\ HandlersOK /\ HistoryOK
  BY DEF ServerOK
<1>3. /\ key[l] = <<>> /\ value[l] = <<>> /\ key[l] \in Seq(Symbols) /\ value[l] \in Seq(Symbols)
      /\ key = [key EXCEPT ![l] = key[l]] /\ value = [value EXCEPT ![l] = value[l]]
      /\ node \in [Loops -> Seq(Symbols)] /\ cut \subseteq Loops
  <2>1. pc[l] = "idle"
    BY DEF Begins, Reads, ReadSet, ReadDel, ReadGet, OpenWriter, OpenReader
  <2> QED
    BY <1>2, <2>1 DEF HandlersOK
<1>4. CASE ReadSet(l, words)
  <2>1. words[2] \in Words /\ words[3] \in Words
    BY <1>1, <1>4 DEF ReadSet, Reads, Is
  <2>2. /\ pc' = [pc EXCEPT ![l] = "insert"] /\ cmd' = [cmd EXCEPT ![l] = "SET"]
        /\ key' = [key EXCEPT ![l] = words[2]] /\ value' = [value EXCEPT ![l] = words[3]]
        /\ UNCHANGED <<sends, db, file, writer, reader, overlap, had, kept, node, cut>>
    BY <1>4 DEF ReadSet, Reads, Goto, streamVars, historyVars
  <2>3. words[2] \in Seq(Symbols) /\ words[3] \in Seq(Symbols)
    BY <2>1 DEF Words
  <2>4. "insert" \in Places /\ "SET" \in Commands /\ Fits("insert", "SET")
    BY DEF Fits, Places, Commands
  <2>5. HandlersOK'
    BY <1>2, <1>3, <2>1, <2>2, <2>3, <2>4, HandlerMoves
  <2> QED
    BY <1>2, <2>2, <2>5, PartsKept DEF ServerOK
<1>5. CASE ReadDel(l, words)
  <2>1. words[2] \in Words
    BY <1>1, <1>5 DEF ReadDel, Reads, Is
  <2>2. /\ pc' = [pc EXCEPT ![l] = "delete"] /\ cmd' = [cmd EXCEPT ![l] = "DEL"]
        /\ key' = [key EXCEPT ![l] = words[2]] /\ value' = [value EXCEPT ![l] = value[l]]
        /\ UNCHANGED <<sends, db, file, writer, reader, overlap, had, kept, node, cut>>
    BY <1>3, <1>5 DEF ReadDel, Reads, Goto, streamVars, historyVars
  <2>3. words[2] \in Seq(Symbols)
    BY <2>1 DEF Words
  <2>4. "delete" \in Places /\ "DEL" \in Commands /\ Fits("delete", "DEL")
    BY DEF Fits, Places, Commands
  <2>5. HandlersOK'
    BY <1>2, <1>3, <2>1, <2>2, <2>3, <2>4, HandlerMoves
  <2> QED
    BY <1>2, <2>2, <2>5, PartsKept DEF ServerOK
<1>6. CASE ReadGet(l, words)
  <2>2. /\ pc' = [pc EXCEPT ![l] = "add"] /\ cmd' = [cmd EXCEPT ![l] = "GET"]
        /\ key' = [key EXCEPT ![l] = key[l]] /\ value' = [value EXCEPT ![l] = value[l]]
        /\ UNCHANGED <<sends, db, file, writer, reader, overlap, had, kept, node, cut>>
    BY <1>3, <1>6 DEF ReadGet, Reads, Goto, streamVars, historyVars
  <2>3. "add" \in Places /\ "GET" \in Commands /\ Fits("add", "GET")
    BY DEF Fits, Places, Commands
  <2>4. HandlersOK'
    BY <1>2, <1>3, <2>2, <2>3, HandlerMoves
  <2> QED
    BY <1>2, <2>2, <2>4, PartsKept DEF ServerOK
<1>7. CASE OpenWriter(l, words)
  <2>1. /\ pc' = [pc EXCEPT ![l] = "dump"] /\ cmd' = [cmd EXCEPT ![l] = "DUMP"]
        /\ key' = [key EXCEPT ![l] = key[l]] /\ value' = [value EXCEPT ![l] = value[l]]
        /\ node' = [node EXCEPT ![l] = FirstNode]
        /\ UNCHANGED <<sends, db, reader, cut>>
    BY <1>3, <1>7 DEF OpenWriter, Reads, Goto
  <2>2. node' \in [Loops -> Seq(Symbols)]
    <3>1. FirstNode \in Seq(Symbols)
      BY <1>2, FirstNodeOf DEF KeysOK, ListOK, PairsOK, Words
    <3> QED
      BY <1>3, <2>1, <3>1
  <2>3. HandlersOK'
    <3>1. "dump" \in Places /\ "DUMP" \in Commands /\ Fits("dump", "DUMP")
      BY DEF Fits, Places, Commands
    <3> QED
      BY <1>2, <1>3, <2>1, <2>2, <3>1, HandlerMoves
  <2>4. StreamsOK'
    <3>1. writer' \in Opened(writer) /\ file' \in {file, <<>>}
      BY <1>7 DEF OpenWriter, Truncated
    <3>2. <<>> \in Seq(Symbols)
      OBVIOUS
    <3> QED
      BY <1>2, <2>1, <3>1, <3>2, StreamsOpened DEF StreamsOK
  <2>5. HistoryOK'
    <3>1. ValueIn(db, Watched) \in Seq(Symbols)
      BY <1>2, ValueOfKey DEF ListOK
    <3>2. had' \in [Loops -> SUBSET Seq(Symbols)]
      BY <1>7, <3>1 DEF OpenWriter
    <3>4. kept' \in [Loops -> Seq(Symbols)]
      <4>1. file \in Seq(Symbols) /\ <<>> \in Seq(Symbols)
        BY <1>2 DEF StreamsOK
      <4> QED
        BY <1>7, <4>1 DEF OpenWriter
    <3>3. overlap' \in [Loops -> {"quiet", "busy", "mixed", "failed"}]
      <4>1. \A k \in Loops : overlap[k] \in {"quiet", "busy", "mixed", "failed"}
        BY <1>2 DEF HistoryOK
      <4> QED
        BY <1>7, <4>1 DEF OpenWriter, Begun
    <3> QED
      BY <3>2, <3>3, <3>4 DEF HistoryOK
  <2> QED
    BY <1>2, <2>1, <2>3, <2>4, <2>5, PartsKept DEF ServerOK
<1>8. CASE OpenReader(l, words)
  <2>1. /\ pc' = [pc EXCEPT ![l] = "load"] /\ cmd' = [cmd EXCEPT ![l] = "LOAD"]
        /\ key' = [key EXCEPT ![l] = key[l]] /\ value' = [value EXCEPT ![l] = value[l]]
        /\ reader' \in Opened(reader)
        /\ UNCHANGED <<sends, db, file, writer, node, cut, had, kept>>
    BY <1>3, <1>8 DEF OpenReader, Reads, Goto
  <2>2. HandlersOK'
    <3>1. "load" \in Places /\ "LOAD" \in Commands /\ Fits("load", "LOAD")
      BY DEF Fits, Places, Commands
    <3> QED
      BY <1>2, <1>3, <2>1, <3>1, HandlerMoves
  <2>3. StreamsOK'
    BY <1>2, <2>1, StreamsOpened DEF StreamsOK
  <2>4. HistoryOK'
    <3>1. \A k \in Loops : overlap[k] \in {"quiet", "busy", "mixed", "failed"}
      BY <1>2 DEF HistoryOK
    <3>2. overlap' \in [Loops -> {"quiet", "busy", "mixed", "failed"}]
      BY <1>8, <3>1 DEF OpenReader, Begun
    <3> QED
      BY <1>2, <2>1, <3>2 DEF HistoryOK
  <2> QED
    BY <1>2, <2>1, <2>2, <2>3, <2>4, PartsKept DEF ServerOK
<1> QED
  BY <1>4, <1>5, <1>6, <1>7, <1>8 DEF Begins

\* A handler that goes on to another place and keeps its pair.
LEMMA HandlerStays ==
  ASSUME HandlersOK, NEW l \in Loops, NEW p \in Places, Fits(p, cmd[l]), p # "idle",
         p \in {"insert", "assign"} => key[l] \in Words /\ value[l] \in Words,
         pc' = [pc EXCEPT ![l] = p], UNCHANGED <<cmd, key, value>>,
         node' \in [Loops -> Seq(Symbols)], cut' \subseteq Loops
  PROVE  HandlersOK'
<1>1. /\ cmd[l] \in Commands /\ key[l] \in Seq(Symbols) /\ value[l] \in Seq(Symbols)
      /\ cmd = [cmd EXCEPT ![l] = cmd[l]]
      /\ key = [key EXCEPT ![l] = key[l]] /\ value = [value EXCEPT ![l] = value[l]]
  BY DEF HandlersOK
<1> HIDE DEF Fits, Places, Words
<1> QED
  BY <1>1, HandlerMoves

\* A handler that returns.
LEMMA HandlerReturns ==
  ASSUME HandlersOK, NEW l \in Loops, Return(l),
         node' \in [Loops -> Seq(Symbols)], cut' \subseteq Loops
  PROVE  HandlersOK'
<1>1. "idle" \in Places /\ "none" \in Commands /\ Fits("idle", "none") /\ <<>> \in Seq(Symbols)
  BY DEF Fits, Places, Commands
<1>2. /\ pc' = [pc EXCEPT ![l] = "idle"] /\ cmd' = [cmd EXCEPT ![l] = "none"]
      /\ key' = [key EXCEPT ![l] = <<>>] /\ value' = [value EXCEPT ![l] = <<>>]
  BY DEF Return, Goto
<1> QED
  BY <1>1, <1>2, HandlerMoves

\* The node of a dump is in the list unless it was freed under it.
NodesOK ==
  \A l \in Loops : InDump(l) /\ node[l] # End => l \in cut \/ node[l] \in DOMAIN db

\* A stream takes a line, and writes some of what it holds.
LEMMA StreamsWritten ==
  ASSUME StreamsOK, NEW line \in Seq(Symbols), NEW n \in 0 .. Len(line),
         file' = IF n = 0 THEN file ELSE file \o writer.buf \o UpTo(line, n),
         writer' = [writer EXCEPT !.buf = IF n = 0 THEN @ \o line ELSE From(line, n + 1)],
         UNCHANGED reader
  PROVE  StreamsOK'
<1>1. file \in Seq(Symbols) /\ writer.buf \in Seq(Symbols) /\ writer \in Streams
  BY DEF StreamsOK, Streams
<1>2. n \in 0 .. Len(line) /\ n + 1 \in 1 .. Len(line) + 1
  OBVIOUS
<1>3. UpTo(line, n) \in Seq(Symbols) /\ From(line, n + 1) \in Seq(Symbols)
  BY <1>2, UpToIs, FromIs
<1>4. /\ writer.buf \o line \in Seq(Symbols)
      /\ file \o writer.buf \in Seq(Symbols)
  BY <1>1, ConcatProperties
<1>5. (file \o writer.buf) \o UpTo(line, n) \in Seq(Symbols)
  BY <1>3, <1>4, ConcatProperties
<1>6. file' \in Seq(Symbols)
  BY <1>1, <1>5, Zenon
<1>7. \A buf \in Seq(Symbols) : [writer EXCEPT !.buf = buf] \in Streams
  BY <1>1 DEF Streams
<1>8. writer' \in Streams
  <2> DEFINE buf == IF n = 0 THEN writer.buf \o line ELSE From(line, n + 1)
  <2>1. buf \in Seq(Symbols)
    BY <1>3, <1>4, Zenon
  <2>2. writer' = [writer EXCEPT !.buf = buf]
    OBVIOUS
  <2> HIDE DEF buf
  <2> QED
    BY <1>7, <2>1, <2>2
<1> QED
  BY <1>6, <1>8 DEF StreamsOK

\* Two texts, one behind the other.
LEMMA ConcatIs ==
  ASSUME NEW S, NEW s \in Seq(S), NEW t \in Seq(S)
  PROVE  /\ s \o t \in Seq(S) /\ Len(s \o t) = Len(s) + Len(t)
         /\ \A i \in 1 .. Len(s) : (s \o t)[i] = s[i]
         /\ \A i \in 1 .. Len(t) : (s \o t)[Len(s) + i] = t[i]
<1> DEFINE u == s \o t
<1>1. /\ u \in Seq(S) /\ Len(u) = Len(s) + Len(t)
      /\ \A i \in 1 .. Len(s) + Len(t) : u[i] = IF i <= Len(s) THEN s[i] ELSE t[i - Len(s)]
  BY ConcatProperties
<1>2. Len(s) \in Nat /\ Len(t) \in Nat
  OBVIOUS
<1> HIDE DEF u
<1>3. ASSUME NEW i \in 1 .. Len(t) PROVE u[Len(s) + i] = t[i]
  <2>1. Len(s) + i \in 1 .. Len(s) + Len(t) /\ ~(Len(s) + i <= Len(s)) /\ (Len(s) + i) - Len(s) = i
    BY <1>2
  <2> QED
    BY <1>1, <2>1
<1>4. \A i \in 1 .. Len(s) : u[i] = s[i]
  BY <1>1, <1>2
<1> QED
  BY <1>1, <1>3, <1>4 DEF u

\* What a line says of a key and a value.
Both(k, v) == k \o <<Delimiter>> \o v

LEMMA BothIs ==
  ASSUME NEW k \in Seq(Symbols), NEW v \in Seq(Symbols)
  PROVE  /\ Both(k, v) \in Seq(Symbols) /\ Len(Both(k, v)) = Len(k) + 1 + Len(v)
         /\ \A i \in 1 .. Len(k) : Both(k, v)[i] = k[i]
         /\ Both(k, v)[Len(k) + 1] = Delimiter
         /\ \A i \in 1 .. Len(v) : Both(k, v)[Len(k) + 1 + i] = v[i]
<1> DEFINE d == <<Delimiter>>
           kd == k \o d
<1>1. d \in Seq(Symbols) /\ Len(d) = 1 /\ d[1] = Delimiter
  <2>1. Delimiter \in Symbols
    BY MarksOf
  <2> HIDE DEF Delimiter
  <2> QED
    BY <2>1
<1>2. Both(k, v) = kd \o v
  BY DEF Both
<1>3. Len(k) \in Nat /\ Len(v) \in Nat
  OBVIOUS
<1> HIDE DEF d
<1>4. /\ kd \in Seq(Symbols) /\ Len(kd) = Len(k) + Len(d)
      /\ \A i \in 1 .. Len(k) : kd[i] = k[i]
      /\ \A i \in 1 .. Len(d) : kd[Len(k) + i] = d[i]
  <2>1. d \in Seq(Symbols)
    BY <1>1
  <2> QED
    BY <2>1, ConcatIs
<1> HIDE DEF kd
<1>5. Len(kd) = Len(k) + 1 /\ kd[Len(k) + 1] = Delimiter
  BY <1>1, <1>4
<1>6. /\ kd \o v \in Seq(Symbols) /\ Len(kd \o v) = Len(kd) + Len(v)
      /\ \A i \in 1 .. Len(kd) : (kd \o v)[i] = kd[i]
      /\ \A i \in 1 .. Len(v) : (kd \o v)[Len(kd) + i] = v[i]
  <2>1. kd \in Seq(Symbols)
    BY <1>4
  <2> QED
    BY <2>1, ConcatIs
<1>7. (\A i \in 1 .. Len(k) : i \in 1 .. Len(kd)) /\ Len(k) + 1 \in 1 .. Len(kd)
  BY <1>3, <1>5
<1> QED
  BY <1>2, <1>4, <1>5, <1>6, <1>7

\* A line for a node.
LEMMA LineIs ==
  ASSUME NEW k \in Seq(Symbols), NEW v \in Seq(Symbols)
  PROVE  /\ Line(k, v) \in Seq(Symbols) /\ Len(Line(k, v)) = Len(Both(k, v)) + 1
         /\ \A i \in 1 .. Len(Both(k, v)) : Line(k, v)[i] = Both(k, v)[i]
         /\ Line(k, v)[Len(Both(k, v)) + 1] = Eol
<1> DEFINE b == Both(k, v)
           e == <<Eol>>
<1>1. e \in Seq(Symbols) /\ Len(e) = 1 /\ e[1] = Eol
  <2>1. Eol \in Symbols
    BY MarksOf
  <2> HIDE DEF Eol
  <2> QED
    BY <2>1
<1>2. Line(k, v) = b \o e
  BY DEF Line, Both
<1>3. b \in Seq(Symbols) /\ Len(b) \in Nat
  <2>1. b \in Seq(Symbols)
    BY BothIs
  <2> HIDE DEF b
  <2> QED
    BY <2>1 DEF Symbols
<1> HIDE DEF b, e
<1>4. /\ b \o e \in Seq(Symbols) /\ Len(b \o e) = Len(b) + Len(e)
      /\ \A i \in 1 .. Len(b) : (b \o e)[i] = b[i]
      /\ \A i \in 1 .. Len(e) : (b \o e)[Len(b) + i] = e[i]
  <2>1. e \in Seq(Symbols)
    BY <1>1
  <2> QED
    BY <1>3, <2>1, ConcatIs
<1>5. 1 \in 1 .. Len(e)
  BY <1>1
<1> QED
  BY <1>1, <1>2, <1>4, <1>5 DEF b

\* A loop that goes on with a command keeps the types.
LEMMA GoesOnTypes ==
  ASSUME ServerOK, NodesOK, NEW l \in Loops, GoesOn(l)
  PROVE  ServerOK'
<1>1. /\ sends \in Scenarios /\ ListOK /\ StreamsOK /\ HandlersOK /\ HistoryOK
      /\ node \in [Loops -> Seq(Symbols)] /\ cut \subseteq Loops
      /\ Fits(pc[l], cmd[l])
      /\ pc[l] \in {"insert", "assign"} => key[l] \in Words /\ value[l] \in Words
  BY DEF ServerOK, HandlersOK
<1>2. CASE InsertNew(l) \/ EndAssign(l)
  <2>1. /\ pc[l] \in {"insert", "assign"} /\ db' = Inserted(key[l], value[l])
        /\ Insertion(l) /\ Recorded(l)
        /\ UNCHANGED <<sends, file, writer, reader, node, cut>>
    BY <1>2 DEF InsertNew, EndAssign, streamVars
  <2>2. ListOK'
    BY <1>1, <2>1, ListInserted
  <2>3. HandlersOK'
    <3>1. CASE cmd[l] = "LOAD"
      <4>1. "load" \in Places /\ Fits("load", cmd[l])
        BY <3>1 DEF Places, Fits
      <4>2. pc' = [pc EXCEPT ![l] = "load"] /\ UNCHANGED <<cmd, key, value>>
        BY <2>1, <3>1 DEF Insertion, Goto
      <4> QED
        BY <1>1, <2>1, <4>1, <4>2, HandlerStays
    <3>2. CASE cmd[l] # "LOAD"
      <4>1. Return(l)
        BY <2>1, <3>2 DEF Insertion
      <4> QED
        BY <1>1, <2>1, <4>1, HandlerReturns
    <3> QED
      BY <3>1, <3>2
  <2>4. HistoryOK'
    BY <1>1, <2>1, <2>2, HistoryRecorded
  <2> QED
    BY <1>1, <2>1, <2>2, <2>3, <2>4, PartsKept DEF ServerOK
<1>3. CASE BeginAssign(l)
  <2>1. /\ pc[l] = "insert" /\ pc' = [pc EXCEPT ![l] = "assign"]
        /\ UNCHANGED <<sends, db, file, writer, reader, cmd, key, value, node, cut, overlap, had, kept>>
    BY <1>3 DEF BeginAssign, Goto, streamVars, historyVars
  <2>2. "assign" \in Places /\ Fits("assign", cmd[l])
    BY <1>1, <2>1 DEF Places, Fits
  <2>3. HandlersOK'
    BY <1>1, <2>1, <2>2, HandlerStays
  <2> QED
    BY <1>1, <2>1, <2>3, PartsKept DEF ServerOK
<1>4. CASE Delete(l)
  <2>1. /\ db' = Deleted(key[l]) /\ Return(l) /\ Recorded(l)
        /\ UNCHANGED <<sends, file, writer, reader, node>>
    BY <1>4 DEF Delete, streamVars
  <2>2. ListOK'
    BY <1>1, <2>1, ListDeleted
  <2>3. cut' \subseteq Loops
    BY <1>1, <1>4 DEF Delete
  <2>4. HandlersOK'
    BY <1>1, <2>1, <2>3, HandlerReturns
  <2>5. HistoryOK'
    BY <1>1, <2>1, <2>2, HistoryRecorded
  <2> QED
    BY <1>1, <2>1, <2>2, <2>4, <2>5, PartsKept DEF ServerOK
<1>5. CASE AddSearch(l) \/ AddThrows(l)
  <2> DEFINE p == IF AddSearch(l) THEN "get" ELSE "dead"
  <2>1. /\ pc[l] = "add" /\ pc' = [pc EXCEPT ![l] = p]
        /\ UNCHANGED <<sends, db, file, writer, reader, cmd, key, value, node, cut, overlap, had, kept>>
    BY <1>5 DEF AddSearch, AddThrows, Goto, streamVars, historyVars
  <2>2. p \in Places /\ Fits(p, cmd[l]) /\ p \notin {"idle", "insert", "assign"}
    BY <1>1, <2>1 DEF Places, Fits
  <2> HIDE DEF p
  <2>3. HandlersOK'
    BY <1>1, <2>1, <2>2, HandlerStays
  <2> QED
    BY <1>1, <2>1, <2>3, PartsKept DEF ServerOK
<1>6. CASE EndSearch(l)
  <2>1. /\ cut' = cut \ {l}
        /\ UNCHANGED <<sends, db, file, writer, reader, pc, cmd, key, value, node, overlap, had, kept>>
    BY <1>6 DEF EndSearch, streamVars, historyVars
  <2>2. HandlersOK'
    BY <1>1, <2>1 DEF HandlersOK, Fits
  <2> QED
    BY <1>1, <2>1, <2>2, PartsKept DEF ServerOK
<1>7. CASE Get(l)
  <2>1. /\ Return(l)
        /\ UNCHANGED <<sends, db, file, writer, reader, node, cut, overlap, had, kept>>
    BY <1>7 DEF Get, streamVars, historyVars
  <2>2. HandlersOK'
    BY <1>1, <2>1, HandlerReturns
  <2> QED
    BY <1>1, <2>1, <2>2, PartsKept DEF ServerOK
<1>8. CASE WriteNode(l)
  <2> DEFINE k == node[l]
             line == Line(k, db[k])
  <2>1. /\ node' = [node EXCEPT ![l] = KeyAfter(k)]
        /\ UNCHANGED <<sends, db, reader, pc, cmd, key, value, cut, overlap, had, kept>>
    BY <1>8 DEF WriteNode, historyVars
  <2>2. k \in Seq(Symbols) /\ KeyAfter(k) \in Seq(Symbols)
    BY <1>1, NextNode DEF KeysOK, ListOK, PairsOK, Words
  <2>3. node' \in [Loops -> Seq(Symbols)]
    BY <1>1, <2>1, <2>2
  <2>4. HandlersOK'
    BY <1>1, <2>1, <2>3 DEF HandlersOK, Fits
  <2>5. StreamsOK'
    <3>1. CASE UNCHANGED <<file, writer>>
      BY <1>1, <2>1, <3>1, PartsKept
    <3>2. CASE ~UNCHANGED <<file, writer>>
      <4>1. k \in DOMAIN db
        BY <1>8 DEF WriteNode, ReadsRace, NodesOK
      <4>2. db[k] \in Seq(Symbols)
        BY <1>1, <4>1 DEF ListOK, PairsOK, Words
      <4>3. line \in Seq(Symbols)
        BY <2>2, <4>2, LineIs
      <4>4. PICK n \in 0 .. Len(line) :
              /\ file' = IF n = 0 THEN file ELSE file \o writer.buf \o UpTo(line, n)
              /\ writer' = [writer EXCEPT !.buf = IF n = 0 THEN @ \o line ELSE From(line, n + 1)]
        BY <1>8, <3>2, Zenon DEF WriteNode
      <4> HIDE DEF line
      <4> QED
        BY <1>1, <2>1, <4>3, <4>4, StreamsWritten
    <3> QED
      BY <3>1, <3>2
  <2> QED
    BY <1>1, <2>1, <2>4, <2>5, PartsKept DEF ServerOK
<1>9. CASE CloseWriter(l)
  <2>1. /\ pc[l] = "dump" /\ pc' = [pc EXCEPT ![l] = "dumped"]
        /\ file' = file \o writer.buf /\ writer' = Closed
        /\ UNCHANGED <<sends, db, reader, cmd, key, value, node, cut, overlap, had, kept>>
    BY <1>9 DEF CloseWriter, InDump, Goto, historyVars
  <2>2. "dumped" \in Places /\ Fits("dumped", cmd[l])
    BY <1>1, <2>1 DEF Places, Fits
  <2>3. HandlersOK'
    BY <1>1, <2>1, <2>2, HandlerStays
  <2>4. file' \in Seq(Symbols)
    <3>1. file \in Seq(Symbols) /\ writer.buf \in Seq(Symbols)
      BY <1>1 DEF StreamsOK, Streams
    <3> QED
      BY <2>1, <3>1, ConcatProperties
  <2>5. StreamsOK'
    BY <1>1, <2>1, <2>4, StreamsOpened DEF StreamsOK
  <2> QED
    BY <1>1, <2>1, <2>3, <2>5, PartsKept DEF ServerOK
<1>10. CASE Wander(l)
  <2>1. /\ node' \in {[node EXCEPT ![l] = k] : k \in {KeyAfter(node[l]), End}}
        /\ cut' = cut \ {l} /\ overlap' = [overlap EXCEPT ![l] = "mixed"]
        /\ UNCHANGED <<sends, db, file, writer, reader, pc, cmd, key, value, had, kept>>
    BY <1>10 DEF Wander, streamVars
  <2>2. KeyAfter(node[l]) \in Seq(Symbols) /\ End \in Seq(Symbols)
    BY <1>1, NextNode DEF KeysOK, ListOK, PairsOK, Words, End
  <2>3. node' \in [Loops -> Seq(Symbols)]
    BY <1>1, <2>1, <2>2
  <2>4. HandlersOK'
    BY <1>1, <2>1, <2>3 DEF HandlersOK, Fits
  <2>5. HistoryOK'
    BY <1>1, <2>1 DEF HistoryOK
  <2> QED
    BY <1>1, <2>1, <2>4, <2>5, PartsKept DEF ServerOK
<1>11. CASE GetLine(l)
  <2> DEFINE line == FirstLine(Unread)
             k == IF Has(line, Delimiter) THEN KeyOf(line) ELSE key[l]
             v == IF Has(line, Delimiter) THEN ValueOf(line) ELSE value[l]
             p == IF IsPair(k, v) THEN "insert" ELSE "load"
  <2>1. /\ pc[l] = "load"
        /\ UNCHANGED <<sends, db, file, writer, cmd, node, cut, overlap, had, kept>>
    BY <1>11 DEF GetLine, historyVars
  <2>2. Unread \in Seq(Symbols) /\ line \in Seq(Symbols) /\ Len(line) + 2 \in Nat
    BY <1>1, UnreadIs, FirstLineIs
  <2>3. key \in [Loops -> Seq(Symbols)] /\ value \in [Loops -> Seq(Symbols)]
        /\ pc \in [Loops -> Places] /\ cmd[l] \in Commands
    BY <1>1 DEF HandlersOK
  <2>4. k \in Seq(Symbols) /\ v \in Seq(Symbols)
    <3> HIDE DEF line
    <3> QED
      BY <2>2, <2>3, PartsOfLine
  <2>5. /\ reader' = [reader EXCEPT
             !.buf = From(Unread, Len(line) + 2),
             !.fail = ~Has(Unread, Eol),
             !.pos = IF Has(reader.buf, Eol) \/ @ > Len(file) THEN @ ELSE Len(file)]
        /\ IF Has(line, Delimiter)
             THEN /\ key' = [key EXCEPT ![l] = KeyOf(line)]
                  /\ value' = [value EXCEPT ![l] = ValueOf(line)]
             ELSE UNCHANGED <<key, value>>
        /\ IF IsPair(key'[l], value'[l]) THEN Goto(l, "insert") ELSE UNCHANGED pc
    BY <1>11, Zenon DEF GetLine, FirstLine
  <2> HIDE DEF line
  <2>6. key' = [key EXCEPT ![l] = k] /\ value' = [value EXCEPT ![l] = v]
    BY <2>3, <2>5
  <2>7. key'[l] = k /\ value'[l] = v
    BY <2>3, <2>6
  <2> HIDE DEF k, v
  <2>8. pc' = [pc EXCEPT ![l] = p]
    BY <2>1, <2>3, <2>5, <2>7 DEF Goto
  <2>9. p \in Places /\ Fits(p, cmd[l]) /\ p # "idle" /\ cmd' = [cmd EXCEPT ![l] = cmd[l]]
        /\ (p = "insert" => k \in Words /\ v \in Words) /\ p # "assign"
    <3>1. Fits("load", cmd[l])
      BY <1>1, <2>1
    <3>2. cmd[l] = "LOAD" /\ cmd = [cmd EXCEPT ![l] = cmd[l]]
      BY <1>1, <3>1 DEF Fits, HandlersOK
    <3>3. IsPair(k, v) => k \in Words /\ v \in Words
      BY <2>4 DEF IsPair, Words
    <3> QED
      BY <2>1, <3>2, <3>3 DEF Places, Fits
  <2> HIDE DEF p
  <2>10. HandlersOK'
    BY <1>1, <2>1, <2>3, <2>4, <2>6, <2>8, <2>9, HandlerMoves
  <2>11. reader' \in Streams
    <3>1. From(Unread, Len(line) + 2) \in Seq(Symbols)
      <4>1. Len(line) + 2 <= Len(Unread) + 1 \/ Len(line) + 2 > Len(Unread)
        BY <2>2
      <4>2. CASE Len(line) + 2 <= Len(Unread) + 1
        <5>1. Len(line) + 2 \in 1 .. Len(Unread) + 1
          BY <2>2, <4>2
        <5> QED
          BY <2>2, <5>1, FromIs
      <4>3. CASE Len(line) + 2 > Len(Unread)
        <5>1. From(Unread, Len(line) + 2) = <<>>
          BY <2>2, <4>3, FromBehind
        <5>2. <<>> \in Seq(Symbols)
          OBVIOUS
        <5> QED
          BY <5>1, <5>2, Zenon
      <4> QED
        BY <4>1, <4>2, <4>3
    <3>2. reader.pos \in Nat /\ Len(file) \in Nat /\ reader \in Streams
      BY <1>1 DEF StreamsOK, Streams
    <3>3. (IF Has(reader.buf, Eol) \/ reader.pos > Len(file) THEN reader.pos ELSE Len(file)) \in Nat
      BY <3>2
    <3>4. \A buf \in Seq(Symbols), fail \in BOOLEAN, pos \in Nat :
            [reader EXCEPT !.buf = buf, !.fail = fail, !.pos = pos] \in Streams
      BY <3>2 DEF Streams
    <3>5. Has(Unread, Eol) \in BOOLEAN
      BY DEF Has
    <3> QED
      BY <2>5, <3>1, <3>3, <3>4, <3>5
  <2>12. StreamsOK'
    BY <1>1, <2>1, <2>11 DEF StreamsOK
  <2> QED
    BY <1>1, <2>1, <2>10, <2>12, PartsKept DEF ServerOK
<1>12. CASE CloseReader(l)
  <2>1. /\ pc[l] = "load" /\ pc' = [pc EXCEPT ![l] = "loaded"] /\ reader' = Closed
        /\ UNCHANGED <<sends, db, file, writer, cmd, key, value, node, cut, overlap, had, kept>>
    BY <1>12 DEF CloseReader, Goto, historyVars
  <2>2. "loaded" \in Places /\ Fits("loaded", cmd[l])
    BY <1>1, <2>1 DEF Places, Fits
  <2>3. HandlersOK'
    BY <1>1, <2>1, <2>2, HandlerStays
  <2>4. StreamsOK'
    BY <1>1, <2>1, StreamsOpened DEF StreamsOK
  <2> QED
    BY <1>1, <2>1, <2>3, <2>4, PartsKept DEF ServerOK
<1>13. CASE AnswerOk(l)
  <2>1. /\ Return(l) /\ overlap' = [overlap EXCEPT ![l] = "quiet"] /\ had' = [had EXCEPT ![l] = {}]
        /\ kept' = [kept EXCEPT ![l] = <<>>]
        /\ UNCHANGED <<sends, db, file, writer, reader, node, cut>>
    BY <1>13 DEF AnswerOk, streamVars
  <2>2. HandlersOK'
    BY <1>1, <2>1, HandlerReturns
  <2>3. HistoryOK'
    BY <1>1, <2>1 DEF HistoryOK
  <2> QED
    BY <1>1, <2>1, <2>2, <2>3, PartsKept DEF ServerOK
<1> QED
  BY <1>2, <1>3, <1>4, <1>5, <1>6, <1>7, <1>8, <1>9, <1>10, <1>11, <1>12, <1>13, Zenon DEF GoesOn

\* A process that is started again has the types.
LEMMA StartTypes ==
  ASSUME ServerOK, StartsAgain PROVE ServerOK' /\ NodesOK'
<1>1. /\ sends' = sends /\ db' = [k \in {} |-> <<>>]
      /\ writer' = Closed /\ reader' = Closed
      /\ pc' = [l \in Loops |-> "idle"] /\ cmd' = [l \in Loops |-> "none"]
      /\ key' = [l \in Loops |-> <<>>] /\ value' = [l \in Loops |-> <<>>]
      /\ node' = [l \in Loops |-> End] /\ cut' = {}
      /\ overlap' = [l \in Loops |-> "quiet"] /\ had' = [l \in Loops |-> {}]
      /\ kept' = [l \in Loops |-> <<>>]
  BY DEF StartsAgain, Restart
<1>2. ListOK'
  <2>1. DOMAIN db' = {} /\ IsFiniteSet({})
    BY <1>1, FS_EmptySet
  <2>2. db' \in [{} -> Words]
    BY <1>1
  <2> QED
    BY <2>1, <2>2 DEF ListOK, PairsOK
<1>3. StreamsOK'
  <2>1. file \in Seq(Symbols) /\ writer.buf \in Seq(Symbols)
    BY DEF ServerOK, StreamsOK, Streams
  <2>2. file' \in {file, file \o writer.buf}
    BY DEF StartsAgain
  <2>3. file' \in Seq(Symbols)
    BY <2>1, <2>2, ConcatProperties
  <2> QED
    BY <1>1, <2>3, StreamsOpened DEF StreamsOK
<1>4. HandlersOK'
  <2>1. /\ pc' \in [Loops -> Places] /\ cmd' \in [Loops -> Commands]
        /\ key' \in [Loops -> Seq(Symbols)] /\ value' \in [Loops -> Seq(Symbols)]
        /\ node' \in [Loops -> Seq(Symbols)] /\ cut' \subseteq Loops
    BY <1>1 DEF Places, Commands, End
  <2>2. \A l \in Loops : pc'[l] = "idle" /\ cmd'[l] = "none" /\ key'[l] = <<>> /\ value'[l] = <<>>
    BY <1>1
  <2> QED
    BY <2>1, <2>2 DEF HandlersOK, Fits
<1>5. HistoryOK'
  BY <1>1 DEF HistoryOK
<1>6. NodesOK'
  BY <1>1 DEF NodesOK, InDump
<1>7. sends' \in Scenarios
  BY <1>1 DEF ServerOK
<1> QED
  BY <1>2, <1>3, <1>4, <1>5, <1>6, <1>7 DEF ServerOK

\* A search belongs to a loop that waits for it.
SearchOK == \A l \in Loops : task[l] # "none" => pc[l] = "get"

\* Whatever the loops do, the node of a dump is in the list or was freed.
LEMMA NodesStay ==
  ASSUME PoolInv, ServerOK, NodesOK, SearchOK, NEW l \in Loops,
         GoesOn(l) \/ \E words \in sends[l] : Begins(l, words)
  PROVE  NodesOK'
<1>1. /\ ListOK /\ KeysOK /\ pc \in [Loops -> Places] /\ node \in [Loops -> Seq(Symbols)]
      /\ pc[l] \in {"insert", "assign"} => key[l] \in Words /\ value[l] \in Words
  BY DEF ServerOK, HandlersOK, ListOK, PairsOK, KeysOK, Words
<1>2. CASE InsertNew(l) \/ EndAssign(l)
  <2>1. /\ pc[l] \in {"insert", "assign"} /\ db' = Inserted(key[l], value[l])
        /\ Insertion(l) /\ UNCHANGED <<node, cut>>
    BY <1>2 DEF InsertNew, EndAssign
  <2>2. DOMAIN db' = DOMAIN db \cup {key[l]}
    BY <1>1, <2>1, ListInserted
  <2>3. \A k \in Loops : pc'[k] = "dump" => pc[k] = "dump"
    BY <1>1, <2>1 DEF Insertion, Return, Goto
  <2> QED
    BY <2>1, <2>2, <2>3 DEF NodesOK, InDump
<1>3. CASE Delete(l)
  <2>1. DOMAIN db' = DOMAIN db \ {key[l]}
    BY <1>1, <1>3, ListDeleted DEF Delete
  <2>2. /\ Return(l) /\ UNCHANGED node /\ cut \subseteq cut'
        /\ \A k \in Loops : pc[k] = "dump" /\ node[k] = key[l] /\ key[l] \in DOMAIN db => k \in cut'
    BY <1>3 DEF Delete, InDump
  <2>3. \A k \in Loops : pc'[k] = "dump" => pc[k] = "dump"
    BY <1>1, <2>2 DEF Return, Goto
  <2> QED
    BY <2>1, <2>2, <2>3 DEF NodesOK, InDump
<1>4. CASE EndSearch(l)
  <2>1. task[l] = "run" /\ pc[l] = "get"
    BY <1>4 DEF EndSearch, EndTask, SearchOK
  <2>2. cut' = cut \ {l} /\ UNCHANGED <<pc, node, db>>
    BY <1>4 DEF EndSearch
  <2> QED
    BY <2>1, <2>2 DEF NodesOK, InDump
<1>5. CASE WriteNode(l) \/ Wander(l)
  <2>1. /\ node' \in {[node EXCEPT ![l] = k] : k \in {KeyAfter(node[l]), End}}
        /\ cut \ {l} \subseteq cut' /\ UNCHANGED <<pc, db>>
    BY <1>5 DEF WriteNode, Wander
  <2>2. KeyAfter(node[l]) # End => KeyAfter(node[l]) \in DOMAIN db
    BY <1>1, NextNode
  <2> QED
    BY <1>1, <2>1, <2>2 DEF NodesOK, InDump
<1>6. ASSUME NEW words \in sends[l], OpenWriter(l, words) PROVE NodesOK'
  <2>1. /\ node' = [node EXCEPT ![l] = FirstNode] /\ UNCHANGED <<db, cut>>
        /\ pc' = [pc EXCEPT ![l] = "dump"]
    BY <1>6 DEF OpenWriter, Goto
  <2>2. FirstNode # End => FirstNode \in DOMAIN db
    BY <1>1, FirstNodeOf
  <2> QED
    BY <1>1, <2>1, <2>2 DEF NodesOK, InDump
<1>7. ASSUME UNCHANGED <<node, db, cut>>, \A k \in Loops : pc'[k] = "dump" => pc[k] = "dump"
      PROVE  NodesOK'
  BY <1>7 DEF NodesOK, InDump
<1>8. ASSUME NEW words \in sends[l], Begins(l, words), ~OpenWriter(l, words) PROVE NodesOK'
  BY <1>1, <1>7, <1>8 DEF Begins, ReadSet, ReadDel, ReadGet, OpenReader, Goto
<1>9. CASE BeginAssign(l) \/ AddSearch(l) \/ AddThrows(l)
  BY <1>1, <1>7, <1>9 DEF BeginAssign, AddSearch, AddThrows, Goto
<1>10. CASE Get(l) \/ AnswerOk(l)
  BY <1>1, <1>7, <1>10 DEF Get, AnswerOk, Return, Goto
<1>11. CASE CloseWriter(l) \/ CloseReader(l)
  BY <1>1, <1>7, <1>11 DEF CloseWriter, CloseReader, Goto
<1>12. CASE GetLine(l)
  <2>1. UNCHANGED <<node, db, cut>>
    BY <1>12 DEF GetLine
  <2>2. Goto(l, "insert") \/ UNCHANGED pc
    BY <1>12, Zenon DEF GetLine
  <2> QED
    BY <1>1, <1>7, <2>1, <2>2 DEF Goto
<1> QED
  BY <1>2, <1>3, <1>4, <1>5, <1>6, <1>8, <1>9, <1>10, <1>11, <1>12, Zenon DEF GoesOn

\* Nor does a search run for a loop that is elsewhere.
LEMMA SearchesStay ==
  ASSUME PoolInv, ServerOK, SearchOK, NEW l \in Loops,
         GoesOn(l) \/ \E words \in sends[l] : Begins(l, words)
  PROVE  SearchOK'
<1>1. /\ pc \in [Loops -> Places] /\ task \in [Loops -> {"none", "run", "ready"}]
  BY DEF ServerOK, HandlersOK, PoolInv, PoolTypeOK, Loops
<1>2. ASSUME UNCHANGED task, pc[l] # "get", \A k \in Loops \ {l} : pc'[k] = pc[k] PROVE SearchOK'
  BY <1>2 DEF SearchOK
<1>3. ASSUME NEW words \in sends[l], Begins(l, words) PROVE SearchOK'
  BY <1>1, <1>2, <1>3 DEF Begins, ReadSet, ReadDel, ReadGet, OpenReader, OpenWriter, Reads, Goto, poolVars
<1>4. CASE InsertNew(l) \/ EndAssign(l)
  <2>1. /\ pc[l] \in {"insert", "assign"} /\ Insertion(l) /\ UNCHANGED task
    BY <1>4 DEF InsertNew, EndAssign, poolVars
  <2>2. \A k \in Loops \ {l} : pc'[k] = pc[k]
    BY <1>1, <2>1 DEF Insertion, Return, Goto
  <2> QED
    BY <1>2, <2>1, <2>2
<1>5. CASE BeginAssign(l) \/ AddThrows(l) \/ Delete(l) \/ AnswerOk(l)
  BY <1>1, <1>2, <1>5 DEF BeginAssign, AddThrows, Delete, AnswerOk, Return, Goto, poolVars
<1>6. CASE AddSearch(l)
  <2>1. pc' = [pc EXCEPT ![l] = "get"] /\ task' = [task EXCEPT ![l] = "run"]
    BY <1>6 DEF AddSearch, Add, Goto
  <2> QED
    BY <1>1, <2>1 DEF SearchOK
<1>7. CASE EndSearch(l)
  <2>1. task[l] = "run" /\ task' = [task EXCEPT ![l] = "ready"] /\ UNCHANGED pc
    BY <1>7 DEF EndSearch, EndTask
  <2> QED
    BY <1>1, <2>1 DEF SearchOK
<1>8. CASE Get(l)
  <2>1. task' = [task EXCEPT ![l] = "none"] /\ pc' = [pc EXCEPT ![l] = "idle"]
    BY <1>8 DEF Get, TakeResult, Return, Goto
  <2> QED
    BY <1>1, <2>1 DEF SearchOK
<1>9. CASE WriteNode(l) \/ Wander(l) \/ CloseWriter(l) \/ CloseReader(l)
  BY <1>1, <1>2, <1>9 DEF WriteNode, Wander, ReadsRace, InDump, CloseWriter, CloseReader, Goto, poolVars
<1>10. CASE GetLine(l)
  <2>1. pc[l] = "load" /\ UNCHANGED task
    BY <1>10 DEF GetLine, poolVars
  <2>2. Goto(l, "insert") \/ UNCHANGED pc
    BY <1>10, Zenon DEF GetLine
  <2> QED
    BY <1>1, <1>2, <2>1, <2>2 DEF Goto
<1> QED
  BY <1>3, <1>4, <1>5, <1>6, <1>7, <1>8, <1>9, <1>10, Zenon DEF GoesOn

\* The types with what they rest on.
TypeInv == PoolInv /\ ServerOK /\ NodesOK /\ SearchOK

LEMMA InitTypes == Init => TypeInv
<1> SUFFICES ASSUME Init PROVE TypeInv
  OBVIOUS
<1>1. PoolInv
  BY PoolInitInv DEF Init
<1>2. ListOK
  <2>1. DOMAIN db = {} /\ IsFiniteSet({}) /\ db \in [{} -> Words]
    BY FS_EmptySet DEF Init
  <2> QED
    BY <2>1 DEF ListOK, PairsOK
<1>3. StreamsOK
  <2>1. file \in Seq(Symbols) /\ writer = Closed /\ reader = Closed
    BY KVAssumption DEF Init, Symbols
  <2> QED
    BY <2>1, StreamsOpened DEF StreamsOK
<1>4. HandlersOK
  <2>1. /\ pc \in [Loops -> Places] /\ cmd \in [Loops -> Commands]
        /\ key \in [Loops -> Seq(Symbols)] /\ value \in [Loops -> Seq(Symbols)]
        /\ node \in [Loops -> Seq(Symbols)] /\ cut \subseteq Loops
    BY DEF Init, Places, Commands, End
  <2>2. \A l \in Loops : pc[l] = "idle" /\ cmd[l] = "none" /\ key[l] = <<>> /\ value[l] = <<>>
    BY DEF Init
  <2> QED
    BY <2>1, <2>2 DEF HandlersOK, Fits
<1>5. HistoryOK /\ NodesOK /\ sends \in Scenarios
  BY DEF Init, HistoryOK, NodesOK, InDump
<1>6. SearchOK
  BY DEF Init, PoolInit, SearchOK, Loops
<1> QED
  BY <1>1, <1>2, <1>3, <1>4, <1>5, <1>6 DEF TypeInv, ServerOK

LEMMA NextTypes == TypeInv /\ [Next]_vars => TypeInv'
<1> SUFFICES ASSUME TypeInv, [Next]_vars PROVE TypeInv'
  OBVIOUS
<1>1. PoolInv /\ ServerOK /\ NodesOK /\ SearchOK
  BY DEF TypeInv
<1>2. PoolInv'
  BY <1>1, StepsOfThePool, AddInv, TaskInv, WorkerInv, DestructorInv, PoolStutterInv, NewPoolInv
     DEF PoolNext
<1>3. CASE UNCHANGED <<serverVars, task>>
  <2>1. UNCHANGED <<sends, db, file, writer, reader, pc, cmd, key, value, node, cut, overlap, had, kept, task>>
    BY <1>3 DEF serverVars, streamVars, handlerVars, historyVars
  <2>2. HandlersOK'
    BY <1>1, <2>1 DEF ServerOK, HandlersOK, Fits
  <2>3. ServerOK'
    BY <1>1, <2>1, <2>2, PartsKept DEF ServerOK
  <2>4. NodesOK' /\ SearchOK'
    BY <1>1, <2>1 DEF NodesOK, SearchOK, InDump
  <2> QED
    BY <1>2, <2>3, <2>4 DEF TypeInv
<1>4. CASE StartsAgain
  <2>1. SearchOK'
    BY <1>4 DEF StartsAgain, Restart, NewPool, SearchOK, Loops
  <2> QED
    BY <1>1, <1>2, <1>4, <2>1, StartTypes DEF TypeInv
<1>5. ASSUME NEW l \in Loops, GoesOn(l) PROVE TypeInv'
  BY <1>1, <1>2, <1>5, GoesOnTypes, NodesStay, SearchesStay DEF TypeInv
<1>6. ASSUME NEW l \in Loops, NEW words \in sends[l], Begins(l, words) PROVE TypeInv'
  BY <1>1, <1>2, <1>6, BeginsTypes, NodesStay, SearchesStay DEF TypeInv
<1> QED
  BY <1>3, <1>4, <1>5, <1>6, Steps

\* Every variable of the server has its type, whatever crashes, races and commands
\* there are: no handler inserts half a pair, and every text the process reads or
\* leaves in the file is one of the symbols of a text.
THEOREM TypeCorrect == Spec => []TypeOK
<1>1. TypeInv => TypeOK
  <2> SUFFICES ASSUME TypeInv PROVE TypeOK
    OBVIOUS
  <2>1. PoolTypeOK /\ sends \in Scenarios
    BY DEF TypeInv, PoolInv, ServerOK
  <2>2. db \in [DOMAIN db -> Seq(Symbols)] /\ DOMAIN db \subseteq Seq(Symbols) \ {<<>>}
    BY DEF TypeInv, ServerOK, ListOK, PairsOK, Words
  <2>3. /\ file \in Seq(Symbols)
        /\ {writer, reader} \subseteq
             [open : BOOLEAN, fail : BOOLEAN, buf : Seq(Symbols), pos : Nat]
    BY DEF TypeInv, ServerOK, StreamsOK, Streams, Symbols
  <2>4. /\ pc \in [Loops -> {"idle", "insert", "assign", "delete", "add", "get", "dead",
                             "dump", "dumped", "load", "loaded"}]
        /\ cmd \in [Loops -> {"none", "SET", "GET", "DEL", "LOAD", "DUMP"}]
        /\ {key, value, node} \subseteq [Loops -> Seq(Symbols)]
        /\ cut \subseteq Loops
    BY DEF TypeInv, ServerOK, HandlersOK, Places, Commands
  <2>5. \A l \in Loops : pc[l] \in {"insert", "assign"} => <<>> \notin {key[l], value[l]}
    BY DEF TypeInv, ServerOK, HandlersOK, Words
  <2>6. /\ overlap \in [Loops -> {"quiet", "busy", "mixed", "failed"}]
        /\ had \in [Loops -> SUBSET Seq(Symbols)] /\ kept \in [Loops -> Seq(Symbols)]
    BY DEF TypeInv, ServerOK, HistoryOK
  <2> QED
    BY <2>1, <2>2, <2>3, <2>4, <2>5, <2>6, Zenon DEF TypeOK
<1> QED
  BY <1>1, InitTypes, NextTypes, PTL DEF Spec

----------------------------------------------------------------------------
(* The lines of a text *)

\* The line that begins at i ends before e.
EndsBefore(text, i, e) ==
  /\ e \in i .. Len(text) + 1
  /\ \A j \in i .. e - 1 : text[j] # Eol
  /\ e <= Len(text) => text[e] = Eol

\* Every line ends somewhere.
LEMMA LineEnds ==
  ASSUME NEW text \in Seq(Symbols), NEW i \in 1 .. Len(text)
  PROVE  \E e \in i .. Len(text) + 1 : EndsBefore(text, i, e)
<1> DEFINE T == {e \in i .. Len(text) + 1 : e = Len(text) + 1 \/ text[e] = Eol}
<1>1. T \in SUBSET Nat /\ Len(text) + 1 \in T
  OBVIOUS
<1>2. PICK e \in T : \A j \in T : e <= j
  <2> HIDE DEF T
  <2> QED
    BY <1>1, LeastNumber
<1>3. \A j \in i .. e - 1 : text[j] # Eol
  <2>1. \A j \in i .. e - 1 : j \in i .. Len(text) + 1 /\ ~(e <= j)
    BY <1>2
  <2> QED
    BY <1>2, <2>1
<1>4. EndsBefore(text, i, e)
  BY <1>2, <1>3 DEF EndsBefore
<1> QED
  BY <1>2, <1>4

\* A line, symbol by symbol.
LEMMA LineAtIs ==
  ASSUME NEW text \in Seq(Symbols), NEW i \in 1 .. Len(text), NEW e, EndsBefore(text, i, e)
  PROVE  /\ LineAt(text, i) \in Seq(Symbols) /\ Len(LineAt(text, i)) = e - i
         /\ \A j \in 1 .. e - i : LineAt(text, i)[j] = text[i + j - 1]
         /\ ~Has(LineAt(text, i), Eol)
<1> DEFINE ends == {j \in Ends(text) : j >= i}
<1>1. /\ e \in i .. Len(text) + 1 /\ e \in Nat /\ Len(text) \in Nat /\ DOMAIN text = 1 .. Len(text)
      /\ \A j \in i .. e - 1 : text[j] # Eol
      /\ e <= Len(text) => text[e] = Eol
  BY DEF EndsBefore
<1>2. LineAt(text, i) = SubSeq(text, i, e - 1)
  <2>1. CASE e = Len(text) + 1
    <3>1. \A j \in DOMAIN text : j >= i => text[j] # Eol
      BY <1>1, <2>1
    <3>2. ends = {}
      BY <3>1 DEF Ends
    <3>3. LineAt(text, i) = From(text, i)
      BY <3>2 DEF LineAt
    <3>4. e - 1 = Len(text)
      BY <1>1, <2>1
    <3> QED
      BY <3>3, <3>4 DEF From
  <2>2. CASE e <= Len(text)
    <3>1. e \in ends
      BY <1>1, <2>2 DEF Ends
    <3>2. \A j \in ends : e <= j
      <4> SUFFICES ASSUME NEW j \in ends, j < e PROVE FALSE
        BY <1>1 DEF Ends
      <4>1. j \in i .. e - 1 /\ text[j] = Eol
        BY <1>1 DEF Ends
      <4> QED
        BY <1>1, <4>1
    <3>3. \A j \in ends : j \in Nat
      BY <1>1 DEF Ends
    <3> HIDE DEF ends
    <3>4. (CHOOSE j \in ends : \A k \in ends : j <= k) = e
      <4> DEFINE c == CHOOSE j \in ends : \A k \in ends : j <= k
      <4>1. c \in ends /\ \A k \in ends : c <= k
        BY <3>1, <3>2, Zenon
      <4> HIDE DEF c
      <4>2. c <= e /\ e <= c /\ c \in Nat
        BY <3>1, <3>2, <3>3, <4>1
      <4>3. c = e
        BY <1>1, <4>2
      <4> QED
        BY <4>3 DEF c
    <3>5. LineAt(text, i) = SubSeq(text, i, (CHOOSE j \in ends : \A k \in ends : j <= k) - 1)
      BY <3>1, Zenon DEF LineAt, ends
    <3> QED
      BY <3>4, <3>5
  <2> QED
    BY <1>1, <2>1, <2>2
<1> DEFINE line == SubSeq(text, i, e - 1)
<1>3. i \in Int /\ e - 1 \in Int /\ i <= e /\ \A j \in i .. e - 1 : text[j] \in Symbols
  <2>1. \A j \in i .. e - 1 : j \in 1 .. Len(text)
    BY <1>1
  <2> QED
    BY <1>1, <2>1
<1>4. /\ line \in Seq(Symbols)
      /\ Len(line) = IF i <= e - 1 THEN (e - 1) - i + 1 ELSE 0
      /\ \A j \in 1 .. (e - 1) - i + 1 : line[j] = text[i + j - 1]
  <2>1. i \in Int /\ e - 1 \in Int /\ \A j \in i .. e - 1 : text[j] \in Symbols
    BY <1>3
  <2> QED
    BY <2>1, SubSeqProperties
<1> HIDE DEF line
<1>5. (e - 1) - i + 1 = e - i /\ (IF i <= e - 1 THEN (e - 1) - i + 1 ELSE 0) = e - i
  BY <1>1
<1>6. LineAt(text, i) = line
  BY <1>2 DEF line
<1>7. ~Has(line, Eol)
  <2>1. \A j \in 1 .. e - i : i + j - 1 \in i .. e - 1
    BY <1>1
  <2>2. \A j \in 1 .. e - i : line[j] # Eol
    BY <1>1, <1>4, <1>5, <2>1
  <2>3. DOMAIN line = 1 .. e - i
    BY <1>4, <1>5
  <2> QED
    BY <2>2, <2>3 DEF Has
<1> QED
  BY <1>4, <1>5, <1>6, <1>7

\* Every line is one of symbols, without a line end.
LEMMA LineOfSymbols ==
  ASSUME NEW text \in Seq(Symbols), NEW i \in LineStarts(text)
  PROVE  i \in 1 .. Len(text) /\ LineAt(text, i) \in Seq(Symbols) /\ ~Has(LineAt(text, i), Eol)
<1>1. i \in 1 .. Len(text)
  BY DEF LineStarts
<1> QED
  BY <1>1, LineEnds, LineAtIs

\* The key and the value on a line, and the lines that have both.
KeyAt(text, i) == KeyOf(LineAt(text, i))
ValueAt(text, i) == ValueOf(LineAt(text, i))
Good(text) ==
  {i \in LineStarts(text) : /\ Has(LineAt(text, i), Delimiter)
                            /\ KeyAt(text, i) # <<>> /\ ValueAt(text, i) # <<>>}

\* Of the good lines up to p, line i is the last with its key.
LastUpTo(text, i, p) ==
  /\ i \in Good(text) /\ i <= p
  /\ \A j \in Good(text) : j <= p /\ KeyAt(text, j) = KeyAt(text, i) => j <= i

\* Loading a text gives its keys the values of their last good lines.
LEMMA PairsAre ==
  ASSUME NEW text \in Seq(Symbols)
  PROVE  /\ DOMAIN Pairs(text) = {KeyAt(text, i) : i \in Good(text)}
         /\ \A k \in DOMAIN Pairs(text) :
              \E i \in Good(text) :
                /\ KeyAt(text, i) = k /\ Pairs(text)[k] = ValueAt(text, i)
                /\ LastUpTo(text, i, Len(text))
<1> DEFINE good == Good(text)
           LastWith(k) == CHOOSE i \in good : /\ KeyAt(text, i) = k
                                              /\ \A j \in good : KeyAt(text, j) = k => j <= i
<1>1. Pairs(text) = [k \in {KeyAt(text, i) : i \in good} |-> ValueAt(text, LastWith(k))]
  BY Zenon DEF Pairs, Good, KeyAt, ValueAt
<1>2. \A i \in good : i \in 1 .. Len(text) /\ i \in Nat /\ i <= Len(text)
  BY LineOfSymbols DEF Good
<1> HIDE DEF good
<1>3. ASSUME NEW k \in {KeyAt(text, i) : i \in good}
      PROVE  /\ LastWith(k) \in good /\ KeyAt(text, LastWith(k)) = k
             /\ \A j \in good : KeyAt(text, j) = k => j <= LastWith(k)
  <2> DEFINE T == {i \in good : KeyAt(text, i) = k}
  <2>1. T \in SUBSET Nat /\ T # {} /\ Len(text) \in Nat /\ \A i \in T : i <= Len(text)
    BY <1>2
  <2>2. PICK i \in T : \A j \in T : j <= i
    <3> HIDE DEF T
    <3> QED
      BY <2>1, GreatestNumber
  <2>3. i \in good /\ KeyAt(text, i) = k /\ \A j \in good : KeyAt(text, j) = k => j <= i
    BY <2>2
  <2> QED
    BY <2>3, Zenon
<1> HIDE DEF LastWith
<1>4. DOMAIN Pairs(text) = {KeyAt(text, i) : i \in good}
  BY <1>1
<1>5. ASSUME NEW k \in DOMAIN Pairs(text)
      PROVE  \E i \in Good(text) :
                /\ KeyAt(text, i) = k /\ Pairs(text)[k] = ValueAt(text, i)
                /\ LastUpTo(text, i, Len(text))
  <2> DEFINE i == LastWith(k)
  <2>1. Pairs(text)[k] = ValueAt(text, i)
    BY <1>1, <1>4, <1>5
  <2>2. /\ i \in good /\ KeyAt(text, i) = k
        /\ \A j \in good : KeyAt(text, j) = k => j <= i
    BY <1>3, <1>4, <1>5
  <2> HIDE DEF i
  <2>3. LastUpTo(text, i, Len(text))
    BY <1>2, <2>2 DEF LastUpTo, good
  <2> QED
    BY <2>1, <2>2, <2>3 DEF good
<1> QED
  BY <1>4, <1>5 DEF good

----------------------------------------------------------------------------
(* What loops do to each other *)

\* Loop m takes up a command or goes on with one.
Moves(m) == GoesOn(m) \/ \E words \in sends[m] : Begins(m, words)

\* A step of one loop leaves the handlers of the others where they are.
LEMMA OthersStay ==
  ASSUME ServerOK, NEW m \in Loops, Moves(m), NEW l \in Loops \ {m}
  PROVE  /\ pc'[l] = pc[l] /\ cmd'[l] = cmd[l] /\ node'[l] = node[l]
         /\ key'[l] = key[l] /\ value'[l] = value[l]
<1>1. /\ pc \in [Loops -> Places] /\ cmd \in [Loops -> Commands]
      /\ key \in [Loops -> Seq(Symbols)] /\ value \in [Loops -> Seq(Symbols)]
      /\ node \in [Loops -> Seq(Symbols)]
  BY DEF ServerOK, HandlersOK
<1>2. ASSUME NEW words \in sends[m], Begins(m, words)
      PROVE  /\ pc'[l] = pc[l] /\ cmd'[l] = cmd[l] /\ node'[l] = node[l]
             /\ key'[l] = key[l] /\ value'[l] = value[l]
  BY <1>1, <1>2 DEF Begins, ReadSet, ReadDel, ReadGet, OpenWriter, OpenReader, Reads, Goto
<1>3. CASE InsertNew(m) \/ EndAssign(m)
  <2>1. Insertion(m) /\ UNCHANGED node
    BY <1>3 DEF InsertNew, EndAssign
  <2> QED
    BY <1>1, <2>1 DEF Insertion, Return, Goto
<1>4. CASE Delete(m) \/ Get(m) \/ AnswerOk(m)
  BY <1>1, <1>4 DEF Delete, Get, AnswerOk, Return, Goto
<1>5. CASE BeginAssign(m) \/ AddSearch(m) \/ AddThrows(m) \/ EndSearch(m)
  BY <1>1, <1>5 DEF BeginAssign, AddSearch, AddThrows, EndSearch, Goto
<1>6. CASE WriteNode(m) \/ Wander(m) \/ CloseWriter(m) \/ CloseReader(m)
  BY <1>1, <1>6 DEF WriteNode, Wander, CloseWriter, CloseReader, Goto
<1>7. CASE GetLine(m)
  <2>1. /\ UNCHANGED <<cmd, node>>
        /\ Goto(m, "insert") \/ UNCHANGED pc
        /\ \/ UNCHANGED <<key, value>>
           \/ \E k, v : key' = [key EXCEPT ![m] = k] /\ value' = [value EXCEPT ![m] = v]
    BY <1>7, Zenon DEF GetLine
  <2> QED
    BY <1>1, <2>1 DEF Goto
<1> QED
  BY <1>2, <1>3, <1>4, <1>5, <1>6, <1>7, Zenon DEF Moves, GoesOn

\* A loop that goes on dumps, loads or handles a DUMP or LOAD only if it did, and
\* what has overlapped it stays.
LEMMA GoingOn ==
  ASSUME ServerOK, NEW m \in Loops, GoesOn(m)
  PROVE  /\ InDump(m)' => InDump(m)
         /\ InLoad(m)' => InLoad(m)
         /\ UnderWay(m)' => UnderWay(m) /\ cmd'[m] = cmd[m]
         /\ UnderWay(m)' /\ overlap'[m] # "mixed" => overlap'[m] = overlap[m]
<1>1. /\ pc \in [Loops -> Places] /\ cmd \in [Loops -> Commands]
      /\ overlap \in [Loops -> {"quiet", "busy", "mixed", "failed"}]
      /\ Fits(pc[m], cmd[m])
  BY DEF ServerOK, HandlersOK, HistoryOK
<1> USE DEF InDump, InLoad, UnderWay
<1>2. CASE InsertNew(m) \/ EndAssign(m)
  <2>1. /\ pc[m] \in {"insert", "assign"} /\ Insertion(m) /\ overlap'[m] = overlap[m]
    BY <1>1, <1>2 DEF InsertNew, EndAssign, Recorded
  <2> QED
    BY <1>1, <2>1 DEF Insertion, Return, Goto
<1>3. CASE Delete(m) \/ Get(m) \/ AnswerOk(m)
  <2>1. Return(m)
    BY <1>3 DEF Delete, Get, AnswerOk
  <2> QED
    BY <1>1, <2>1 DEF Return, Goto
<1>4. CASE BeginAssign(m) \/ AddSearch(m) \/ AddThrows(m) \/ EndSearch(m)
  BY <1>1, <1>4 DEF BeginAssign, AddSearch, AddThrows, EndSearch, Goto, historyVars
<1>5. CASE WriteNode(m) \/ Wander(m) \/ CloseWriter(m) \/ CloseReader(m)
  BY <1>1, <1>5 DEF WriteNode, Wander, CloseWriter, CloseReader, Goto, historyVars
<1>6. CASE GetLine(m)
  <2>1. /\ pc[m] = "load" /\ UNCHANGED <<cmd, overlap>>
        /\ Goto(m, "insert") \/ UNCHANGED pc
    BY <1>6, Zenon DEF GetLine, historyVars
  <2> QED
    BY <1>1, <2>1 DEF Goto, Fits
<1> QED
  BY <1>2, <1>3, <1>4, <1>5, <1>6, Zenon DEF GoesOn

\* Which steps touch the list, the file and the streams.
LEMMA Touches ==
  ASSUME ServerOK, NEW m \in Loops, GoesOn(m)
  PROVE  /\ InDump(m) \/ UNCHANGED <<file, writer>>
         /\ InLoad(m) \/ UNCHANGED reader
         /\ Recorded(m) \/ UNCHANGED db
         /\ Recorded(m) \/ \A l \in Loops \ {m} : overlap'[l] = overlap[l] /\ had'[l] = had[l]
         /\ \A l \in Loops \ {m} : kept'[l] = kept[l]
<1>1. /\ Fits(pc[m], cmd[m]) /\ overlap \in [Loops -> {"quiet", "busy", "mixed", "failed"}]
      /\ had \in [Loops -> SUBSET Seq(Symbols)] /\ kept \in [Loops -> Seq(Symbols)]
  BY DEF ServerOK, HandlersOK, HistoryOK
<1>2. CASE InsertNew(m) \/ EndAssign(m) \/ Delete(m)
  BY <1>2 DEF InsertNew, EndAssign, Delete, Recorded, streamVars
<1>3. CASE Get(m) \/ AnswerOk(m)
  BY <1>1, <1>3 DEF Get, AnswerOk, streamVars, historyVars
<1>4. CASE BeginAssign(m) \/ AddSearch(m) \/ AddThrows(m) \/ EndSearch(m)
  BY <1>1, <1>4 DEF BeginAssign, AddSearch, AddThrows, EndSearch, streamVars, historyVars
<1>5. CASE WriteNode(m) \/ CloseWriter(m)
  BY <1>1, <1>5 DEF WriteNode, CloseWriter, historyVars
<1>6. CASE Wander(m)
  BY <1>1, <1>6 DEF Wander, streamVars
<1>7. CASE GetLine(m) \/ CloseReader(m)
  <2>1. /\ pc[m] = "load" /\ UNCHANGED <<db, file, writer, overlap, had, kept>>
    BY <1>7, Zenon DEF GetLine, CloseReader, historyVars
  <2> QED
    BY <1>1, <2>1 DEF InLoad, Fits
<1> QED
  BY <1>2, <1>3, <1>4, <1>5, <1>6, <1>7, Zenon DEF GoesOn

\* A DUMP or LOAD that no other has overlapped is alone.
AloneOK ==
  \A l \in Loops : UnderWay(l) /\ overlap[l] # "mixed" =>
    \A k \in Loops \ {l} : ~InDump(k) /\ (InLoad(l) => ~InLoad(k))

\* Nobody leaves a stream open behind.
StreamsFree ==
  /\ (\A l \in Loops : ~InDump(l)) => writer = Closed
  /\ (\A l \in Loops : ~InLoad(l)) => reader = Closed

LEMMA AloneStays ==
  ASSUME ServerOK, ServerOK', AloneOK, NEW m \in Loops, Moves(m)
  PROVE  AloneOK'
<1>1. \A l \in Loops \ {m} : pc'[l] = pc[l] /\ cmd'[l] = cmd[l]
  BY OthersStay
<1>2. \A l \in Loops \ {m} : /\ InDump(l)' <=> InDump(l)
                             /\ InLoad(l)' <=> InLoad(l)
                             /\ UnderWay(l)' <=> UnderWay(l)
  BY <1>1 DEF InDump, InLoad, UnderWay
<1>3. overlap \in [Loops -> {"quiet", "busy", "mixed", "failed"}] /\ Fits(pc[m], cmd[m])
  BY DEF ServerOK, HistoryOK, HandlersOK
<1> DEFINE Alone(l) == \A k \in Loops \ {l} : ~InDump(k)' /\ (InLoad(l)' => ~InLoad(k)')
<1>4. CASE GoesOn(m)
  <2>1. /\ InDump(m)' => InDump(m)
        /\ InLoad(m)' => InLoad(m)
        /\ UnderWay(m)' => UnderWay(m)
        /\ UnderWay(m)' /\ overlap'[m] # "mixed" => overlap'[m] = overlap[m]
    BY <1>4, GoingOn
  <2>2. \A l \in Loops \ {m} : overlap'[l] # "mixed" => overlap[l] # "mixed"
    BY <1>3, <1>4, Touches DEF Recorded
  <2>3. ASSUME NEW l \in Loops, UnderWay(l)', overlap'[l] # "mixed" PROVE Alone(l)
    <3>1. UnderWay(l) /\ overlap[l] # "mixed"
      BY <1>2, <2>1, <2>2, <2>3
    <3>2. \A k \in Loops \ {l} : ~InDump(k) /\ (InLoad(l) => ~InLoad(k))
      BY <3>1 DEF AloneOK
    <3> QED
      BY <1>2, <2>1, <3>2
  <2> QED
    BY <2>3 DEF AloneOK
<1>5. ASSUME NEW words \in sends[m], OpenWriter(m, words) PROVE AloneOK'
  <2>1. /\ pc'[m] = "dump"
        /\ overlap'[m] # "mixed" => \A k \in Loops \ {m} : ~InDump(k)
        /\ \A l \in Loops \ {m} : UnderWay(l) => overlap'[l] = "mixed"
    BY <1>5 DEF OpenWriter, Begun, Goto, ServerOK, HandlersOK
  <2>2. ASSUME NEW l \in Loops, UnderWay(l)', overlap'[l] # "mixed" PROVE Alone(l)
    <3>1. l = m
      BY <1>2, <2>1, <2>2
    <3> QED
      BY <1>2, <2>1, <2>2, <3>1 DEF InLoad
  <2> QED
    BY <2>2 DEF AloneOK
<1>6. ASSUME NEW words \in sends[m], OpenReader(m, words) PROVE AloneOK'
  <2>1. /\ pc'[m] = "load"
        /\ overlap'[m] # "mixed" => \A k \in Loops \ {m} : ~InDump(k) /\ ~InLoad(k)
        /\ \A l \in Loops \ {m} : overlap'[l] = IF InLoad(l) THEN "mixed" ELSE overlap[l]
    BY <1>6 DEF OpenReader, Begun, Goto, ServerOK, HandlersOK
  <2>2. ASSUME NEW l \in Loops, UnderWay(l)', overlap'[l] # "mixed" PROVE Alone(l)
    <3>1. CASE l = m
      BY <1>2, <2>1, <2>2, <3>1
    <3>2. CASE l # m
      <4>1. UnderWay(l) /\ overlap[l] # "mixed" /\ ~InLoad(l)'
        BY <1>2, <2>1, <2>2, <3>2
      <4>2. \A k \in Loops \ {l} : ~InDump(k)
        BY <4>1 DEF AloneOK
      <4> QED
        BY <1>2, <2>1, <4>1, <4>2 DEF InDump
    <3> QED
      BY <3>1, <3>2
  <2> QED
    BY <2>2 DEF AloneOK
<1>7. ASSUME NEW words \in sends[m], ReadSet(m, words) \/ ReadDel(m, words) \/ ReadGet(m, words)
      PROVE AloneOK'
  <2>1. pc'[m] \in {"insert", "delete", "add"} /\ cmd'[m] \in {"SET", "DEL", "GET"} /\ overlap' = overlap
    BY <1>7 DEF ReadSet, ReadDel, ReadGet, Reads, Goto, historyVars, ServerOK, HandlersOK
  <2>2. ~InDump(m)' /\ ~InLoad(m)' /\ ~UnderWay(m)'
    BY <2>1 DEF InDump, InLoad, UnderWay
  <2>3. ASSUME NEW l \in Loops, UnderWay(l)', overlap'[l] # "mixed" PROVE Alone(l)
    <3>1. l # m /\ UnderWay(l) /\ overlap[l] # "mixed"
      BY <1>2, <2>1, <2>2, <2>3
    <3>2. \A k \in Loops \ {l} : ~InDump(k) /\ (InLoad(l) => ~InLoad(k))
      BY <3>1 DEF AloneOK
    <3> QED
      BY <1>2, <2>2, <3>1, <3>2
  <2> QED
    BY <2>3 DEF AloneOK
<1> QED
  BY <1>4, <1>5, <1>6, <1>7, Zenon DEF Moves, Begins

LEMMA StreamsStayFree ==
  ASSUME ServerOK, StreamsFree, NEW m \in Loops, Moves(m)
  PROVE  StreamsFree'
<1>1. \A l \in Loops \ {m} : pc'[l] = pc[l] /\ cmd'[l] = cmd[l]
  BY OthersStay
<1>2. \A l \in Loops \ {m} : (InDump(l)' <=> InDump(l)) /\ (InLoad(l)' <=> InLoad(l))
  BY <1>1 DEF InDump, InLoad
<1>3. pc \in [Loops -> Places] /\ cmd \in [Loops -> Commands] /\ Fits(pc[m], cmd[m])
  BY DEF ServerOK, HandlersOK
<1>4. ASSUME ~InDump(m), InDump(m)' \/ UNCHANGED writer,
             ~InLoad(m), InLoad(m)' \/ UNCHANGED reader
      PROVE  StreamsFree'
  BY <1>2, <1>4 DEF StreamsFree
<1>5. ASSUME NEW words \in sends[m], Begins(m, words) PROVE StreamsFree'
  <2>1. pc[m] = "idle"
    BY <1>5 DEF Begins, ReadSet, ReadDel, ReadGet, OpenWriter, OpenReader, Reads
  <2>2. InDump(m)' \/ UNCHANGED writer
    BY <1>3, <1>5 DEF Begins, ReadSet, ReadDel, ReadGet, OpenWriter, OpenReader, streamVars, Goto, InDump
  <2>3. InLoad(m)' \/ UNCHANGED reader
    <3>1. CASE OpenReader(m, words)
      BY <1>3, <3>1 DEF OpenReader, Reads, Goto, InLoad
    <3> QED
      BY <1>5, <3>1 DEF Begins, ReadSet, ReadDel, ReadGet, OpenWriter, streamVars
  <2> QED
    BY <1>4, <2>1, <2>2, <2>3 DEF InDump, InLoad
<1>6. CASE CloseWriter(m)
  BY <1>2, <1>3, <1>6 DEF CloseWriter, Goto, InDump, InLoad, StreamsFree
<1>7. CASE CloseReader(m)
  BY <1>2, <1>3, <1>7 DEF CloseReader, Goto, InDump, InLoad, StreamsFree
<1>8. ASSUME GoesOn(m), ~CloseWriter(m), ~CloseReader(m) PROVE StreamsFree'
  <2>1. (InDump(m) => InDump(m)') /\ (InLoad(m) => InLoad(m)')
    <3>1. CASE InsertNew(m) \/ EndAssign(m)
      <4>1. /\ pc[m] \in {"insert", "assign"} /\ Insertion(m)
        BY <3>1 DEF InsertNew, EndAssign
      <4> QED
        BY <1>3, <4>1 DEF Insertion, Return, Goto, InDump, InLoad
    <3>2. CASE GetLine(m)
      <4>1. /\ pc[m] = "load" /\ UNCHANGED cmd /\ (Goto(m, "insert") \/ UNCHANGED pc)
        BY <3>2, Zenon DEF GetLine
      <4> QED
        BY <1>3, <4>1 DEF Goto, InDump, InLoad
    <3>3. CASE Delete(m) \/ Get(m) \/ AnswerOk(m) \/ AddSearch(m) \/ AddThrows(m)
      <4>1. pc[m] \in {"delete", "get", "dumped", "loaded", "add"}
        BY <3>3 DEF Delete, Get, AnswerOk, AddSearch, AddThrows
      <4> QED
        BY <4>1 DEF InDump, InLoad
    <3>4. CASE BeginAssign(m)
      BY <1>3, <3>4 DEF BeginAssign, Goto, InDump, InLoad
    <3>5. CASE EndSearch(m) \/ WriteNode(m) \/ Wander(m)
      BY <3>5 DEF EndSearch, WriteNode, Wander, InDump, InLoad
    <3> QED
      BY <1>8, <3>1, <3>2, <3>3, <3>4, <3>5, Zenon DEF GoesOn
  <2>2. (InDump(m) \/ UNCHANGED writer) /\ (InLoad(m) \/ UNCHANGED reader)
    BY <1>8, Touches
  <2> QED
    BY <1>2, <2>1, <2>2 DEF StreamsFree
<1> QED
  BY <1>5, <1>6, <1>7, <1>8 DEF Moves

\* A DUMP or LOAD that is alone goes on undisturbed: other loops leave the file and
\* its stream to it, and what they do to the list is recorded.
LEMMA Undisturbed ==
  ASSUME ServerOK, AloneOK, NEW m \in Loops, Moves(m),
         NEW l \in Loops \ {m}, UnderWay(l), overlap'[l] # "mixed"
  PROVE  /\ overlap[l] # "mixed" /\ UNCHANGED <<file, writer>>
         /\ InLoad(l) => UNCHANGED reader
         /\ overlap'[l] = "quiet" => overlap[l] = "quiet" /\ UNCHANGED db
         /\ overlap'[l] = "failed" <=> overlap[l] = "failed"
         /\ kept'[l] = kept[l]
         /\ InDump(l) => had[l] \subseteq had'[l]
         /\ InDump(l) => UNCHANGED db \/ ValueIn(db', Watched) \in had'[l]
         /\ ~InDump(l) => had'[l] = had[l]
<1>1. overlap \in [Loops -> {"quiet", "busy", "mixed", "failed"}]
  BY DEF ServerOK, HistoryOK
<1>2. CASE GoesOn(m)
  <2>1. /\ overlap[l] # "mixed" /\ (overlap'[l] = "quiet" => overlap[l] = "quiet")
        /\ overlap'[l] = "failed" <=> overlap[l] = "failed"
        /\ kept'[l] = kept[l]
    BY <1>1, <1>2, Touches DEF Recorded
  <2>2. ~InDump(m) /\ (InLoad(l) => ~InLoad(m))
    BY <2>1 DEF AloneOK
  <2>3. UNCHANGED <<file, writer>> /\ (InLoad(l) => UNCHANGED reader)
    BY <1>2, <2>2, Touches
  <2>4. CASE Recorded(m)
    <3>1. /\ overlap'[l] = IF overlap[l] = "quiet" THEN "busy" ELSE overlap[l]
          /\ had'[l] = IF InDump(l) THEN had[l] \cup {ValueIn(db', Watched)} ELSE had[l]
      BY <2>1, <2>4 DEF Recorded
    <3>2. overlap'[l] # "quiet"
      BY <3>1
    <3> QED
      BY <2>1, <2>3, <3>1, <3>2
  <2>5. CASE ~Recorded(m)
    BY <1>2, <2>1, <2>3, <2>5, Touches
  <2> QED
    BY <2>4, <2>5
<1>3. ASSUME NEW words \in sends[m], Begins(m, words), ~OpenReader(m, words), ~OpenWriter(m, words)
      PROVE  UNCHANGED <<db, file, writer, reader, overlap, had, kept>>
  BY <1>3 DEF Begins, ReadSet, ReadDel, ReadGet, streamVars, historyVars
<1>4. ASSUME NEW words \in sends[m] PROVE ~OpenWriter(m, words)
  BY DEF OpenWriter
<1>5. ASSUME NEW words \in sends[m], OpenReader(m, words)
      PROVE  UNCHANGED <<db, file, writer, had, kept>> /\ ~InLoad(l) /\ overlap'[l] = overlap[l]
  BY <1>5 DEF OpenReader
<1> QED
  BY <1>2, <1>3, <1>4, <1>5 DEF Moves

----------------------------------------------------------------------------
(* A LOAD that nothing overlaps *)

\* What follows the first m symbols of a text.
LEMMA RestIs ==
  ASSUME NEW S, NEW text \in Seq(S), NEW m \in 0 .. Len(text)
  PROVE  /\ From(text, m + 1) \in Seq(S) /\ Len(From(text, m + 1)) = Len(text) - m
         /\ \A i \in 1 .. Len(text) - m : From(text, m + 1)[i] = text[m + i]
<1> DEFINE n == Len(text)
           rest == From(text, m + 1)
<1>1. n \in Nat /\ m \in Nat /\ m + 1 \in 1 .. n + 1
  OBVIOUS
<1>2. /\ rest \in Seq(S) /\ Len(rest) = n + 1 - (m + 1)
      /\ \A i \in 1 .. n + 1 - (m + 1) : rest[i] = text[(m + 1) + i - 1]
  BY <1>1, FromIs
<1> HIDE DEF n, rest
<1>3. n + 1 - (m + 1) = n - m /\ \A i \in Nat : (m + 1) + i - 1 = m + i
  BY <1>1
<1>4. Len(rest) = n - m
  BY <1>2, <1>3
<1>5. \A i \in 1 .. n - m : rest[i] = text[m + i]
  BY <1>1, <1>2, <1>3
<1> QED
  BY <1>2, <1>4, <1>5 DEF n, rest

\* getline() takes the next line, and what remains begins behind it.
LEMMA LineTaken ==
  ASSUME NEW text \in Seq(Symbols), NEW p \in 0 .. Len(text) - 1, p = 0 \/ text[p] = Eol
  PROVE  LET rest == From(text, p + 1)
             line == FirstLine(rest)
             q == IF Has(rest, Eol) THEN p + Len(line) + 1 ELSE Len(text)
         IN /\ p + 1 \in LineStarts(text) /\ LineAt(text, p + 1) = line
            /\ q \in p + 1 .. Len(text)
            /\ Has(rest, Eol) => text[q] = Eol
            /\ ~Has(rest, Eol) => q = Len(text)
            /\ From(rest, Len(line) + 2) = From(text, q + 1)
            /\ \A i \in LineStarts(text) : i <= q => i <= p \/ i = p + 1
<1> DEFINE n == Len(text)
           rest == From(text, p + 1)
           line == FirstLine(rest)
           q == IF Has(rest, Eol) THEN p + Len(line) + 1 ELSE n
<1>1. n \in Nat /\ p \in Nat /\ p + 1 \in 1 .. n /\ p + 1 \in 1 .. n + 1 /\ DOMAIN text = 1 .. n
  OBVIOUS
<1>2. /\ rest \in Seq(Symbols) /\ Len(rest) = n - p
      /\ \A i \in 1 .. n - p : rest[i] = text[p + i]
  <2>1. p \in 0 .. Len(text)
    OBVIOUS
  <2> QED
    BY <2>1, RestIs
<1> HIDE DEF rest
<1>3. /\ line \in Seq(Symbols)
      /\ \A i \in 1 .. Len(line) : line[i] = rest[i]
      /\ Has(rest, Eol) => /\ Len(line) + 1 \in 1 .. Len(rest)
                           /\ rest[Len(line) + 1] = Eol
      /\ ~Has(rest, Eol) => Len(line) = Len(rest)
      /\ ~Has(line, Eol)
  BY <1>2, FirstLineIs
<1> HIDE DEF line
<1>q. /\ Has(rest, Eol) => q = p + Len(line) + 1
      /\ ~Has(rest, Eol) => q = n
  OBVIOUS
<1> HIDE DEF n, q
<1>4. Len(line) \in Nat /\ \A i \in 1 .. Len(line) : line[i] # Eol
  BY <1>3 DEF Has
<1>5. /\ p + Len(line) <= n /\ q \in p + 1 .. n
      /\ \A i \in 1 .. Len(line) : text[p + i] = line[i]
      /\ Has(rest, Eol) => q = p + Len(line) + 1 /\ text[q] = Eol
      /\ ~Has(rest, Eol) => q = p + Len(line) /\ q = n
  <2>1. CASE Has(rest, Eol)
    <3>1. Len(line) + 1 \in 1 .. n - p /\ rest[Len(line) + 1] = Eol /\ q = p + Len(line) + 1
      BY <1>2, <1>3, <1>q, <2>1
    <3>2. text[p + (Len(line) + 1)] = Eol /\ p + (Len(line) + 1) = q
      BY <1>1, <1>2, <1>4, <3>1
    <3>3. \A i \in 1 .. Len(line) : i \in 1 .. n - p
      BY <1>1, <1>4, <3>1
    <3>4. \A i \in 1 .. Len(line) : text[p + i] = line[i]
      BY <1>2, <1>3, <3>3
    <3>5. p + Len(line) <= n /\ q \in p + 1 .. n
      BY <1>1, <1>4, <3>1
    <3> QED
      BY <2>1, <3>1, <3>2, <3>4, <3>5
  <2>2. CASE ~Has(rest, Eol)
    <3>1. Len(line) = n - p /\ q = n
      BY <1>2, <1>3, <1>q, <2>2
    <3>2. \A i \in 1 .. Len(line) : text[p + i] = line[i]
      BY <1>2, <1>3, <3>1
    <3>3. p + Len(line) = n /\ q \in p + 1 .. n
      BY <1>1, <3>1
    <3> QED
      BY <1>1, <2>2, <3>1, <3>2, <3>3
  <2> QED
    BY <2>1, <2>2
<1> DEFINE e == p + 1 + Len(line)
<1>6. EndsBefore(text, p + 1, e)
  <2>1. e \in p + 1 .. n + 1
    BY <1>1, <1>4, <1>5
  <2>2. ASSUME NEW j \in p + 1 .. e - 1 PROVE text[j] # Eol
    <3>1. j - p \in 1 .. Len(line) /\ p + (j - p) = j
      BY <1>1, <1>4
    <3>2. text[j] = line[j - p] /\ line[j - p] # Eol
      BY <1>4, <1>5, <3>1
    <3> QED
      BY <3>2
  <2>3. e <= n => text[e] = Eol
    BY <1>1, <1>4, <1>5
  <2> QED
    BY <2>1, <2>2, <2>3 DEF EndsBefore, n
<1>7. LineAt(text, p + 1) = line
  <2>1. /\ LineAt(text, p + 1) \in Seq(Symbols) /\ Len(LineAt(text, p + 1)) = e - (p + 1)
        /\ \A j \in 1 .. e - (p + 1) : LineAt(text, p + 1)[j] = text[(p + 1) + j - 1]
    BY <1>1, <1>6, LineAtIs DEF n
  <2>2. e - (p + 1) = Len(line)
    BY <1>1, <1>4
  <2>3. \A j \in Nat : (p + 1) + j - 1 = p + j
    BY <1>1
  <2>4. \A j \in 1 .. Len(line) : LineAt(text, p + 1)[j] = line[j]
    BY <1>4, <1>5, <2>1, <2>2, <2>3
  <2> QED
    BY <1>3, <2>1, <2>2, <2>4, SeqEqual
<1>8. p + 1 \in LineStarts(text)
  BY <1>1 DEF LineStarts
<1>9. From(rest, Len(line) + 2) = From(text, q + 1)
  <2>1. CASE Has(rest, Eol)
    <3> DEFINE m == Len(line) + 1
               a == From(rest, m + 1)
               b == From(text, q + 1)
    <3>1. m \in 0 .. Len(rest) /\ q \in 0 .. n /\ q = p + m /\ Len(rest) - m = n - q
      BY <1>1, <1>2, <1>3, <1>4, <1>5, <2>1
    <3>2. /\ a \in Seq(Symbols) /\ Len(a) = Len(rest) - m
          /\ \A i \in 1 .. Len(rest) - m : a[i] = rest[m + i]
      <4> HIDE DEF m
      <4> QED
        BY <1>2, <3>1, RestIs
    <3>3. /\ b \in Seq(Symbols) /\ Len(b) = n - q
          /\ \A i \in 1 .. n - q : b[i] = text[q + i]
      BY <3>1, RestIs DEF n
    <3> HIDE DEF a, b, m
    <3>4. \A i \in 1 .. n - q : rest[m + i] = text[q + i]
      <4> TAKE i \in 1 .. n - q
      <4>1. m \in Nat /\ q \in Nat /\ p \in Nat /\ n \in Nat /\ q = p + m /\ i \in 1 .. n - q
        BY <1>1, <3>1
      <4>2. m + i \in 1 .. n - p /\ p + (m + i) = q + i
        BY <4>1
      <4> QED
        BY <1>2, <4>2
    <3>5. a = b
      <4>1. Len(a) = Len(b) /\ \A i \in 1 .. Len(a) : a[i] = b[i]
        <5> DEFINE r == Len(rest) - m
        <5>1. n - q = r
          BY <3>1
        <5> HIDE DEF r
        <5>2. /\ Len(a) = r /\ \A i \in 1 .. r : a[i] = rest[m + i]
          BY <3>2 DEF r
        <5>3. /\ Len(b) = r /\ \A i \in 1 .. r : b[i] = text[q + i] /\ rest[m + i] = text[q + i]
          BY <3>3, <3>4, <5>1, Zenon
        <5> QED
          BY <5>2, <5>3
      <4>2. a \in Seq(Symbols) /\ b \in Seq(Symbols)
        BY <3>2, <3>3
      <4> QED
        BY <4>1, <4>2, SeqEqual
    <3>6. m + 1 = Len(line) + 2
      BY <1>4 DEF m
    <3> QED
      BY <3>5, <3>6 DEF a, b
  <2>2. CASE ~Has(rest, Eol)
    <3>1. Len(line) + 2 \in Nat /\ Len(line) + 2 > Len(rest) /\ q + 1 \in Nat /\ q + 1 > n
      BY <1>1, <1>2, <1>3, <1>4, <1>5, <2>2
    <3> QED
      BY <1>2, <3>1, FromBehind DEF n
  <2> QED
    BY <2>1, <2>2
<1>10. ASSUME NEW i \in LineStarts(text), i <= q PROVE i <= p \/ i = p + 1
  <2> SUFFICES ASSUME i > p + 1 PROVE FALSE
    BY <1>1 DEF LineStarts
  <2>1. i \in 1 .. n /\ text[i - 1] = Eol
    BY <1>1 DEF LineStarts
  <2>2. (i - 1) - p \in 1 .. Len(line) /\ p + ((i - 1) - p) = i - 1
    BY <1>1, <1>4, <1>5, <1>10, <2>1
  <2>3. text[i - 1] = line[(i - 1) - p] /\ line[(i - 1) - p] # Eol
    BY <1>4, <1>5, <2>2
  <2> QED
    BY <2>1, <2>3
<1> QED
  BY <1>5, <1>7, <1>8, <1>9, <1>10, <1>q DEF n, q, line, rest

\* The value of key k in map when the pair of a handler at place is in.
Then(place, own, val, map, k) ==
  IF place \in {"insert", "assign"} /\ k = own THEN val ELSE ValueIn(map, k)

\* Each pair of the first p symbols counts until a later line has its key.
Counted(text, p, place, own, val, map) ==
  \A i \in LineStarts(text) :
    LastUpTo(text, i, p) => Then(place, own, val, map, KeyAt(text, i)) = ValueAt(text, i)

\* A line without a delimiter repeats the last pair before it.
Repeats(text, p, own, val) ==
  IsPair(own, val) =>
    \E i \in Good(text) : /\ i <= p /\ KeyAt(text, i) = own /\ ValueAt(text, i) = val
                          /\ \A j \in Good(text) : j <= p => j <= i

\* Loop l has read the first p symbols of the file, line by line.
Loaded(l, p) ==
  /\ p \in 0 .. Len(file)
  /\ p \in {0, Len(file)} \/ file[p] = Eol
  /\ reader.open /\ (reader.fail => p = Len(file))
  /\ \/ p = 0 /\ reader.pos = 0 /\ reader.buf = <<>>
     \/ reader.pos = Len(file) /\ reader.buf = From(file, p + 1)
  /\ Counted(file, p, pc[l], key[l], value[l], db)
  /\ Repeats(file, p, key[l], value[l])

\* A LOAD that nothing has overlapped has read some part of the file.
LoadOK ==
  \A l \in Loops : InLoad(l) /\ overlap[l] = "quiet" => \E p \in 0 .. Len(file) : Loaded(l, p)

\* One that could not open the file has nothing to read.
NothingLoaded ==
  \A l \in Loops : InLoad(l) /\ overlap[l] = "failed" => pc[l] = "load" /\ ~reader.open

\* What is unread when p symbols are read.
LEMMA UnreadFrom ==
  ASSUME StreamsOK, NEW l \in Loops, NEW p \in 0 .. Len(file), Loaded(l, p)
  PROVE  Unread = From(file, p + 1)
<1>1. file \in Seq(Symbols) /\ Len(file) \in Nat
  BY DEF StreamsOK
<1>2. CASE p = 0 /\ reader.pos = 0 /\ reader.buf = <<>>
  <2>1. ~Has(reader.buf, Eol)
    <3>1. DOMAIN reader.buf = {}
      BY <1>2
    <3> QED
      BY <3>1 DEF Has
  <2>2. From(file, p + 1) \in Seq(Symbols)
    BY <1>1, FromIs
  <2>3. <<>> \o From(file, p + 1) = From(file, p + 1)
    BY <2>2, ConcatEmptySeq
  <2>4. reader.pos + 1 = p + 1
    BY <1>2
  <2> QED
    BY <1>2, <2>1, <2>3, <2>4 DEF Unread
<1>3. CASE reader.pos = Len(file) /\ reader.buf = From(file, p + 1)
  <2>1. From(file, reader.pos + 1) = <<>>
    BY <1>1, <1>3, FromBehind
  <2>2. From(file, p + 1) \in Seq(Symbols)
    BY <1>1, FromIs
  <2>3. From(file, p + 1) \o <<>> = From(file, p + 1)
    BY <2>2, ConcatEmptySeq
  <2> QED
    BY <1>3, <2>1, <2>3 DEF Unread
<1> QED
  BY <1>2, <1>3 DEF Loaded

\* A LOAD that nothing overlaps finds the stream closed and has read nothing.
LEMMA LoadBegins ==
  ASSUME ServerOK, StreamsFree, NEW l \in Loops, NEW words \in sends[l], OpenReader(l, words),
         overlap'[l] = "quiet"
  PROVE  Loaded(l, 0)'
<1>1. \A k \in Loops : ~InLoad(k)
  BY DEF OpenReader, Begun, Reads, InLoad, ServerOK, HistoryOK
<1>2. reader' = [Closed EXCEPT !.open = TRUE]
  <2>1. reader' \in {[Closed EXCEPT !.open = TRUE], [Closed EXCEPT !.fail = TRUE]}
    BY <1>1 DEF StreamsFree, OpenReader, Opened, Closed
  <2>2. reader'.open
    BY DEF OpenReader, Begun, ServerOK, HistoryOK
  <2> QED
    BY <2>1, <2>2 DEF Closed
<1>3. reader'.open /\ ~reader'.fail /\ reader'.pos = 0 /\ reader'.buf = <<>>
  BY <1>2 DEF Closed
<1>4. key'[l] = <<>> /\ value'[l] = <<>>
  BY DEF OpenReader, Reads, ServerOK, HandlersOK
<1>5. file' \in Seq(Symbols) /\ file' = file
  BY DEF OpenReader, ServerOK, StreamsOK
<1>6. \A i \in LineStarts(file') : ~(i <= 0)
  BY <1>5 DEF LineStarts
<1>7. Counted(file', 0, pc'[l], key'[l], value'[l], db')
  BY <1>6 DEF Counted, LastUpTo
<1>8. Repeats(file', 0, key'[l], value'[l])
  BY <1>4 DEF Repeats, IsPair
<1>9. 0 \in 0 .. Len(file')
  BY <1>5
<1> QED
  BY <1>3, <1>7, <1>8, <1>9 DEF Loaded

\* What Loaded says rests on the file, the list, the stream and the loop's own state.
LEMMA LoadKept ==
  ASSUME NEW l \in Loops, NEW p, Loaded(l, p), UNCHANGED <<file, reader>>,
         key'[l] = key[l], value'[l] = value[l],
         \A k : Then(pc'[l], key'[l], value'[l], db', k) = Then(pc[l], key[l], value[l], db, k)
  PROVE  Loaded(l, p)'
<1>1. Counted(file, p, pc[l], key[l], value[l], db) /\ Repeats(file, p, key[l], value[l])
  BY DEF Loaded
<1>2. Counted(file', p, pc'[l], key'[l], value'[l], db')
  BY <1>1 DEF Counted
<1>3. Repeats(file', p, key'[l], value'[l])
  BY <1>1
<1>4. /\ p \in 0 .. Len(file') /\ (p \in {0, Len(file')} \/ file'[p] = Eol)
      /\ reader'.open /\ (reader'.fail => p = Len(file'))
      /\ \/ p = 0 /\ reader'.pos = 0 /\ reader'.buf = <<>>
         \/ reader'.pos = Len(file') /\ reader'.buf = From(file', p + 1)
  BY DEF Loaded
<1> QED
  BY <1>2, <1>3, <1>4 DEF Loaded

\* A line is read.
LEMMA LoadReads ==
  ASSUME ServerOK, NEW l \in Loops, InLoad(l), NEW p \in 0 .. Len(file), Loaded(l, p),
         GetLine(l)
  PROVE  \E q \in 0 .. Len(file') : Loaded(l, q)'
<1> DEFINE n == Len(file)
           rest == From(file, p + 1)
           line == FirstLine(rest)
           end == IF Has(rest, Eol) THEN p + Len(line) + 1 ELSE n
<1>1. /\ file \in Seq(Symbols) /\ n \in Nat /\ StreamsOK /\ reader \in Streams
      /\ key \in [Loops -> Seq(Symbols)] /\ value \in [Loops -> Seq(Symbols)]
      /\ pc \in [Loops -> Places]
  BY DEF ServerOK, StreamsOK, HandlersOK
<1>2. Unread = rest
  BY <1>1, UnreadFrom
<1>3. p < n /\ (p = 0 \/ file[p] = Eol) /\ p \in 0 .. n - 1
  <2>1. rest # <<>>
    BY <1>2 DEF GetLine, NothingToRead
  <2>2. p = n => rest = <<>>
    BY <1>1, FromBehind
  <2>3. p \in {0, n} \/ file[p] = Eol
    BY DEF Loaded
  <2> HIDE DEF rest
  <2> QED
    BY <1>1, <2>1, <2>2, <2>3
<1>4. PICK q \in p + 1 .. n :
        /\ p + 1 \in LineStarts(file) /\ LineAt(file, p + 1) = line
        /\ Has(rest, Eol) => file[q] = Eol
        /\ ~Has(rest, Eol) => q = n
        /\ From(rest, Len(line) + 2) = From(file, q + 1)
        /\ \A i \in LineStarts(file) : i <= q => i <= p \/ i = p + 1
  <2>1. /\ p + 1 \in LineStarts(file) /\ LineAt(file, p + 1) = line
        /\ end \in p + 1 .. n
        /\ Has(rest, Eol) => file[end] = Eol
        /\ ~Has(rest, Eol) => end = n
        /\ From(rest, Len(line) + 2) = From(file, end + 1)
        /\ \A i \in LineStarts(file) : i <= end => i <= p \/ i = p + 1
    BY <1>1, <1>3, LineTaken, Zenon
  <2> HIDE DEF rest, line, end, n
  <2> QED
    BY <2>1
<1>5. /\ pc[l] = "load" /\ file' = file /\ db' = db
      /\ reader' = [reader EXCEPT
           !.buf = From(rest, Len(line) + 2),
           !.fail = ~Has(rest, Eol),
           !.pos = IF Has(reader.buf, Eol) \/ @ > n THEN @ ELSE n]
      /\ IF Has(line, Delimiter)
           THEN /\ key' = [key EXCEPT ![l] = KeyOf(line)]
                /\ value' = [value EXCEPT ![l] = ValueOf(line)]
           ELSE UNCHANGED <<key, value>>
      /\ IF IsPair(key'[l], value'[l]) THEN Goto(l, "insert") ELSE UNCHANGED pc
  BY <1>2, Zenon DEF GetLine, FirstLine
<1> HIDE DEF rest, line, end, n
<1>6. /\ reader'.open /\ (reader'.fail => q = n)
      /\ reader'.pos = n /\ reader'.buf = From(file, q + 1)
  <2>1. reader.open
    BY DEF Loaded
  <2>2. /\ reader'.open = reader.open /\ reader'.fail = ~Has(rest, Eol)
        /\ reader'.buf = From(rest, Len(line) + 2)
        /\ reader'.pos = IF Has(reader.buf, Eol) \/ reader.pos > n THEN reader.pos ELSE n
    BY <1>1, <1>5 DEF Streams
  <2>3. reader'.pos = n
    <3>1. CASE reader.pos = n
      BY <2>2, <3>1
    <3>2. CASE reader.pos = 0 /\ reader.buf = <<>>
      <4>1. ~Has(reader.buf, Eol)
        <5>1. DOMAIN reader.buf = {}
          BY <3>2
        <5> QED
          BY <5>1 DEF Has
      <4>2. ~(reader.pos > n)
        BY <1>1, <3>2
      <4> QED
        BY <2>2, <4>1, <4>2
    <3> QED
      BY <3>1, <3>2 DEF Loaded, n
  <2> QED
    BY <1>4, <2>1, <2>2, <2>3
<1>7. /\ Has(line, Delimiter) => key'[l] = KeyAt(file, p + 1) /\ value'[l] = ValueAt(file, p + 1)
      /\ ~Has(line, Delimiter) => key'[l] = key[l] /\ value'[l] = value[l]
      /\ IsPair(key'[l], value'[l]) => pc'[l] = "insert"
      /\ ~IsPair(key'[l], value'[l]) => pc'[l] = "load"
  <2>1. KeyAt(file, p + 1) = KeyOf(line) /\ ValueAt(file, p + 1) = ValueOf(line)
    BY <1>4 DEF KeyAt, ValueAt
  <2>2. Has(line, Delimiter) => key'[l] = KeyOf(line) /\ value'[l] = ValueOf(line)
    BY <1>1, <1>5
  <2> QED
    BY <1>1, <1>5, <2>1, <2>2 DEF Goto
<1>8. p + 1 \in Good(file) <=> Has(line, Delimiter) /\ IsPair(key'[l], value'[l])
  BY <1>4, <1>7 DEF Good, IsPair
<1>9. \A i \in Good(file) : i \in Nat /\ i \in LineStarts(file) /\ (i <= q => i <= p \/ i = p + 1)
  BY <1>1, <1>4, LineOfSymbols DEF Good
<1>10. q \in Nat /\ p \in Nat /\ p + 1 <= q /\ q <= n
  BY <1>1, <1>3, <1>4
<1>11. ASSUME NEW k
       PROVE  Then(pc'[l], key'[l], value'[l], db', k)
                = IF IsPair(key'[l], value'[l]) /\ k = key'[l] THEN value'[l] ELSE ValueIn(db, k)
  BY <1>5, <1>7 DEF Then
<1>12. \A i \in LineStarts(file) : LastUpTo(file, i, p) => ValueIn(db, KeyAt(file, i)) = ValueAt(file, i)
  BY <1>5 DEF Loaded, Counted, Then
<1>13. Repeats(file, p, key[l], value[l])
  BY DEF Loaded
<1> HIDE DEF Loaded
<1>14. ASSUME NEW i \in LineStarts(file), LastUpTo(file, i, q)
       PROVE  Then(pc'[l], key'[l], value'[l], db', KeyAt(file, i)) = ValueAt(file, i)
  <2> DEFINE k == KeyAt(file, i)
  <2>1. /\ i \in Good(file) /\ i <= q /\ i \in Nat
        /\ \A j \in Good(file) : j <= q /\ KeyAt(file, j) = k => j <= i
    BY <1>9, <1>14 DEF LastUpTo
  <2>2. i <= p => LastUpTo(file, i, p)
    BY <1>9, <1>10, <2>1 DEF LastUpTo
  <2>3. i <= p => ValueIn(db, k) = ValueAt(file, i)
    BY <1>12, <2>2
  <2>4. Then(pc'[l], key'[l], value'[l], db', k)
          = IF IsPair(key'[l], value'[l]) /\ k = key'[l] THEN value'[l] ELSE ValueIn(db, k)
    BY <1>11
  <2>5. CASE p + 1 \in Good(file)
    <3>1. /\ IsPair(key'[l], value'[l]) /\ key'[l] = KeyAt(file, p + 1)
          /\ value'[l] = ValueAt(file, p + 1)
      BY <1>7, <1>8, <2>5
    <3>2. CASE i = p + 1
      BY <2>4, <3>1, <3>2
    <3>3. CASE i <= p
      <4>1. k # KeyAt(file, p + 1)
        BY <1>10, <2>1, <2>5, <3>3
      <4> QED
        BY <2>3, <2>4, <3>1, <3>3, <4>1
    <3> QED
      BY <1>9, <2>1, <3>2, <3>3
  <2>6. CASE p + 1 \notin Good(file)
    <3>1. i <= p
      BY <1>9, <2>1, <2>6
    <3>2. CASE IsPair(key'[l], value'[l]) /\ k = key'[l]
      <4>1. key'[l] = key[l] /\ value'[l] = value[l]
        BY <1>7, <1>8, <2>6, <3>2
      <4>2. PICK h \in Good(file) : /\ h <= p /\ KeyAt(file, h) = key[l] /\ ValueAt(file, h) = value[l]
                                    /\ \A j \in Good(file) : j <= p => j <= h
        BY <1>13, <3>2, <4>1 DEF Repeats
      <4>3. KeyAt(file, h) = k /\ h <= q /\ h \in Nat
        BY <1>9, <1>10, <3>2, <4>1, <4>2
      <4>4. h <= i
        BY <2>1, <4>3
      <4>5. i <= h
        BY <2>1, <3>1, <4>2
      <4>6. i = h
        BY <2>1, <4>3, <4>4, <4>5
      <4> QED
        BY <2>4, <3>2, <4>1, <4>2, <4>6
    <3>3. CASE ~(IsPair(key'[l], value'[l]) /\ k = key'[l])
      <4>1. Then(pc'[l], key'[l], value'[l], db', k) = ValueIn(db, k)
        BY <2>4, <3>3
      <4> QED
        BY <2>3, <3>1, <4>1
    <3> QED
      BY <3>2, <3>3
  <2> QED
    BY <2>5, <2>6
<1>15. Repeats(file, q, key'[l], value'[l])
  <2> SUFFICES ASSUME IsPair(key'[l], value'[l])
               PROVE  \E i \in Good(file) :
                        /\ i <= q /\ KeyAt(file, i) = key'[l] /\ ValueAt(file, i) = value'[l]
                        /\ \A j \in Good(file) : j <= q => j <= i
    BY DEF Repeats
  <2>1. CASE p + 1 \in Good(file)
    <3>1. \A j \in Good(file) : j <= q => j <= p + 1
      BY <1>9, <1>10
    <3> QED
      BY <1>7, <1>8, <1>10, <2>1, <3>1
  <2>2. CASE p + 1 \notin Good(file)
    <3>1. key'[l] = key[l] /\ value'[l] = value[l]
      BY <1>7, <1>8, <2>2
    <3>2. PICK h \in Good(file) : /\ h <= p /\ KeyAt(file, h) = key[l] /\ ValueAt(file, h) = value[l]
                                  /\ \A j \in Good(file) : j <= p => j <= h
      BY <1>13, <3>1 DEF Repeats
    <3>3. h <= q /\ \A j \in Good(file) : j <= q => j <= h
      BY <1>9, <1>10, <2>2, <3>2
    <3> QED
      BY <3>1, <3>2, <3>3
  <2> QED
    BY <2>1, <2>2
<1>16. /\ q \in 0 .. Len(file') /\ (q \in {0, Len(file')} \/ file'[q] = Eol)
       /\ reader'.pos = Len(file') /\ reader'.buf = From(file', q + 1)
       /\ reader'.fail => q = Len(file')
       /\ reader'.open
  BY <1>4, <1>5, <1>6, <1>10 DEF n
<1>17. Counted(file, q, pc'[l], key'[l], value'[l], db')
  BY <1>14 DEF Counted
<1>18. Counted(file', q, pc'[l], key'[l], value'[l], db') /\ Repeats(file', q, key'[l], value'[l])
  BY <1>5, <1>15, <1>17
<1>19. Loaded(l, q)'
  BY <1>16, <1>18 DEF Loaded
<1> QED
  BY <1>16, <1>19

LEMMA LoadStays ==
  ASSUME TypeInv, AloneOK, StreamsFree, LoadOK, NEW m \in Loops, Moves(m)
  PROVE  LoadOK'
<1> SUFFICES ASSUME NEW l \in Loops, InLoad(l)', overlap'[l] = "quiet"
             PROVE  \E p \in 0 .. Len(file') : Loaded(l, p)'
  BY DEF LoadOK
<1>1. ServerOK /\ SearchOK /\ ListOK /\ HandlersOK
  BY DEF TypeInv, ServerOK
<1>2. CASE l # m
  <2>1. pc'[l] = pc[l] /\ cmd'[l] = cmd[l] /\ key'[l] = key[l] /\ value'[l] = value[l]
    BY <1>1, <1>2, OthersStay
  <2>2. InLoad(l) /\ UnderWay(l)
    BY <2>1 DEF InLoad, UnderWay
  <2>3. overlap[l] = "quiet" /\ UNCHANGED <<file, reader, db>>
    BY <1>1, <1>2, <2>2, Undisturbed
  <2>4. PICK p \in 0 .. Len(file) : Loaded(l, p)
    BY <2>2, <2>3 DEF LoadOK
  <2>5. Loaded(l, p)'
    BY <2>1, <2>3, <2>4, LoadKept
  <2> QED
    BY <2>3, <2>5
<1>3. ASSUME l = m, NEW words \in sends[l], Begins(l, words)
      PROVE  \E p \in 0 .. Len(file') : Loaded(l, p)'
  <2>1. pc \in [Loops -> Places] /\ cmd \in [Loops -> Commands]
    BY <1>1 DEF HandlersOK
  <2>2. OpenReader(l, words)
    BY <1>3, <2>1 DEF Begins, ReadSet, ReadDel, ReadGet, OpenWriter, Reads, Goto, InLoad
  <2>3. Loaded(l, 0)'
    BY <1>1, <2>2, LoadBegins
  <2>4. 0 \in 0 .. Len(file')
    BY <1>1, <2>2 DEF OpenReader, ServerOK, StreamsOK
  <2> QED
    BY <2>3, <2>4
<1>4. ASSUME l = m, GoesOn(l) PROVE \E p \in 0 .. Len(file') : Loaded(l, p)'
  <2>1. InLoad(l) /\ UnderWay(l)' /\ overlap[l] = "quiet"
    <3>1. InLoad(l) /\ UnderWay(l)'
      BY <1>1, <1>4, GoingOn DEF InLoad, UnderWay
    <3> QED
      BY <1>1, <1>4, <3>1, GoingOn
  <2>2. PICK p \in 0 .. Len(file) : Loaded(l, p)
    BY <2>1 DEF LoadOK
  <2>3. cmd[l] = "LOAD" /\ pc[l] \in {"load", "insert", "assign"} /\ pc \in [Loops -> Places]
    BY <1>1, <2>1 DEF InLoad, HandlersOK
  <2>4. CASE InsertNew(l) \/ EndAssign(l)
    <3>1. /\ pc[l] \in {"insert", "assign"} /\ db' = Inserted(key[l], value[l])
          /\ UNCHANGED <<file, reader, key, value>> /\ pc'[l] = "load"
      BY <2>3, <2>4 DEF InsertNew, EndAssign, Insertion, Goto, streamVars
    <3>2. key[l] \in Words /\ value[l] \in Words
      BY <1>1, <3>1 DEF HandlersOK
    <3>3. \A k : ValueIn(db', k) = IF k = key[l] THEN value[l] ELSE ValueIn(db, k)
      BY <1>1, <3>1, <3>2, ListInserted
    <3>4. \A k : Then(pc'[l], key'[l], value'[l], db', k) = Then(pc[l], key[l], value[l], db, k)
      BY <3>1, <3>3 DEF Then
    <3>5. Loaded(l, p)'
      BY <2>2, <3>1, <3>4, LoadKept
    <3> QED
      BY <3>1, <3>5
  <2>5. CASE BeginAssign(l)
    <3>1. /\ pc[l] = "insert" /\ pc'[l] = "assign" /\ UNCHANGED <<db, file, reader, key, value>>
      BY <2>3, <2>5 DEF BeginAssign, Goto, streamVars
    <3>2. \A k : Then(pc'[l], key'[l], value'[l], db', k) = Then(pc[l], key[l], value[l], db, k)
      BY <3>1 DEF Then
    <3>3. Loaded(l, p)'
      BY <2>2, <3>1, <3>2, LoadKept
    <3> QED
      BY <3>1, <3>3
  <2>6. CASE GetLine(l)
    BY <1>1, <2>1, <2>2, <2>6, LoadReads
  <2>7. ~CloseReader(l)
    BY <2>3 DEF CloseReader, Goto, InLoad
  <2>8. ~EndSearch(l)
    BY <1>1, <2>3 DEF EndSearch, EndTask, SearchOK
  <2>9. ~(Delete(l) \/ AddSearch(l) \/ AddThrows(l) \/ Get(l) \/ WriteNode(l) \/ CloseWriter(l)
            \/ Wander(l) \/ AnswerOk(l))
    BY <2>3 DEF Delete, AddSearch, AddThrows, Get, WriteNode, CloseWriter, Wander, ReadsRace,
                AnswerOk, InDump
  <2> QED
    BY <1>4, <2>4, <2>5, <2>6, <2>7, <2>8, <2>9, Zenon DEF GoesOn
<1> QED
  BY <1>2, <1>3, <1>4 DEF Moves

\* Nobody opens the stream for a LOAD that could not.
LEMMA NothingStaysLoaded ==
  ASSUME TypeInv, AloneOK, NothingLoaded, NEW m \in Loops, Moves(m)
  PROVE  NothingLoaded'
<1> SUFFICES ASSUME NEW l \in Loops, InLoad(l)', overlap'[l] = "failed"
             PROVE  pc'[l] = "load" /\ ~reader'.open
  BY DEF NothingLoaded
<1>1. ServerOK /\ SearchOK /\ HandlersOK /\ HistoryOK /\ pc \in [Loops -> Places]
  BY DEF TypeInv, ServerOK, HandlersOK
<1>2. CASE l # m
  <2>1. pc'[l] = pc[l] /\ cmd'[l] = cmd[l]
    BY <1>1, <1>2, OthersStay
  <2>2. InLoad(l) /\ UnderWay(l)
    BY <2>1 DEF InLoad, UnderWay
  <2>3. overlap[l] = "failed" /\ UNCHANGED reader
    BY <1>1, <1>2, <2>2, Undisturbed
  <2> QED
    BY <2>1, <2>2, <2>3 DEF NothingLoaded
<1>3. ASSUME l = m, NEW words \in sends[l], Begins(l, words)
      PROVE  pc'[l] = "load" /\ ~reader'.open
  <2>1. OpenReader(l, words)
    BY <1>1, <1>3 DEF Begins, ReadSet, ReadDel, ReadGet, OpenWriter, Reads, Goto, InLoad, HandlersOK
  <2> QED
    BY <1>1, <2>1 DEF OpenReader, Begun, Goto, HistoryOK
<1>4. ASSUME l = m, GoesOn(l) PROVE pc'[l] = "load" /\ ~reader'.open
  <2>1. InLoad(l) /\ UnderWay(l)'
    BY <1>1, <1>4, GoingOn DEF InLoad, UnderWay
  <2>2. overlap[l] = "failed"
    BY <1>1, <1>4, <2>1, GoingOn
  <2>3. pc[l] = "load" /\ ~reader.open
    BY <2>1, <2>2 DEF NothingLoaded
  <2>4. ~GetLine(l)
    BY <2>3 DEF GetLine, NothingToRead
  <2>5. ~CloseReader(l)
    BY <1>1 DEF CloseReader, Goto, InLoad
  <2>6. ~EndSearch(l)
    BY <1>1, <2>3 DEF EndSearch, EndTask, SearchOK
  <2>7. ~(\/ InsertNew(l) \/ BeginAssign(l) \/ EndAssign(l) \/ Delete(l) \/ AddSearch(l)
          \/ AddThrows(l) \/ Get(l) \/ WriteNode(l) \/ CloseWriter(l) \/ Wander(l) \/ AnswerOk(l))
    BY <2>3 DEF InsertNew, BeginAssign, EndAssign, Delete, AddSearch, AddThrows, Get, WriteNode,
                CloseWriter, Wander, ReadsRace, AnswerOk, InDump
  <2> QED
    BY <1>4, <2>4, <2>5, <2>6, <2>7, Zenon DEF GoesOn
<1> QED
  BY <1>2, <1>3, <1>4 DEF Moves

\* When nothing is left to read, every pair has counted.
LEMMA LoadEnds ==
  ASSUME ServerOK, NEW l \in Loops, NEW p \in 0 .. Len(file), Loaded(l, p), CloseReader(l)
  PROVE  \A k \in DOMAIN Pairs(file) : ValueIn(db, k) = Pairs(file)[k]
<1>1. StreamsOK /\ file \in Seq(Symbols) /\ Len(file) \in Nat
  BY DEF ServerOK, StreamsOK
<1>2. p = Len(file)
  <2>1. CASE Unread = <<>>
    <3>1. From(file, p + 1) = <<>>
      BY <1>1, <2>1, UnreadFrom
    <3>2. Len(file) - p = 0
      <4>1. Len(From(file, p + 1)) = Len(file) - p
        BY <1>1, RestIs
      <4> QED
        BY <3>1, <4>1
    <3> QED
      BY <1>1, <3>2
  <2>2. CASE Unread # <<>>
    BY <2>2 DEF CloseReader, NothingToRead, Loaded
  <2> QED
    BY <2>1, <2>2
<1>3. pc[l] = "load"
  BY DEF CloseReader
<1>4. ASSUME NEW k \in DOMAIN Pairs(file) PROVE ValueIn(db, k) = Pairs(file)[k]
  <2>1. PICK i \in Good(file) : /\ KeyAt(file, i) = k /\ Pairs(file)[k] = ValueAt(file, i)
                                /\ LastUpTo(file, i, Len(file))
    BY <1>1, PairsAre
  <2>2. Then(pc[l], key[l], value[l], db, KeyAt(file, i)) = ValueAt(file, i)
    BY <1>2, <2>1 DEF Loaded, Counted, Good
  <2> QED
    BY <1>3, <2>1, <2>2 DEF Then
<1> QED
  BY <1>4

LEMMA LoadIsExactStays ==
  ASSUME TypeInv, AloneOK, LoadOK, LoadIsExact, NothingLoaded', NEW m \in Loops, Moves(m)
  PROVE  LoadIsExact'
<1> DEFINE Exact == \A k \in DOMAIN Pairs(file) : ValueIn(db, k) = Pairs(file)[k]
<1>5. \A l \in Loops :
        overlap'[l] = "failed" /\ cmd'[l] = "LOAD" => pc'[l] \notin {"insert", "assign"}
  BY DEF NothingLoaded, InLoad
<1> SUFFICES ASSUME NEW l \in Loops, pc'[l] = "loaded", overlap'[l] = "quiet"
             PROVE  Exact'
  BY <1>5 DEF LoadIsExact
<1>1. ServerOK /\ SearchOK /\ HandlersOK /\ pc \in [Loops -> Places] /\ Fits(pc[l], cmd[l])
  BY DEF TypeInv, ServerOK, HandlersOK
<1>2. ASSUME pc[l] = "loaded", overlap[l] = "quiet", UNCHANGED <<db, file>> PROVE Exact'
  BY <1>2 DEF LoadIsExact
<1>3. CASE l # m
  <2>1. pc[l] = "loaded"
    BY <1>1, <1>3, OthersStay
  <2>2. UnderWay(l)
    BY <1>1, <2>1 DEF UnderWay, Fits
  <2>3. overlap[l] = "quiet" /\ UNCHANGED <<file, db>>
    BY <1>1, <1>3, <2>2, Undisturbed
  <2> QED
    BY <1>2, <2>1, <2>3
<1>4. CASE l = m
  <2>1. ASSUME NEW words \in sends[l] PROVE ~Begins(l, words)
    BY <1>1 DEF Begins, ReadSet, ReadDel, ReadGet, OpenWriter, OpenReader, Reads, Goto
  <2>2. GoesOn(l)
    BY <1>4, <2>1 DEF Moves
  <2>3. CASE CloseReader(l)
    <3>1. pc[l] = "load" /\ UNCHANGED <<db, file, overlap>>
      BY <2>3 DEF CloseReader, historyVars
    <3>2. InLoad(l)
      BY <1>1, <3>1 DEF InLoad, Fits
    <3>3. PICK p \in 0 .. Len(file) : Loaded(l, p)
      BY <3>1, <3>2 DEF LoadOK
    <3>4. Exact
      BY <1>1, <2>3, <3>3, LoadEnds
    <3> QED
      BY <3>1, <3>4
  <2>4. ~EndSearch(l)
    BY <1>1 DEF EndSearch, EndTask, SearchOK
  <2>5. ~(InsertNew(l) \/ EndAssign(l))
    <3>1. ~(Insertion(l) /\ pc[l] \in {"insert", "assign"})
      BY <1>1 DEF Insertion, Return, Goto
    <3> QED
      BY <3>1 DEF InsertNew, EndAssign
  <2>6. ~(BeginAssign(l) \/ Delete(l) \/ AddSearch(l) \/ AddThrows(l) \/ Get(l) \/ CloseWriter(l)
          \/ AnswerOk(l))
    BY <1>1 DEF BeginAssign, Delete, AddSearch, AddThrows, Get, CloseWriter, AnswerOk, Return, Goto
  <2>7. ~(WriteNode(l) \/ Wander(l))
    BY DEF WriteNode, Wander, ReadsRace, InDump
  <2>8. ~GetLine(l)
    <3> SUFFICES ASSUME GetLine(l) PROVE FALSE
      OBVIOUS
    <3>1. pc[l] = "load" /\ (Goto(l, "insert") \/ UNCHANGED pc)
      BY Zenon DEF GetLine
    <3> QED
      BY <1>1, <3>1 DEF Goto
  <2> QED
    BY <2>2, <2>3, <2>4, <2>5, <2>6, <2>7, <2>8, Zenon DEF GoesOn
<1> QED
  BY <1>3, <1>4

\* LoadIsExact with what it rests on.
LoadInv == TypeInv /\ AloneOK /\ StreamsFree /\ LoadOK /\ NothingLoaded /\ LoadIsExact

\* A process that is started again has no handler under way.
LEMMA StartLoad ==
  ASSUME StartsAgain
  PROVE  (AloneOK /\ StreamsFree /\ LoadOK /\ NothingLoaded /\ LoadIsExact)'
<1>1. /\ pc' = [l \in Loops |-> "idle"] /\ writer' = Closed /\ reader' = Closed
  BY DEF StartsAgain, Restart
<1> QED
  BY <1>1 DEF AloneOK, StreamsFree, LoadOK, NothingLoaded, LoadIsExact, UnderWay, InLoad

LEMMA NextLoad == LoadInv /\ [Next]_vars => LoadInv'
<1> SUFFICES ASSUME LoadInv, [Next]_vars PROVE LoadInv'
  OBVIOUS
<1>1. TypeInv /\ AloneOK /\ StreamsFree /\ LoadOK /\ NothingLoaded /\ LoadIsExact
  BY DEF LoadInv
<1>2. TypeInv'
  BY <1>1, NextTypes
<1>3. ServerOK /\ ServerOK'
  BY <1>1, <1>2 DEF TypeInv
<1>4. CASE UNCHANGED serverVars
  <2>1. UNCHANGED <<db, file, writer, reader, pc, cmd, key, value, overlap>>
    BY <1>4 DEF serverVars, streamVars, handlerVars, historyVars
  <2>2. AloneOK' /\ StreamsFree'
    BY <1>1, <2>1 DEF AloneOK, StreamsFree, UnderWay, InDump, InLoad
  <2>3. LoadOK'
    <3> SUFFICES ASSUME NEW l \in Loops, InLoad(l)', overlap'[l] = "quiet"
                 PROVE  \E p \in 0 .. Len(file') : Loaded(l, p)'
      BY DEF LoadOK
    <3>1. InLoad(l) /\ overlap[l] = "quiet"
      BY <2>1 DEF InLoad
    <3>2. PICK p \in 0 .. Len(file) : Loaded(l, p)
      BY <1>1, <3>1 DEF LoadOK
    <3>3. Loaded(l, p)'
      BY <2>1, <3>2, LoadKept
    <3> QED
      BY <2>1, <3>3
  <2>4. NothingLoaded' /\ LoadIsExact'
    BY <1>1, <2>1 DEF NothingLoaded, InLoad, LoadIsExact
  <2> QED
    BY <1>2, <2>2, <2>3, <2>4 DEF LoadInv
<1>5. CASE StartsAgain
  BY <1>2, <1>5, StartLoad DEF LoadInv
<1>6. ASSUME NEW m \in Loops, Moves(m) PROVE LoadInv'
  <2>1. NothingLoaded'
    BY <1>1, <1>6, NothingStaysLoaded
  <2> QED
    BY <1>1, <1>2, <1>3, <1>6, <2>1, AloneStays, StreamsStayFree, LoadStays, LoadIsExactStays
       DEF LoadInv
<1> QED
  BY <1>4, <1>5, <1>6, Steps DEF Moves

\* A LOAD that no other command overlaps gives the list the last pair of every key
\* in the file, for any file there is at first and whatever crashes, torn lines and
\* earlier dumps have left of it, and whatever the list held.  A LOAD that cannot open
\* the file inserts nothing.
THEOREM LoadsAreExact == Spec => []LoadIsExact
<1>1. Init => LoadInv
  <2> SUFFICES ASSUME Init PROVE LoadInv
    OBVIOUS
  <2>1. pc = [l \in Loops |-> "idle"] /\ writer = Closed /\ reader = Closed
    BY DEF Init
  <2>2. AloneOK /\ StreamsFree /\ LoadOK /\ NothingLoaded /\ LoadIsExact
    BY <2>1 DEF AloneOK, StreamsFree, LoadOK, NothingLoaded, LoadIsExact, UnderWay, InLoad
  <2> QED
    BY <2>2, InitTypes DEF LoadInv
<1>2. LoadInv => LoadIsExact
  BY DEF LoadInv
<1> QED
  BY <1>1, <1>2, NextLoad, PTL DEF Spec

----------------------------------------------------------------------------
(* What a DUMP writes *)

\* A line of a key without a delimiter is read as it was written; one of any other
\* key gives what comes before the key's first delimiter.
LEMMA BothIsRead ==
  ASSUME NEW k \in Seq(Symbols), NEW v \in Seq(Symbols)
  PROVE  /\ Has(Both(k, v), Delimiter)
         /\ ~Has(k, Delimiter) => KeyOf(Both(k, v)) = k /\ ValueOf(Both(k, v)) = v
         /\ Has(k, Delimiter) => KeyOf(Both(k, v)) = KeyOf(k)
<1> DEFINE b == Both(k, v)
<1>1. /\ b \in Seq(Symbols) /\ Len(b) = Len(k) + 1 + Len(v)
      /\ \A i \in 1 .. Len(k) : b[i] = k[i]
      /\ b[Len(k) + 1] = Delimiter
      /\ \A i \in 1 .. Len(v) : b[Len(k) + 1 + i] = v[i]
  BY BothIs
<1>2. Len(k) \in Nat /\ Len(v) \in Nat /\ DOMAIN k = 1 .. Len(k)
  OBVIOUS
<1> HIDE DEF b
<1>3. CASE ~Has(k, Delimiter)
  <2> DEFINE n == Len(k) + 1
  <2>1. n \in 1 .. Len(b) /\ b[n] = Delimiter /\ \A j \in 1 .. (n - 1) : b[j] # Delimiter
    <3>1. \A j \in 1 .. Len(k) : b[j] # Delimiter
      BY <1>1, <1>2, <1>3 DEF Has
    <3>2. n - 1 = Len(k) /\ n \in 1 .. Len(b)
      BY <1>1, <1>2
    <3> QED
      BY <1>1, <3>1, <3>2
  <2> HIDE DEF n
  <2>2. Has(b, Delimiter) /\ Find(b, Delimiter) = n
    BY <1>1, <2>1, FindIs
  <2>3. KeyOf(b) = k
    <3>1. Len(k) \in 0 .. Len(b) /\ n - 1 = Len(k)
      BY <1>1, <1>2 DEF n
    <3>2. /\ UpTo(b, Len(k)) \in Seq(Symbols) /\ Len(UpTo(b, Len(k))) = Len(k)
          /\ \A i \in 1 .. Len(k) : UpTo(b, Len(k))[i] = b[i]
      BY <1>1, <3>1, UpToIs
    <3>3. UpTo(b, Len(k)) = k
      BY <1>1, <3>2, SeqEqual
    <3> QED
      BY <2>2, <3>1, <3>3 DEF KeyOf
  <2>4. ValueOf(b) = v
    <3>1. n \in 0 .. Len(b) /\ Len(b) - n = Len(v)
      BY <1>1, <1>2 DEF n
    <3>2. /\ From(b, n + 1) \in Seq(Symbols) /\ Len(From(b, n + 1)) = Len(b) - n
          /\ \A i \in 1 .. Len(b) - n : From(b, n + 1)[i] = b[n + i]
      BY <1>1, <3>1, RestIs
    <3>3. Len(From(b, n + 1)) = Len(v) /\ \A i \in 1 .. Len(v) : From(b, n + 1)[i] = v[i]
      BY <1>1, <3>1, <3>2 DEF n
    <3>4. From(b, n + 1) = v
      BY <3>2, <3>3, SeqEqual
    <3> QED
      BY <2>2, <3>4 DEF ValueOf
  <2> QED
    BY <1>3, <2>2, <2>3, <2>4 DEF b
<1>4. CASE Has(k, Delimiter)
  <2> DEFINE n == Find(k, Delimiter)
  <2>1. n \in 1 .. Len(k) /\ k[n] = Delimiter /\ \A j \in 1 .. (n - 1) : k[j] # Delimiter
    BY <1>4, FindFirst
  <2> HIDE DEF n
  <2>2. n \in 1 .. Len(b) /\ b[n] = Delimiter /\ \A j \in 1 .. (n - 1) : b[j] # Delimiter
    BY <1>1, <1>2, <2>1
  <2>3. Has(b, Delimiter) /\ Find(b, Delimiter) = n
    BY <1>1, <2>2, FindIs
  <2>4. UpTo(b, n - 1) = UpTo(k, n - 1)
    <3>1. n - 1 \in 0 .. Len(b) /\ n - 1 \in 0 .. Len(k) /\ n - 1 \in Nat
      BY <2>1, <2>2
    <3> DEFINE m == n - 1
    <3>2. m \in 0 .. Len(b) /\ m \in 0 .. Len(k) /\ \A i \in 1 .. m : i \in 1 .. Len(k)
      BY <1>2, <3>1
    <3> HIDE DEF m
    <3>3. /\ UpTo(b, m) \in Seq(Symbols) /\ Len(UpTo(b, m)) = m
          /\ \A i \in 1 .. m : UpTo(b, m)[i] = b[i]
      BY <1>1, <3>2, UpToIs
    <3>4. /\ UpTo(k, m) \in Seq(Symbols) /\ Len(UpTo(k, m)) = m
          /\ \A i \in 1 .. m : UpTo(k, m)[i] = k[i]
      BY <3>2, UpToIs
    <3>5. \A i \in 1 .. m : UpTo(b, m)[i] = UpTo(k, m)[i]
      BY <1>1, <3>2, <3>3, <3>4
    <3>6. UpTo(b, m) = UpTo(k, m)
      BY <3>3, <3>4, <3>5, SeqEqual
    <3> QED
      BY <3>6 DEF m
  <2> QED
    BY <1>4, <2>3, <2>4 DEF KeyOf, b, n
<1> QED
  BY <1>3, <1>4

\* What is written for a key without line ends begins with one line for the key, which
\* has the first line of the value.
LEMMA FirstOfLines ==
  ASSUME NEW k \in Seq(Symbols), NEW v \in Seq(Symbols), ~Has(k, Eol)
  PROVE  LineAt(Line(k, v), 1) = Both(k, FirstLine(v))
<1> DEFINE line == Line(k, v)
           f == FirstLine(v)
           b == Both(k, f)
           n == Len(b)
<1>1. /\ f \in Seq(Symbols) /\ \A i \in 1 .. Len(f) : f[i] = v[i]
      /\ Has(v, Eol) => Len(f) + 1 \in 1 .. Len(v) /\ v[Len(f) + 1] = Eol
      /\ ~Has(v, Eol) => Len(f) = Len(v)
      /\ ~Has(f, Eol)
  BY FirstLineIs
<1> HIDE DEF f
<1>2. /\ b \in Seq(Symbols) /\ Len(b) = Len(k) + 1 + Len(f)
      /\ \A i \in 1 .. Len(k) : b[i] = k[i]
      /\ b[Len(k) + 1] = Delimiter
      /\ \A i \in 1 .. Len(f) : b[Len(k) + 1 + i] = f[i]
  BY <1>1, BothIs
<1> HIDE DEF b
<1>3. /\ Both(k, v) \in Seq(Symbols) /\ Len(Both(k, v)) = Len(k) + 1 + Len(v)
      /\ \A i \in 1 .. Len(k) : Both(k, v)[i] = k[i]
      /\ Both(k, v)[Len(k) + 1] = Delimiter
      /\ \A i \in 1 .. Len(v) : Both(k, v)[Len(k) + 1 + i] = v[i]
  BY BothIs
<1>4. /\ line \in Seq(Symbols) /\ Len(line) = Len(Both(k, v)) + 1
      /\ \A i \in 1 .. Len(Both(k, v)) : line[i] = Both(k, v)[i]
      /\ line[Len(Both(k, v)) + 1] = Eol
  BY LineIs
<1> HIDE DEF line
<1>5. /\ Len(k) \in Nat /\ Len(v) \in Nat /\ Len(f) \in Nat /\ Len(f) <= Len(v)
      /\ DOMAIN k = 1 .. Len(k) /\ DOMAIN f = 1 .. Len(f) /\ n = Len(k) + 1 + Len(f)
  BY <1>1, <1>2
<1> HIDE DEF n
<1>6. ASSUME NEW j \in 1 .. n PROVE line[j] = b[j] /\ b[j] # Eol
  <2>1. line[j] = Both(k, v)[j]
    <3>1. j \in 1 .. Len(Both(k, v))
      BY <1>3, <1>5
    <3> QED
      BY <1>4, <3>1
  <2>2. CASE j <= Len(k)
    <3>1. j \in 1 .. Len(k)
      BY <1>5, <2>2
    <3>2. k[j] # Eol
      BY <1>5, <3>1 DEF Has
    <3> QED
      BY <1>2, <1>3, <2>1, <3>1, <3>2
  <2>3. CASE j = Len(k) + 1
    BY <1>2, <1>3, <2>1, <2>3, MarksOf
  <2>4. CASE j > Len(k) + 1
    <3>1. PICK i \in 1 .. Len(f) : Len(k) + 1 + i = j
      <4>1. j - (Len(k) + 1) \in 1 .. Len(f) /\ Len(k) + 1 + (j - (Len(k) + 1)) = j
        BY <1>5, <2>4
      <4> QED
        BY <4>1
    <3>2. i \in 1 .. Len(v)
      BY <1>5
    <3>3. b[j] = f[i] /\ Both(k, v)[j] = v[i] /\ f[i] = v[i]
      BY <1>1, <1>2, <1>3, <3>1, <3>2
    <3>4. f[i] # Eol
      BY <1>1, <1>5 DEF Has
    <3> QED
      BY <2>1, <3>3, <3>4
  <2> QED
    BY <1>5, <2>2, <2>3, <2>4
<1>7. n + 1 \in 1 .. Len(line) /\ line[n + 1] = Eol
  <2>1. CASE Has(v, Eol)
    <3>1. Len(f) + 1 \in 1 .. Len(v) /\ v[Len(f) + 1] = Eol
      BY <1>1, <2>1
    <3>2. Len(k) + 1 + (Len(f) + 1) = n + 1 /\ n + 1 \in 1 .. Len(Both(k, v))
      BY <1>3, <1>5, <3>1
    <3>3. Both(k, v)[n + 1] = Eol
      BY <1>3, <3>1, <3>2
    <3>4. n + 1 \in 1 .. Len(line)
      BY <1>3, <1>4, <1>5, <3>2
    <3> QED
      BY <1>4, <3>2, <3>3, <3>4
  <2>2. CASE ~Has(v, Eol)
    <3>1. n = Len(Both(k, v))
      BY <1>1, <1>3, <1>5, <2>2
    <3>2. line[n + 1] = Eol /\ Len(line) = n + 1
      BY <1>4, <3>1
    <3>3. n \in Nat
      BY <1>5
    <3>4. n + 1 \in 1 .. n + 1
      BY <3>3
    <3> QED
      BY <3>2, <3>4
  <2> QED
    BY <2>1, <2>2
<1>8. EndsBefore(line, 1, n + 1)
  <2>1. n + 1 \in 1 .. Len(line) + 1
    BY <1>4, <1>7
  <2>2. \A j \in 1 .. (n + 1) - 1 : line[j] # Eol
    <3>1. (n + 1) - 1 = n
      BY <1>5
    <3> QED
      BY <1>6, <3>1
  <2> QED
    BY <1>7, <2>1, <2>2 DEF EndsBefore
<1>9. /\ LineAt(line, 1) \in Seq(Symbols) /\ Len(LineAt(line, 1)) = n
      /\ \A j \in 1 .. n : LineAt(line, 1)[j] = line[j]
  <2>1. 1 \in 1 .. Len(line)
    BY <1>4, <1>5, <1>7
  <2>2. /\ LineAt(line, 1) \in Seq(Symbols) /\ Len(LineAt(line, 1)) = (n + 1) - 1
        /\ \A j \in 1 .. (n + 1) - 1 : LineAt(line, 1)[j] = line[1 + j - 1]
    BY <1>4, <1>8, <2>1, LineAtIs
  <2>3. (n + 1) - 1 = n /\ \A j \in 1 .. n : 1 + j - 1 = j
    BY <1>5
  <2> QED
    BY <2>2, <2>3
<1>10. LineAt(line, 1) = b
  <2>1. Len(b) = n /\ \A j \in 1 .. n : LineAt(line, 1)[j] = b[j]
    BY <1>6, <1>9 DEF n
  <2> QED
    BY <1>2, <1>9, <2>1, SeqEqual
<1> QED
  BY <1>10 DEF line, b, f

\* A pair whose line is one, and is read as it was written.
Simple(k, v) == ~Has(k, Delimiter) /\ ~Has(k, Eol) /\ ~Has(v, Eol)

LEMMA SimpleIsOneLine ==
  ASSUME NEW k \in Seq(Symbols), NEW v \in Seq(Symbols), Simple(k, v),
         NEW i \in LineStarts(Line(k, v))
  PROVE  i = 1
<1> DEFINE line == Line(k, v)
           b == Both(k, v)
<1>1. /\ b \in Seq(Symbols) /\ Len(b) = Len(k) + 1 + Len(v)
      /\ \A j \in 1 .. Len(k) : b[j] = k[j]
      /\ b[Len(k) + 1] = Delimiter
      /\ \A j \in 1 .. Len(v) : b[Len(k) + 1 + j] = v[j]
  BY BothIs
<1>2. /\ line \in Seq(Symbols) /\ Len(line) = Len(b) + 1
      /\ \A j \in 1 .. Len(b) : line[j] = b[j]
  BY LineIs
<1>3. i \in 1 .. Len(line) /\ (i = 1 \/ line[i - 1] = Eol)
  BY <1>2 DEF LineStarts
<1> HIDE DEF b, line
<1>4. /\ Len(k) \in Nat /\ Len(v) \in Nat /\ Len(b) \in Nat
      /\ DOMAIN k = 1 .. Len(k) /\ DOMAIN v = 1 .. Len(v)
  BY <1>1
<1> SUFFICES ASSUME i # 1 PROVE FALSE
  OBVIOUS
<1>5. PICK j \in 1 .. Len(b) : j = i - 1
  BY <1>2, <1>3, <1>4
<1>6. b[j] = Eol
  BY <1>2, <1>3, <1>5
<1>7. CASE j <= Len(k)
  <2>1. j \in 1 .. Len(k)
    BY <1>4, <1>7
  <2> QED
    BY <1>1, <1>4, <1>6, <2>1 DEF Simple, Has
<1>8. CASE j = Len(k) + 1
  BY <1>1, <1>6, <1>8, MarksOf
<1>9. CASE j > Len(k) + 1
  <2>1. j - (Len(k) + 1) \in 1 .. Len(v) /\ Len(k) + 1 + (j - (Len(k) + 1)) = j
    BY <1>1, <1>4, <1>9
  <2>2. PICK x \in 1 .. Len(v) : Len(k) + 1 + x = j
    BY <2>1
  <2> QED
    BY <1>1, <1>4, <1>6, <2>2 DEF Simple, Has
<1> QED
  BY <1>4, <1>7, <1>8, <1>9

\* The last line of the text, if any, ends.
EndsLine(text) == text = <<>> \/ text[Len(text)] = Eol

\* Line i of the text is the one at P[i] of what is written for K[i] and V[i], and each
\* is there once.
IsDump(text, K, V, P) ==
  /\ EndsLine(text)
  /\ K \in [LineStarts(text) -> Words] /\ V \in [LineStarts(text) -> Words]
  /\ \A i \in LineStarts(text) :
       /\ P[i] \in LineStarts(Line(K[i], V[i]))
       /\ LineAt(text, i) = LineAt(Line(K[i], V[i]), P[i])
  /\ \A i, j \in LineStarts(text) : K[i] = K[j] /\ P[i] = P[j] => i = j

\* text goes on where part ends.
GoesOnAs(part, text) == Len(part) <= Len(text) /\ \A j \in 1 .. Len(part) : part[j] = text[j]

\* A text that begins like another one has its lines, but for the end of the last.
LEMMA LinesOfPrefix ==
  ASSUME NEW text \in Seq(Symbols), NEW part \in Seq(Symbols), GoesOnAs(part, text),
         NEW i \in LineStarts(part)
  PROVE  /\ i \in LineStarts(text)
         /\ Len(LineAt(part, i)) <= Len(LineAt(text, i))
         /\ \A j \in 1 .. Len(LineAt(part, i)) : LineAt(part, i)[j] = LineAt(text, i)[j]
         /\ (\E e \in i .. Len(part) : part[e] = Eol) => LineAt(part, i) = LineAt(text, i)
<1>0. Len(part) <= Len(text) /\ \A j \in 1 .. Len(part) : part[j] = text[j]
  BY DEF GoesOnAs
<1>1. /\ i \in 1 .. Len(part) /\ i \in 1 .. Len(text) /\ Len(part) \in Nat /\ Len(text) \in Nat
      /\ DOMAIN text = 1 .. Len(text) /\ DOMAIN part = 1 .. Len(part)
  BY <1>0 DEF LineStarts
<1>2. i \in LineStarts(text)
  <2>1. i # 1 => i - 1 \in 1 .. Len(part)
    BY <1>1
  <2> QED
    BY <1>0, <1>1, <2>1 DEF LineStarts
<1>3. PICK c \in i .. Len(part) + 1 : EndsBefore(part, i, c)
  BY <1>1, LineEnds
<1>4. PICK d \in i .. Len(text) + 1 : EndsBefore(text, i, d)
  BY <1>1, LineEnds
<1>5. /\ LineAt(part, i) \in Seq(Symbols) /\ Len(LineAt(part, i)) = c - i
      /\ \A j \in 1 .. c - i : LineAt(part, i)[j] = part[i + j - 1]
  BY <1>1, <1>3, LineAtIs
<1>6. /\ LineAt(text, i) \in Seq(Symbols) /\ Len(LineAt(text, i)) = d - i
      /\ \A j \in 1 .. d - i : LineAt(text, i)[j] = text[i + j - 1]
  BY <1>1, <1>4, LineAtIs
<1>7. c \in Nat /\ d \in Nat /\ i <= c /\ i <= d /\ c <= Len(part) + 1 /\ d <= Len(text) + 1 /\ i \in Nat /\ 1 <= i
  BY <1>1
<1>8. c <= d
  <2> SUFFICES ASSUME d < c PROVE FALSE
    BY <1>7
  <2>1. d \in i .. c - 1 /\ d \in 1 .. Len(part) /\ d <= Len(text)
    BY <1>0, <1>1, <1>7
  <2>2. part[d] # Eol /\ text[d] = Eol
    BY <1>3, <1>4, <2>1 DEF EndsBefore
  <2> QED
    BY <1>0, <2>1, <2>2
<1>9. \A j \in 1 .. c - i : part[i + j - 1] = text[i + j - 1]
  <2> TAKE j \in 1 .. c - i
  <2>1. i + j - 1 \in 1 .. Len(part)
    BY <1>7
  <2> QED
    BY <1>0, <2>1
<1>10. \A j \in 1 .. c - i : LineAt(part, i)[j] = LineAt(text, i)[j]
  <2> TAKE j \in 1 .. c - i
  <2>1. j \in 1 .. d - i
    BY <1>7, <1>8
  <2> QED
    BY <1>5, <1>6, <1>9, <2>1
<1>11. ASSUME NEW e \in i .. Len(part), part[e] = Eol PROVE LineAt(part, i) = LineAt(text, i)
  <2>1. c <= Len(part)
    <3> SUFFICES ASSUME c = Len(part) + 1 PROVE FALSE
      BY <1>7
    <3>1. e \in i .. c - 1
      BY <1>1, <1>7
    <3> QED
      BY <1>3, <1>11, <3>1 DEF EndsBefore
  <2>2. text[c] = Eol
    <3>1. part[c] = Eol /\ c \in 1 .. Len(part)
      BY <1>3, <1>7, <2>1 DEF EndsBefore
    <3> QED
      BY <1>0, <3>1
  <2>3. ~(c < d)
    <3> SUFFICES ASSUME c < d PROVE FALSE
      OBVIOUS
    <3>1. c \in i .. d - 1
      BY <1>7
    <3> QED
      BY <1>4, <2>2, <3>1 DEF EndsBefore
  <2>4. c = d
    BY <1>7, <1>8, <2>3
  <2> QED
    BY <1>5, <1>6, <1>10, <2>4, SeqEqual
<1>12. c - i <= d - i
  BY <1>7, <1>8
<1> QED
  BY <1>2, <1>5, <1>6, <1>10, <1>11, <1>12

\* A line with a delimiter keeps its key when it goes on.
LEMMA KeyOfPrefix ==
  ASSUME NEW line \in Seq(Symbols), NEW part \in Seq(Symbols), Len(part) <= Len(line),
         \A j \in 1 .. Len(part) : part[j] = line[j], Has(part, Delimiter)
  PROVE  Has(line, Delimiter) /\ KeyOf(line) = KeyOf(part)
<1> DEFINE n == Find(part, Delimiter)
<1>1. n \in 1 .. Len(part) /\ part[n] = Delimiter /\ \A j \in 1 .. (n - 1) : part[j] # Delimiter
  BY FindFirst
<1> HIDE DEF n
<1>2. Len(part) \in Nat /\ Len(line) \in Nat
  OBVIOUS
<1>3. n \in 1 .. Len(line) /\ line[n] = Delimiter /\ \A j \in 1 .. (n - 1) : line[j] # Delimiter
  BY <1>1, <1>2
<1>4. Has(line, Delimiter) /\ Find(line, Delimiter) = n
  BY <1>3, FindIs
<1> DEFINE m == n - 1
<1>5. m \in 0 .. Len(part) /\ m \in 0 .. Len(line) /\ \A i \in 1 .. m : i \in 1 .. Len(part)
  BY <1>1, <1>2
<1> HIDE DEF m
<1>6. /\ UpTo(part, m) \in Seq(Symbols) /\ Len(UpTo(part, m)) = m
      /\ \A i \in 1 .. m : UpTo(part, m)[i] = part[i]
  BY <1>5, UpToIs
<1>7. /\ UpTo(line, m) \in Seq(Symbols) /\ Len(UpTo(line, m)) = m
      /\ \A i \in 1 .. m : UpTo(line, m)[i] = line[i]
  BY <1>5, UpToIs
<1>8. \A i \in 1 .. m : UpTo(line, m)[i] = UpTo(part, m)[i]
  BY <1>5, <1>6, <1>7
<1>9. UpTo(line, m) = UpTo(part, m)
  BY <1>6, <1>7, <1>8, SeqEqual
<1> QED
  BY <1>4, <1>9 DEF KeyOf, m, n

\* What the lines are written for is known.
AllKnown(text, K, V, pairs) ==
  \A i \in LineStarts(text) : <<K[i], V[i]>> \in pairs \/ Simple(K[i], V[i])

\* The line that looks like one of a plain key is the first of those that were written
\* for it, and has the first line of its value.
LEMMA PlainLines ==
  ASSUME NEW text \in Seq(Symbols), NEW K, NEW V, NEW P, IsDump(text, K, V, P), NEW pairs,
         AllKnown(text, K, V, pairs), NEW k, Plain(k, pairs), NEW i \in LineStarts(text)
  PROVE  /\ Has(LineAt(text, i), Delimiter) /\ KeyAt(text, i) = k <=> K[i] = k /\ P[i] = 1
         /\ K[i] = k /\ P[i] = 1 => ValueAt(text, i) = FirstLine(V[i])
<1> DEFINE line == Line(K[i], V[i])
<1>1. /\ K[i] \in Words /\ V[i] \in Words /\ P[i] \in LineStarts(line)
      /\ LineAt(text, i) = LineAt(line, P[i])
  BY DEF IsDump
<1>2. K[i] \in Seq(Symbols) /\ V[i] \in Seq(Symbols) /\ FirstLine(V[i]) \in Seq(Symbols)
  BY <1>1, FirstLineIs DEF Words
<1>3. ASSUME P[i] = 1, ~Has(K[i], Delimiter), ~Has(K[i], Eol)
      PROVE  /\ Has(LineAt(text, i), Delimiter)
             /\ KeyAt(text, i) = K[i] /\ ValueAt(text, i) = FirstLine(V[i])
  <2>1. LineAt(text, i) = Both(K[i], FirstLine(V[i]))
    BY <1>1, <1>2, <1>3, FirstOfLines
  <2> QED
    BY <1>2, <1>3, <2>1, BothIsRead DEF KeyAt, ValueAt
<1>4. ASSUME K[i] = k, P[i] = 1
      PROVE  /\ Has(LineAt(text, i), Delimiter) /\ KeyAt(text, i) = k
             /\ ValueAt(text, i) = FirstLine(V[i])
  <2>1. ~Has(K[i], Delimiter) /\ ~Has(K[i], Eol)
    BY <1>4 DEF Plain
  <2> QED
    BY <1>3, <1>4, <2>1
<1>5. ASSUME Has(LineAt(text, i), Delimiter), KeyAt(text, i) = k PROVE K[i] = k /\ P[i] = 1
  <2>1. CASE <<K[i], V[i]>> \in pairs
    <3>1. Has(LineAt(line, P[i]), Delimiter) /\ KeyOf(LineAt(line, P[i])) = k
      BY <1>1, <1>5 DEF KeyAt
    <3>2. PICK p \in pairs : p[1] = K[i] /\ p[2] = V[i]
      BY <2>1
    <3> HIDE DEF Plain
    <3>3. \A j \in LineStarts(Line(p[1], p[2])) :
            Has(LineAt(Line(p[1], p[2]), j), Delimiter) /\ KeyOf(LineAt(Line(p[1], p[2]), j)) = k
              => p[1] = k /\ j = 1
      BY Zenon DEF Plain
    <3> QED
      BY <1>1, <3>1, <3>2, <3>3
  <2>2. CASE Simple(K[i], V[i])
    <3>1. P[i] = 1
      BY <1>1, <1>2, <2>2, SimpleIsOneLine
    <3> QED
      BY <1>3, <1>5, <2>2, <3>1 DEF Simple
  <2> QED
    BY <2>1, <2>2 DEF AllKnown
<1> QED
  BY <1>4, <1>5

\* The lines of t are those of text and behind them those of more.
Behind(text, more, t) ==
  /\ t \in Seq(Symbols) /\ Len(t) = Len(text) + Len(more)
  /\ LineStarts(t) = LineStarts(text) \cup {Len(text) + p : p \in LineStarts(more)}
  /\ \A i \in LineStarts(text) : LineAt(t, i) = LineAt(text, i)
  /\ \A p \in LineStarts(more) : LineAt(t, Len(text) + p) = LineAt(more, p)

\* A text behind one that ends with a line begins new lines.
LEMMA LinesBehind ==
  ASSUME NEW text \in Seq(Symbols), EndsLine(text),
         NEW more \in Seq(Symbols), NEW t, t = text \o more
  PROVE  Behind(text, more, t)
<1> USE DEF EndsLine
<1> DEFINE n == Len(text)
<1>1. /\ t \in Seq(Symbols) /\ Len(t) = n + Len(more)
      /\ \A i \in 1 .. n : t[i] = text[i]
      /\ \A i \in 1 .. Len(more) : t[n + i] = more[i]
  BY ConcatIs
<1>2. /\ n \in Nat /\ Len(more) \in Nat /\ DOMAIN text = 1 .. n /\ DOMAIN more = 1 .. Len(more)
      /\ DOMAIN t = 1 .. n + Len(more)
      /\ n = 0 \/ (n \in 1 .. n /\ text[n] = Eol)
  BY <1>1
<1> HIDE DEF n
<1>3. ASSUME NEW i \in LineStarts(t) PROVE i \in LineStarts(text) \/ \E p \in LineStarts(more) : i = n + p
  <2>1. i \in 1 .. n + Len(more) /\ (i = 1 \/ t[i - 1] = Eol)
    BY <1>2 DEF LineStarts
  <2>2. CASE i <= n
    <3>1. i \in 1 .. n /\ (i # 1 => i - 1 \in 1 .. n)
      BY <1>2, <2>1, <2>2
    <3> QED
      BY <1>1, <1>2, <2>1, <3>1 DEF LineStarts
  <2>3. CASE i > n
    <3>1. PICK p \in 1 .. Len(more) : i = n + p
      <4>1. i - n \in 1 .. Len(more) /\ i = n + (i - n)
        BY <1>2, <2>1, <2>3
      <4> QED
        BY <4>1
    <3>2. p = 1 \/ more[p - 1] = Eol
      <4> SUFFICES ASSUME p # 1 PROVE more[p - 1] = Eol
        OBVIOUS
      <4>1. p - 1 \in 1 .. Len(more) /\ n + (p - 1) = i - 1 /\ i # 1
        BY <1>2, <3>1
      <4> QED
        BY <1>1, <2>1, <4>1
    <3> QED
      BY <1>2, <3>1, <3>2 DEF LineStarts
  <2> QED
    BY <1>2, <2>1, <2>2, <2>3
<1>4. ASSUME NEW i \in LineStarts(text) PROVE i \in LineStarts(t)
  <2>1. i \in 1 .. n /\ (i = 1 \/ text[i - 1] = Eol)
    BY <1>2 DEF LineStarts
  <2>2. i \in 1 .. n + Len(more) /\ (i # 1 => i - 1 \in 1 .. n)
    BY <1>2, <2>1
  <2> QED
    BY <1>1, <1>2, <2>1, <2>2 DEF LineStarts
<1>5. ASSUME NEW p \in LineStarts(more) PROVE n + p \in LineStarts(t)
  <2>1. p \in 1 .. Len(more) /\ (p = 1 \/ more[p - 1] = Eol)
    BY <1>2 DEF LineStarts
  <2>2. n + p \in 1 .. n + Len(more)
    BY <1>2, <2>1
  <2>3. CASE p # 1
    <3>1. p - 1 \in 1 .. Len(more) /\ n + (p - 1) = (n + p) - 1
      BY <1>2, <2>1, <2>3
    <3> QED
      BY <1>1, <1>2, <2>1, <2>2, <2>3, <3>1 DEF LineStarts
  <2>4. CASE p = 1 /\ n = 0
    BY <1>2, <2>2, <2>4 DEF LineStarts
  <2>5. CASE p = 1 /\ n # 0
    <3>1. n \in 1 .. n /\ text[n] = Eol /\ (n + p) - 1 = n
      BY <1>2, <2>5
    <3> QED
      BY <1>1, <1>2, <2>2, <3>1 DEF LineStarts
  <2> QED
    BY <2>3, <2>4, <2>5
<1>6. LineStarts(t) = LineStarts(text) \cup {n + p : p \in LineStarts(more)}
  BY <1>3, <1>4, <1>5
<1>7. ASSUME NEW i \in LineStarts(text) PROVE LineAt(t, i) = LineAt(text, i)
  <2>1. n \in i .. n /\ text[n] = Eol
    <3>1. i \in 1 .. n
      BY <1>2 DEF LineStarts
    <3> QED
      BY <1>2, <3>1
  <2>2. \E e \in i .. Len(text) : text[e] = Eol
    BY <2>1 DEF n
  <2>3. GoesOnAs(text, t)
    BY <1>1, <1>2 DEF GoesOnAs, n
  <2> QED
    BY <1>1, <1>7, <2>2, <2>3, LinesOfPrefix
<1>8. ASSUME NEW p \in LineStarts(more) PROVE LineAt(t, n + p) = LineAt(more, p)
  <2>1. p \in 1 .. Len(more) /\ p \in Nat /\ n + p \in 1 .. Len(t)
    BY <1>1, <1>2 DEF LineStarts
  <2>2. PICK e \in p .. Len(more) + 1 : EndsBefore(more, p, e)
    BY <2>1, LineEnds
  <2>3. /\ e \in Nat /\ p <= e /\ \A j \in p .. e - 1 : more[j] # Eol
        /\ e <= Len(more) => more[e] = Eol
    BY <2>1, <2>2 DEF EndsBefore
  <2>4. EndsBefore(t, n + p, n + e)
    <3>1. n + e \in n + p .. Len(t) + 1
      BY <1>1, <1>2, <2>1, <2>2
    <3>2. ASSUME NEW j \in n + p .. (n + e) - 1 PROVE t[j] # Eol
      <4>1. j - n \in p .. e - 1 /\ j - n \in 1 .. Len(more) /\ n + (j - n) = j
        BY <1>2, <2>1, <2>2
      <4>2. t[n + (j - n)] = more[j - n]
        BY <1>1, <4>1
      <4> QED
        BY <2>3, <4>1, <4>2
    <3>3. ASSUME n + e <= Len(t) PROVE t[n + e] = Eol
      <4>1. e <= Len(more) /\ e \in 1 .. Len(more)
        BY <1>1, <1>2, <2>1, <2>3, <3>3
      <4> QED
        BY <1>1, <2>3, <4>1
    <3> QED
      BY <3>1, <3>2, <3>3 DEF EndsBefore
  <2>5. /\ LineAt(more, p) \in Seq(Symbols) /\ Len(LineAt(more, p)) = e - p
        /\ \A j \in 1 .. e - p : LineAt(more, p)[j] = more[p + j - 1]
    BY <2>1, <2>2, LineAtIs
  <2>6. /\ LineAt(t, n + p) \in Seq(Symbols) /\ Len(LineAt(t, n + p)) = (n + e) - (n + p)
        /\ \A j \in 1 .. (n + e) - (n + p) : LineAt(t, n + p)[j] = t[(n + p) + j - 1]
    <3>1. PICK i \in 1 .. Len(t) : i = n + p
      BY <2>1
    <3>d. PICK d : d = n + e
      OBVIOUS
    <3>2. /\ LineAt(t, i) \in Seq(Symbols) /\ Len(LineAt(t, i)) = d - i
          /\ \A j \in 1 .. d - i : LineAt(t, i)[j] = t[i + j - 1]
      <4>1. EndsBefore(t, i, d)
        BY <2>4, <3>1, <3>d
      <4> QED
        BY <1>1, <4>1, LineAtIs
    <3> QED
      BY <3>1, <3>d, <3>2, Zenon
  <2>7. (n + e) - (n + p) = e - p
    BY <1>2, <2>1, <2>3
  <2>8. ASSUME NEW j \in 1 .. e - p PROVE t[(n + p) + j - 1] = more[p + j - 1]
    <3>1. p + j - 1 \in 1 .. Len(more) /\ (n + p) + j - 1 = n + (p + j - 1)
      BY <1>2, <2>1, <2>2
    <3> QED
      BY <1>1, <3>1
  <2>9. \A j \in 1 .. e - p : LineAt(t, n + p)[j] = LineAt(more, p)[j]
    BY <2>5, <2>6, <2>7, <2>8
  <2> QED
    BY <2>5, <2>6, <2>7, <2>9, SeqEqual
<1> QED
  BY <1>1, <1>6, <1>7, <1>8, Zenon DEF Behind, n

\* KK, VV and PP go on where K, V and P end, with the lines for k and v.
Grows(text, K, V, P, k, v, KK, VV, PP) ==
  LET fresh == LineStarts(Line(k, v))
      D == LineStarts(text) \cup {Len(text) + p : p \in fresh}
  IN /\ KK \in [D -> Words] /\ VV \in [D -> Words]
     /\ \A i \in LineStarts(text) : KK[i] = K[i] /\ VV[i] = V[i] /\ PP[i] = P[i]
     /\ \A p \in fresh : KK[Len(text) + p] = k /\ VV[Len(text) + p] = v /\ PP[Len(text) + p] = p

\* A dump grows by the lines for a key it has not named yet.
LEMMA DumpGrows ==
  ASSUME NEW text \in Seq(Symbols), NEW K, NEW V, NEW P, IsDump(text, K, V, P),
         NEW k \in Words, NEW v \in Words, \A i \in LineStarts(text) : K[i] # k,
         NEW KK, NEW VV, NEW PP, Grows(text, K, V, P, k, v, KK, VV, PP),
         NEW t, t = text \o Line(k, v)
  PROVE  /\ LineStarts(t) = LineStarts(text) \cup {Len(text) + p : p \in LineStarts(Line(k, v))}
         /\ IsDump(t, KK, VV, PP)
<1> DEFINE line == Line(k, v)
           n == Len(text)
           A == LineStarts(line)
           D == LineStarts(text) \cup {n + p : p \in A}
<1>1. k \in Seq(Symbols) /\ v \in Seq(Symbols)
  BY DEF Words
<1>2. line \in Seq(Symbols) /\ Len(line) \in 1 .. Len(line) /\ line[Len(line)] = Eol
  <2>1. Both(k, v) \in Seq(Symbols)
    BY <1>1, BothIs
  <2>2. Len(Both(k, v)) \in Nat
    BY <2>1
  <2>3. line \in Seq(Symbols) /\ Len(line) = Len(Both(k, v)) + 1 /\ line[Len(Both(k, v)) + 1] = Eol
    BY <1>1, LineIs
  <2> HIDE DEF line
  <2> QED
    BY <2>2, <2>3
<1>3. EndsLine(text)
  BY DEF IsDump
<1>4. /\ t \in Seq(Symbols) /\ Len(t) = n + Len(line)
      /\ LineStarts(t) = D
      /\ \A i \in LineStarts(text) : LineAt(t, i) = LineAt(text, i)
      /\ \A p \in A : LineAt(t, n + p) = LineAt(line, p)
  <2>1. line \in Seq(Symbols) /\ t = text \o line
    BY <1>2
  <2> HIDE DEF line
  <2>2. Behind(text, line, t)
    BY <1>3, <2>1, LinesBehind
  <2> QED
    BY <2>2, Zenon DEF Behind, n, A, D
<1>5. t[Len(t)] = Eol
  <2>1. t[n + Len(line)] = line[Len(line)]
    <3>1. line \in Seq(Symbols) /\ t = text \o line /\ Len(line) \in 1 .. Len(line)
      BY <1>2
    <3> HIDE DEF line
    <3> QED
      BY <3>1, ConcatIs
  <2> QED
    BY <1>2, <1>4, <2>1
<1>6. /\ KK \in [D -> Words] /\ VV \in [D -> Words]
      /\ \A i \in LineStarts(text) : KK[i] = K[i] /\ VV[i] = V[i] /\ PP[i] = P[i]
      /\ \A p \in A : KK[n + p] = k /\ VV[n + p] = v /\ PP[n + p] = p
  BY Zenon DEF Grows
<1>7. ASSUME NEW i \in D
      PROVE  /\ PP[i] \in LineStarts(Line(KK[i], VV[i]))
             /\ LineAt(t, i) = LineAt(Line(KK[i], VV[i]), PP[i])
  <2>1. CASE i \in LineStarts(text)
    BY <1>4, <1>6, <2>1 DEF IsDump
  <2>2. ASSUME NEW p \in A, i = n + p
        PROVE  /\ PP[i] \in LineStarts(Line(KK[i], VV[i]))
               /\ LineAt(t, i) = LineAt(Line(KK[i], VV[i]), PP[i])
    BY <1>4, <1>6, <2>2
  <2> QED
    BY <2>1, <2>2
<1>8. ASSUME NEW i \in D, NEW j \in D, KK[i] = KK[j], PP[i] = PP[j] PROVE i = j
  <2>1. CASE i \in LineStarts(text) /\ j \in LineStarts(text)
    BY <1>6, <1>8, <2>1 DEF IsDump
  <2>2. CASE i \in LineStarts(text) /\ j \notin LineStarts(text)
    BY <1>6, <1>8, <2>2
  <2>3. CASE i \notin LineStarts(text) /\ j \in LineStarts(text)
    BY <1>6, <1>8, <2>3
  <2>4. CASE i \notin LineStarts(text) /\ j \notin LineStarts(text)
    <3>1. PICK p \in A, q \in A : i = n + p /\ j = n + q
      BY <2>4
    <3> QED
      BY <1>6, <1>8, <3>1
  <2> QED
    BY <2>1, <2>2, <2>3, <2>4
<1> HIDE DEF D, A, n, line
<1>9. IsDump(t, KK, VV, PP)
  BY <1>4, <1>5, <1>6, <1>7, <1>8 DEF IsDump, EndsLine
<1> QED
  BY <1>4, <1>9 DEF D, A, n, line

\* A dump has behind it the keys that come before its node.
Passed(k, n) == n = End \/ Before(k, n)

LEMMA PassedAfter ==
  ASSUME KeysOK, NEW k \in Seq(Symbols), NEW x \in DOMAIN db, Passed(x, KeyAfter(k))
  PROVE  x = k \/ Before(x, k)
<1>1. x \in Seq(Symbols) /\ KeyAfter(k) \in Seq(Symbols)
  BY NextNode DEF KeysOK
<1> SUFFICES ASSUME x # k, ~Before(x, k) PROVE FALSE
  OBVIOUS
<1>2. Before(k, x)
  BY <1>1, BeforeTotal
<1>3. KeyAfter(k) # End /\ (x = KeyAfter(k) \/ Before(KeyAfter(k), x))
  BY <1>2, NextNode
<1>4. Before(x, KeyAfter(k))
  BY <1>3 DEF Passed
<1> QED
  BY <1>1, <1>3, <1>4, BeforeTransitive, BeforeIrreflexive

LEMMA PassedAtFirst ==
  ASSUME KeysOK, NEW x \in DOMAIN db
  PROVE  ~Passed(x, FirstNode)
<1>1. x \in Seq(Symbols) /\ FirstNode \in Seq(Symbols)
  BY FirstNodeOf DEF KeysOK
<1>2. FirstNode # End /\ (x = FirstNode \/ Before(FirstNode, x))
  BY FirstNodeOf
<1> SUFFICES ASSUME Before(x, FirstNode) PROVE FALSE
  BY <1>2 DEF Passed
<1> QED
  BY <1>1, <1>2, BeforeTransitive, BeforeIrreflexive

\* What a dump that stands on node n has said, h being the values that Watched had
\* meanwhile and pairs those that commands insert.
Written(text, K, V, P, n, h, pairs) ==
  /\ IsDump(text, K, V, P)
  /\ \A i \in LineStarts(text) :
       /\ Passed(K[i], n)
       /\ <<K[i], V[i]>> \in pairs \/ Simple(K[i], V[i])
       /\ K[i] = Watched => V[i] \in h
  /\ Passed(Watched, n) /\ (\A i \in LineStarts(text) : ~(K[i] = Watched /\ P[i] = 1)) => <<>> \in h

\* The dump of a list that has not changed.
Agrees(text, K, V, P, n, map) ==
  /\ \A i \in LineStarts(text) : K[i] \in DOMAIN map /\ V[i] = map[K[i]]
  /\ \A x \in DOMAIN map : Passed(x, n) => \E i \in LineStarts(text) : K[i] = x /\ P[i] = 1

\* What is written for a pair is not empty, and so has a first line.
LEMMA LineHasFirst ==
  ASSUME NEW k \in Seq(Symbols), NEW v \in Seq(Symbols)
  PROVE  Line(k, v) \in Seq(Symbols) /\ 1 \in LineStarts(Line(k, v))
<1> DEFINE b == Both(k, v)
           line == Line(k, v)
<1>1. b \in Seq(Symbols)
  BY BothIs
<1>2. line \in Seq(Symbols) /\ Len(line) = Len(b) + 1
  BY LineIs
<1> HIDE DEF b, line
<1>3. Len(b) \in Nat /\ DOMAIN line = 1 .. Len(line)
  BY <1>1, <1>2
<1>4. 1 \in DOMAIN line
  BY <1>2, <1>3
<1>5. 1 \in LineStarts(line)
  BY <1>4 DEF LineStarts
<1> QED
  BY <1>2, <1>5 DEF line

\* Functions that go on where K, V and P end.
LEMMA CanGrow ==
  ASSUME NEW text \in Seq(Symbols), NEW K, NEW V, NEW P, IsDump(text, K, V, P),
         NEW k \in Words, NEW v \in Words
  PROVE  \E KK, VV, PP : Grows(text, K, V, P, k, v, KK, VV, PP)
<1> DEFINE fresh == LineStarts(Line(k, v))
           starts == LineStarts(text)
           n == Len(text)
           D == starts \cup {n + p : p \in fresh}
           KK == [i \in D |-> IF i \in starts THEN K[i] ELSE k]
           VV == [i \in D |-> IF i \in starts THEN V[i] ELSE v]
           PP == [i \in D |-> IF i \in starts THEN P[i] ELSE i - n]
<1>1. K \in [starts -> Words] /\ V \in [starts -> Words]
  BY DEF IsDump
<1>2. KK \in [D -> Words] /\ VV \in [D -> Words]
  <2> HIDE DEF fresh, starts
  <2> QED
    BY <1>1
<1>3. n \in Nat /\ \A i \in starts : i <= n
  BY DEF LineStarts
<1>4. fresh \subseteq Nat \ {0}
  BY DEF LineStarts
<1>5. \A p \in fresh : n + p \notin starts /\ n + p \in D /\ (n + p) - n = p
  <2> HIDE DEF n, starts, fresh
  <2>1. \A p \in fresh : n + p > n /\ (n + p) - n = p
    BY <1>3, <1>4
  <2> QED
    BY <1>3, <1>4, <2>1
<1> HIDE DEF n, starts, fresh
<1>6. \A i \in starts : i \in D /\ KK[i] = K[i] /\ VV[i] = V[i] /\ PP[i] = P[i]
  OBVIOUS
<1>7. \A p \in fresh : KK[n + p] = k /\ VV[n + p] = v /\ PP[n + p] = p
  BY <1>5
<1> HIDE DEF KK, VV, PP
<1>8. Grows(text, K, V, P, k, v, KK, VV, PP)
  BY <1>2, <1>6, <1>7, Zenon DEF Grows, n, starts, fresh
<1> QED
  BY <1>8

\* The line of the node is fresh, and the dump goes on to the next one.
LEMMA DumpAdvances ==
  ASSUME ListOK, NEW text \in Seq(Symbols), NEW K, NEW V, NEW P, NEW h, NEW pairs,
         NEW k \in DOMAIN db, Written(text, K, V, P, k, h, pairs),
         ValueIn(db, Watched) \in h, <<k, db[k]>> \in pairs \/ Simple(k, db[k]),
         NEW t, t = text \o Line(k, db[k])
  PROVE  \E KK, VV, PP :
           /\ Written(t, KK, VV, PP, KeyAfter(k), h, pairs)
           /\ Agrees(text, K, V, P, k, db) => Agrees(t, KK, VV, PP, KeyAfter(k), db)
<1>1. KeysOK /\ k \in Words /\ db[k] \in Words /\ k \in Seq(Symbols) /\ k # End
  BY DEF ListOK, PairsOK, KeysOK, Words, End
<1>2. /\ KeyAfter(k) \in Seq(Symbols)
      /\ KeyAfter(k) # End => Before(k, KeyAfter(k))
  BY <1>1, NextNode
<1>3. IsDump(text, K, V, P)
  BY DEF Written
<1>4. \A i \in LineStarts(text) : K[i] \in Seq(Symbols) /\ Before(K[i], k)
  BY <1>1, <1>3 DEF Written, Passed, IsDump, Words
<1>5. \A i \in LineStarts(text) : K[i] # k
  BY <1>1, <1>4, BeforeIrreflexive
<1>v. PICK v \in Words : v = db[k]
  BY <1>1
<1>a. PICK fresh : fresh = LineStarts(Line(k, v))
  OBVIOUS
<1>K. PICK KK, VV, PP : Grows(text, K, V, P, k, v, KK, VV, PP)
  BY <1>1, <1>3, CanGrow
<1>D. PICK D : D = LineStarts(text) \cup {Len(text) + p : p \in fresh}
  OBVIOUS
<1>6. LineStarts(t) = D /\ IsDump(t, KK, VV, PP)
  <2>1. t = text \o Line(k, v)
    BY <1>v
  <2>2. /\ LineStarts(t) = LineStarts(text) \cup {Len(text) + p : p \in LineStarts(Line(k, v))}
        /\ IsDump(t, KK, VV, PP)
    BY <1>1, <1>3, <1>5, <1>K, <2>1, DumpGrows
  <2> QED
    BY <1>a, <1>D, <2>2
<1>b. PICK b \in D : KK[b] = k /\ PP[b] = 1
  <2>1. 1 \in fresh
    BY <1>1, <1>v, <1>a, LineHasFirst DEF Words
  <2>2. Len(text) + 1 \in D
    BY <1>D, <2>1
  <2>3. KK[Len(text) + 1] = k /\ PP[Len(text) + 1] = 1
    BY <1>a, <1>K, <2>1 DEF Grows
  <2> QED
    BY <2>2, <2>3
<1>7. /\ \A i \in LineStarts(text) : i \in D /\ KK[i] = K[i] /\ VV[i] = V[i] /\ PP[i] = P[i]
      /\ \A i \in D : i \in LineStarts(text) \/ (KK[i] = k /\ VV[i] = db[k])
  <2>1. /\ \A i \in LineStarts(text) : KK[i] = K[i] /\ VV[i] = V[i] /\ PP[i] = P[i]
        /\ \A p \in fresh : KK[Len(text) + p] = k /\ VV[Len(text) + p] = v
    BY <1>a, <1>K, Zenon DEF Grows
  <2> QED
    BY <1>v, <1>D, <2>1
<1>8. Passed(k, KeyAfter(k)) /\ \A i \in LineStarts(text) : Passed(K[i], KeyAfter(k))
  BY <1>1, <1>2, <1>4, BeforeTransitive DEF Passed
<1>9. Written(t, KK, VV, PP, KeyAfter(k), h, pairs)
  <2>1. ASSUME NEW i \in D
        PROVE  /\ Passed(KK[i], KeyAfter(k))
               /\ <<KK[i], VV[i]>> \in pairs \/ Simple(KK[i], VV[i])
               /\ KK[i] = Watched => VV[i] \in h
    <3>1. CASE KK[i] = k /\ VV[i] = db[k]
      <4>1. k = Watched => db[k] \in h
        BY DEF ValueIn
      <4> QED
        BY <1>8, <3>1, <4>1
    <3>2. CASE i \in LineStarts(text)
      <4>1. KK[i] = K[i] /\ VV[i] = V[i]
        BY <1>7, <3>2
      <4> QED
        BY <1>8, <3>2, <4>1 DEF Written
    <3> QED
      BY <1>7, <2>1, <3>1, <3>2
  <2>2. ASSUME Passed(Watched, KeyAfter(k)), \A i \in D : ~(KK[i] = Watched /\ PP[i] = 1)
        PROVE  <<>> \in h
    <3>1. k # Watched /\ \A i \in LineStarts(text) : ~(K[i] = Watched /\ P[i] = 1)
      BY <1>b, <1>7, <2>2
    <3>2. CASE Watched \notin DOMAIN db
      BY <3>2 DEF ValueIn
    <3>3. CASE Watched \in DOMAIN db
      <4>1. Before(Watched, k)
        BY <1>1, <2>2, <3>1, <3>3, PassedAfter
      <4> QED
        BY <3>1, <4>1 DEF Written, Passed
    <3> QED
      BY <3>2, <3>3
  <2> QED
    BY <1>6, <2>1, <2>2 DEF Written
<1>10. ASSUME Agrees(text, K, V, P, k, db) PROVE Agrees(t, KK, VV, PP, KeyAfter(k), db)
  <2>1. ASSUME NEW i \in D PROVE KK[i] \in DOMAIN db /\ VV[i] = db[KK[i]]
    BY <1>7, <1>10, <2>1 DEF Agrees
  <2>2. ASSUME NEW x \in DOMAIN db, Passed(x, KeyAfter(k))
        PROVE  \E i \in D : KK[i] = x /\ PP[i] = 1
    <3>1. x = k \/ Before(x, k)
      BY <1>1, <2>2, PassedAfter
    <3>2. CASE Before(x, k)
      <4>1. PICK i \in LineStarts(text) : K[i] = x /\ P[i] = 1
        BY <1>10, <3>2 DEF Agrees, Passed
      <4> QED
        BY <1>7, <4>1
    <3> QED
      BY <1>b, <3>1, <3>2
  <2> QED
    BY <1>6, <2>1, <2>2 DEF Agrees
<1> QED
  BY <1>9, <1>10

\* A dump that has written nothing.
LEMMA DumpIsEmpty ==
  ASSUME ListOK, NEW h, ValueIn(db, Watched) \in h, NEW pairs
  PROVE  /\ Written(<<>>, <<>>, <<>>, <<>>, FirstNode, h, pairs)
         /\ Agrees(<<>>, <<>>, <<>>, <<>>, FirstNode, db)
<1>1. KeysOK
  BY DEF ListOK, PairsOK, KeysOK, Words
<1>2. LineStarts(<<>>) = {}
  BY DEF LineStarts
<1>3. <<>> \in [{} -> Words]
  OBVIOUS
<1>4. IsDump(<<>>, <<>>, <<>>, <<>>)
  BY <1>2, <1>3 DEF IsDump, EndsLine
<1>5. Passed(Watched, FirstNode) => <<>> \in h
  BY <1>1, PassedAtFirst DEF ValueIn
<1> QED
  BY <1>1, <1>2, <1>4, <1>5, PassedAtFirst DEF Written, Agrees

\* A pair of which it is known what its line looks like: one that a command inserts, or
\* one that comes from a line.
Known(k, v) == <<k, v>> \in Settable \/ Simple(k, v)

SettableOK ==
  /\ \A k \in DOMAIN db : Known(k, db[k])
  /\ \A l \in Loops : cmd[l] \in {"SET", "LOAD"} => Known(key[l], value[l])

\* A DUMP that no other overlaps and that has opened the file has written, or still
\* holds back, one line for every key it has passed.
DumpOK ==
  \A l \in Loops : pc[l] \in {"dump", "dumped"} /\ overlap[l] \notin {"mixed", "failed"} =>
    /\ pc[l] = "dump" => writer.open /\ ~writer.fail /\ ValueIn(db, Watched) \in had[l]
    /\ pc[l] = "dumped" => node[l] = End /\ writer.buf = <<>>
    /\ \E K, V, P :
         /\ Written(file \o writer.buf, K, V, P, node[l], had[l], Settable)
         /\ overlap[l] = "quiet" => Agrees(file \o writer.buf, K, V, P, node[l], db)

\* One that has not opened the file writes nothing.
NothingDumped ==
  \A l \in Loops : pc[l] \in {"dump", "dumped"} /\ overlap[l] = "failed" =>
    /\ file = kept[l]
    /\ pc[l] = "dump" => ~writer.open /\ writer.buf = <<>>

\* The scenario stays, and so does what commands insert.
LEMMA SettableStays ==
  ASSUME NEW m \in Loops, Moves(m)
  PROVE  sends' = sends /\ Settable' = Settable
<1>1. GoesOn(m) => sends' = sends
  <2>1. CASE InsertNew(m) \/ BeginAssign(m) \/ EndAssign(m) \/ Delete(m) \/ AddSearch(m)
    BY <2>1 DEF InsertNew, BeginAssign, EndAssign, Delete, AddSearch
  <2>2. CASE AddThrows(m) \/ EndSearch(m) \/ Get(m) \/ WriteNode(m) \/ CloseWriter(m)
    BY <2>2 DEF AddThrows, EndSearch, Get, WriteNode, CloseWriter
  <2>3. CASE Wander(m) \/ GetLine(m) \/ CloseReader(m) \/ AnswerOk(m)
    BY <2>3, Zenon DEF Wander, GetLine, CloseReader, AnswerOk
  <2> QED
    BY <2>1, <2>2, <2>3, Zenon DEF GoesOn
<1>2. ASSUME NEW words \in sends[m], Begins(m, words) PROVE sends' = sends
  BY <1>2 DEF Begins, ReadSet, ReadDel, ReadGet, OpenWriter, OpenReader
<1>3. sends' = sends
  BY <1>1, <1>2 DEF Moves
<1> QED
  BY <1>3 DEF Settable

\* A key that a line gives has no delimiter in it, and what a line gives no line end.
LEMMA LineIsSimple ==
  ASSUME NEW line \in Seq(Symbols), Has(line, Delimiter), ~Has(line, Eol)
  PROVE  Simple(KeyOf(line), ValueOf(line))
<1> DEFINE n == Find(line, Delimiter)
           m == n - 1
<1>1. n \in 1 .. Len(line) /\ \A j \in 1 .. (n - 1) : line[j] # Delimiter
  BY FindFirst
<1>2. m \in 0 .. Len(line) /\ n \in 0 .. Len(line)
  BY <1>1
<1>3. \A j \in 1 .. m : line[j] # Delimiter
  BY <1>1
<1> HIDE DEF n, m
<1>4. \A j \in 1 .. Len(line) : line[j] # Eol
  BY DEF Has
<1>5. /\ UpTo(line, m) \in Seq(Symbols) /\ Len(UpTo(line, m)) = m
      /\ \A i \in 1 .. m : UpTo(line, m)[i] = line[i]
  BY <1>2, UpToIs
<1>6. \A i \in DOMAIN UpTo(line, m) : i \in 1 .. m /\ i \in 1 .. Len(line)
  BY <1>2, <1>5
<1>7. ~Has(UpTo(line, m), Delimiter) /\ ~Has(UpTo(line, m), Eol)
  BY <1>3, <1>4, <1>5, <1>6 DEF Has
<1>8. /\ From(line, n + 1) \in Seq(Symbols) /\ Len(From(line, n + 1)) = Len(line) - n
      /\ \A i \in 1 .. Len(line) - n : From(line, n + 1)[i] = line[n + i]
  BY <1>2, RestIs
<1>9. \A i \in DOMAIN From(line, n + 1) : i \in 1 .. Len(line) - n /\ n + i \in 1 .. Len(line)
  BY <1>2, <1>8
<1>10. ~Has(From(line, n + 1), Eol)
  BY <1>4, <1>8, <1>9 DEF Has
<1> QED
  BY <1>7, <1>10 DEF Simple, KeyOf, ValueOf, m, n

LEMMA SettableHolds ==
  ASSUME ServerOK, SettableOK, NEW m \in Loops, Moves(m)
  PROVE  SettableOK'
<1>1. Settable' = Settable
  BY SettableStays
<1>2. /\ ListOK /\ StreamsOK /\ Fits(pc[m], cmd[m])
      /\ key \in [Loops -> Seq(Symbols)] /\ value \in [Loops -> Seq(Symbols)]
      /\ cmd \in [Loops -> Commands]
      /\ pc[m] \in {"insert", "assign"} => key[m] \in Words /\ value[m] \in Words
      /\ pc[m] = "idle" => key[m] = <<>> /\ value[m] = <<>>
  BY DEF ServerOK, HandlersOK
<1>3. \A l \in Loops \ {m} : key'[l] = key[l] /\ value'[l] = value[l] /\ cmd'[l] = cmd[l]
  BY OthersStay
<1> DEFINE OldPairs == \A k \in DOMAIN db' : /\ k \in DOMAIN db /\ db'[k] = db[k]
           NewPair == /\ cmd[m] \in {"SET", "LOAD"}
                      /\ \A k \in DOMAIN db' : \/ k \in DOMAIN db /\ db'[k] = db[k]
                                               \/ k = key[m] /\ db'[k] = value[m]
<1>5. ASSUME OldPairs \/ NewPair,
             \/ cmd'[m] \notin {"SET", "LOAD"} \/ Known(key'[m], value'[m])
             \/ key'[m] = key[m] /\ value'[m] = value[m] /\ cmd'[m] = cmd[m]
      PROVE  SettableOK'
  <2>1. \A k \in DOMAIN db' : Known(k, db'[k])
    BY <1>5 DEF SettableOK
  <2>2. \A l \in Loops : cmd'[l] \in {"SET", "LOAD"} => Known(key'[l], value'[l])
    BY <1>3, <1>5 DEF SettableOK
  <2>3. \A k, v : Known(k, v)' <=> Known(k, v)
    BY <1>1 DEF Known
  <2> QED
    BY <1>1, <2>1, <2>2 DEF SettableOK, Known
<1>6. ASSUME NEW words \in sends[m], Begins(m, words) PROVE SettableOK'
  <2>1. db' = db
    BY <1>6 DEF Begins, ReadSet, ReadDel, ReadGet, OpenWriter, OpenReader
  <2>2. CASE ReadSet(m, words)
    <3>1. key'[m] = words[2] /\ value'[m] = words[3] /\ Is(words, "SET")
      BY <1>2, <2>2 DEF ReadSet, Reads
    <3>2. <<words[2], words[3]>> \in Settable
      BY <3>1 DEF Settable
    <3> QED
      BY <1>5, <2>1, <3>1, <3>2 DEF Known
  <2>3. CASE ReadDel(m, words) \/ ReadGet(m, words) \/ OpenWriter(m, words)
    <3>1. cmd'[m] \in {"DEL", "GET", "DUMP"}
      BY <1>2, <2>3 DEF ReadDel, ReadGet, OpenWriter, Reads
    <3> QED
      BY <1>5, <2>1, <3>1
  <2>4. CASE OpenReader(m, words)
    <3>1. key'[m] = <<>> /\ value'[m] = <<>>
      BY <1>2, <2>4 DEF OpenReader, Reads
    <3>2. Known(<<>>, <<>>)
      BY DEF Known, Simple, Has
    <3> QED
      BY <1>5, <2>1, <3>1, <3>2
  <2> QED
    BY <1>6, <2>2, <2>3, <2>4 DEF Begins
<1>7. CASE InsertNew(m) \/ EndAssign(m)
  <2>1. /\ pc[m] \in {"insert", "assign"} /\ db' = Inserted(key[m], value[m]) /\ Insertion(m)
    BY <1>7 DEF InsertNew, EndAssign
  <2>2. NewPair
    BY <1>2, <2>1 DEF Fits, Inserted
  <2>3. \/ key'[m] = key[m] /\ value'[m] = value[m] /\ cmd'[m] = cmd[m]
        \/ cmd'[m] = "none"
    BY <1>2, <2>1 DEF Insertion, Return
  <2> QED
    BY <1>5, <2>2, <2>3
<1>8. CASE Delete(m)
  <2>1. OldPairs
    BY <1>8 DEF Delete, Deleted
  <2>2. cmd'[m] = "none"
    BY <1>2, <1>8 DEF Delete, Return
  <2> QED
    BY <1>5, <2>1, <2>2
<1>9. CASE Get(m) \/ AnswerOk(m)
  <2>1. db' = db /\ cmd'[m] = "none"
    BY <1>2, <1>9 DEF Get, AnswerOk, Return
  <2> QED
    BY <1>5, <2>1
<1>10. CASE BeginAssign(m) \/ AddSearch(m) \/ AddThrows(m) \/ EndSearch(m) \/ WriteNode(m)
  <2>1. UNCHANGED <<db, key, value, cmd>>
    BY <1>10 DEF BeginAssign, AddSearch, AddThrows, EndSearch, WriteNode
  <2> QED
    BY <1>5, <2>1
<1>11. CASE CloseWriter(m) \/ Wander(m) \/ CloseReader(m)
  <2>1. UNCHANGED <<db, key, value, cmd>>
    BY <1>11 DEF CloseWriter, Wander, CloseReader
  <2> QED
    BY <1>5, <2>1
<1>12. CASE GetLine(m)
  <2> DEFINE line == FirstLine(Unread)
  <2>1. /\ UNCHANGED <<db, cmd>>
        /\ \/ UNCHANGED <<key, value>>
           \/ /\ Has(line, Delimiter)
              /\ key' = [key EXCEPT ![m] = KeyOf(line)]
              /\ value' = [value EXCEPT ![m] = ValueOf(line)]
    BY <1>12, Zenon DEF GetLine
  <2>2. CASE UNCHANGED <<key, value>>
    BY <1>5, <2>1, <2>2
  <2>3. CASE ~UNCHANGED <<key, value>>
    <3>1. line \in Seq(Symbols) /\ ~Has(line, Eol)
      BY <1>2, UnreadIs, FirstLineIs
    <3> HIDE DEF line
    <3>2. key'[m] = KeyOf(line) /\ value'[m] = ValueOf(line) /\ Has(line, Delimiter)
      BY <1>2, <2>1, <2>3
    <3>3. Known(key'[m], value'[m])
      BY <3>1, <3>2, LineIsSimple DEF Known
    <3> QED
      BY <1>5, <2>1, <3>3
  <2> QED
    BY <2>2, <2>3
<1> QED
  BY <1>6, <1>7, <1>8, <1>9, <1>10, <1>11, <1>12, Zenon DEF Moves, GoesOn

\* Three texts, one behind the other.
LEMMA TextsAssociate ==
  ASSUME NEW s \in Seq(Symbols), NEW t \in Seq(Symbols), NEW u \in Seq(Symbols)
  PROVE  (s \o t) \o u = s \o (t \o u)
<1> DEFINE M == Symbols
<1>1. s \in Seq(M) /\ t \in Seq(M) /\ u \in Seq(M)
  OBVIOUS
<1> HIDE DEF M
<1> QED
  BY <1>1, ConcatAssociative

\* Whatever part of a line is written, the file and what is held back grow by it.
LEMMA TextGrows ==
  ASSUME StreamsOK, NEW line \in Seq(Symbols), NEW n \in 0 .. Len(line),
         file' = IF n = 0 THEN file ELSE file \o writer.buf \o UpTo(line, n),
         writer' = [writer EXCEPT !.buf = IF n = 0 THEN @ \o line ELSE From(line, n + 1)]
  PROVE  file' \o writer'.buf = (file \o writer.buf) \o line
<1>1. file \in Seq(Symbols) /\ writer.buf \in Seq(Symbols) /\ writer \in Streams
  BY DEF StreamsOK, Streams
<1>2. writer'.buf = IF n = 0 THEN writer.buf \o line ELSE From(line, n + 1)
  BY <1>1 DEF Streams
<1>3. n \in 0 .. Len(line)
  OBVIOUS
<1>4. UpTo(line, n) \in Seq(Symbols) /\ From(line, n + 1) \in Seq(Symbols)
  BY <1>3, UpToIs, RestIs
<1>5. UpTo(line, n) \o From(line, n + 1) = line
  <2> DEFINE a == UpTo(line, n)
             z == From(line, n + 1)
             u == a \o z
  <2>1. /\ a \in Seq(Symbols) /\ Len(a) = n /\ \A i \in 1 .. n : a[i] = line[i]
    BY <1>3, UpToIs
  <2>2. /\ z \in Seq(Symbols) /\ Len(z) = Len(line) - n
        /\ \A i \in 1 .. Len(line) - n : z[i] = line[n + i]
    BY <1>3, RestIs
  <2> HIDE DEF a, z
  <2>3. /\ u \in Seq(Symbols) /\ Len(u) = Len(a) + Len(z)
        /\ \A i \in 1 .. Len(a) : u[i] = a[i]
        /\ \A i \in 1 .. Len(z) : u[Len(a) + i] = z[i]
    <3>1. a \in Seq(Symbols) /\ z \in Seq(Symbols)
      BY <2>1, <2>2
    <3> QED
      BY <3>1, ConcatIs
  <2> HIDE DEF u
  <2>4. Len(u) = Len(line)
    BY <1>3, <2>1, <2>2, <2>3
  <2>5. \A i \in 1 .. Len(u) : u[i] = line[i]
    <3> TAKE i \in 1 .. Len(u)
    <3>1. CASE i <= n
      <4>1. i \in 1 .. n
        BY <1>3, <3>1
      <4> QED
        BY <2>1, <2>3, <4>1
    <3>2. CASE i > n
      <4> DEFINE j == i - n
      <4>1. j \in 1 .. Len(line) - n /\ n + j = i
        BY <1>3, <2>4, <3>2
      <4> HIDE DEF j
      <4> QED
        BY <2>1, <2>2, <2>3, <4>1
    <3> QED
      BY <1>3, <3>1, <3>2
  <2>6. u = line
    BY <2>3, <2>4, <2>5, SeqEqual
  <2> QED
    BY <2>6 DEF u, a, z
<1>6. CASE n = 0
  <2>1. (file \o writer.buf) \o line = file \o (writer.buf \o line)
    BY <1>1, TextsAssociate
  <2>2. file' = file /\ writer'.buf = writer.buf \o line
    BY <1>2, <1>6
  <2> QED
    BY <2>1, <2>2
<1>7. CASE n # 0
  <2>1. file \o writer.buf \in Seq(Symbols)
    BY <1>1, ConcatProperties
  <2> DEFINE text == file \o writer.buf
             a == UpTo(line, n)
             z == From(line, n + 1)
  <2>2. file' = text \o a /\ writer'.buf = z /\ a \o z = line
    BY <1>2, <1>5, <1>7
  <2>3. text \in Seq(Symbols) /\ a \in Seq(Symbols) /\ z \in Seq(Symbols)
    BY <1>4, <2>1
  <2> HIDE DEF text, a, z
  <2>4. (text \o a) \o z = text \o (a \o z)
    BY <2>3, TextsAssociate
  <2> QED
    BY <2>2, <2>4 DEF text
<1> QED
  BY <1>6, <1>7

\* The first DUMP of all that are under way finds the stream closed, and empties the
\* file if it can open it.
LEMMA DumpBegins ==
  ASSUME ServerOK, StreamsFree, NEW l \in Loops, NEW words \in sends[l], OpenWriter(l, words),
         overlap'[l] # "mixed"
  PROVE  IF overlap'[l] = "failed"
           THEN /\ file' = kept'[l] /\ ~writer'.open /\ writer'.buf = <<>>
           ELSE /\ writer'.open /\ ~writer'.fail /\ ValueIn(db', Watched) \in had'[l]
                /\ Written(file' \o writer'.buf, <<>>, <<>>, <<>>, node'[l], had'[l], Settable')
                /\ Agrees(file' \o writer'.buf, <<>>, <<>>, <<>>, node'[l], db')
<1> DEFINE others == {k \in Loops \ {l} : InDump(k)}
<1>0. overlap'[l] = Begun(others, writer')
  BY DEF OpenWriter
<1>1. \A k \in Loops : ~InDump(k)
  <2>1. others = {}
    BY <1>0 DEF Begun
  <2> QED
    BY <2>1 DEF OpenWriter, Reads, InDump
<1>2. writer = Closed
  BY <1>1 DEF StreamsFree
<1>3. \/ writer' = [Closed EXCEPT !.open = TRUE] /\ file' = <<>> /\ overlap'[l] # "failed"
      \/ writer' = [Closed EXCEPT !.fail = TRUE] /\ file' = file /\ overlap'[l] = "failed"
  <2>1. writer' \in {[Closed EXCEPT !.open = TRUE], [Closed EXCEPT !.fail = TRUE]}
    BY <1>2 DEF OpenWriter, Opened, Closed
  <2>2. file' = IF ~writer.open /\ writer'.open THEN <<>> ELSE file
    BY DEF OpenWriter, Truncated
  <2>3. others = {}
    BY <1>1
  <2> QED
    BY <1>0, <1>2, <2>1, <2>2, <2>3 DEF Begun, Closed
<1>4. CASE overlap'[l] = "failed"
  <2>1. kept'[l] = file
    BY <1>4 DEF OpenWriter
  <2>2. ~writer'.open /\ writer'.buf = <<>>
    BY <1>3, <1>4 DEF Closed
  <2> QED
    BY <1>3, <1>4, <2>1, <2>2
<1>5. CASE overlap'[l] # "failed"
  <2>1. writer'.open /\ ~writer'.fail /\ writer'.buf = <<>>
    BY <1>3, <1>5 DEF Closed
  <2>2. file' \o writer'.buf = <<>>
    BY <1>3, <1>5, <2>1
  <2>3. /\ db' = db /\ node'[l] = FirstNode /\ ValueIn(db, Watched) \in had'[l]
    BY <1>1 DEF OpenWriter, ServerOK, HandlersOK
  <2>4. Settable' = Settable
    BY SettableStays DEF Moves, Begins
  <2>5. /\ Written(<<>>, <<>>, <<>>, <<>>, FirstNode, had'[l], Settable)
        /\ Agrees(<<>>, <<>>, <<>>, <<>>, FirstNode, db)
    BY <2>3, DumpIsEmpty DEF ServerOK
  <2> QED
    BY <1>5, <2>1, <2>2, <2>3, <2>4, <2>5
<1> QED
  BY <1>4, <1>5

\* A node that was not freed is written.
LEMMA DumpWrites ==
  ASSUME ServerOK, NodesOK, SettableOK, NEW l \in Loops, WriteNode(l),
         writer.open, ~writer.fail, ValueIn(db, Watched) \in had[l],
         NEW K, NEW V, NEW P, Written(file \o writer.buf, K, V, P, node[l], had[l], Settable)
  PROVE  /\ writer'.open /\ ~writer'.fail /\ db' = db /\ had' = had /\ overlap' = overlap
         /\ \E KK, VV, PP :
              /\ Written(file' \o writer'.buf, KK, VV, PP, node'[l], had[l], Settable)
              /\ Agrees(file \o writer.buf, K, V, P, node[l], db)
                   => Agrees(file' \o writer'.buf, KK, VV, PP, node'[l], db)
<1> DEFINE k == node[l]
           text == file \o writer.buf
           line == Line(k, db[k])
<1>1. ListOK /\ StreamsOK /\ node \in [Loops -> Seq(Symbols)]
  BY DEF ServerOK, HandlersOK
<1>2. k \in DOMAIN db
  BY DEF WriteNode, ReadsRace, NodesOK
<1>3. k \in Seq(Symbols) /\ db[k] \in Seq(Symbols)
  BY <1>1, <1>2 DEF ListOK, PairsOK, Words
<1>4. line \in Seq(Symbols)
  BY <1>3, LineIs
<1>5. PICK n \in 0 .. Len(line) :
        /\ file' = IF n = 0 THEN file ELSE file \o writer.buf \o UpTo(line, n)
        /\ writer' = [writer EXCEPT !.buf = IF n = 0 THEN @ \o line ELSE From(line, n + 1)]
  BY Zenon DEF WriteNode
<1>6. file' \o writer'.buf = text \o line
  <2> HIDE DEF line
  <2> QED
    BY <1>1, <1>4, <1>5, TextGrows
<1>7. writer'.open = writer.open /\ writer'.fail = writer.fail
  <2>1. \A x : /\ [writer EXCEPT !.buf = x].open = writer.open
               /\ [writer EXCEPT !.buf = x].fail = writer.fail
    BY <1>1 DEF StreamsOK, Streams
  <2> QED
    BY <1>5, <2>1, Zenon
<1>8. node'[l] = KeyAfter(k) /\ UNCHANGED <<db, had, overlap>>
  BY <1>1 DEF WriteNode, historyVars
<1>9. text \in Seq(Symbols)
  BY <1>1, ConcatProperties DEF StreamsOK, Streams
<1>10. <<k, db[k]>> \in Settable \/ Simple(k, db[k])
  BY <1>2 DEF SettableOK, Known
<1> HIDE DEF k, text, line
<1>11. \E KK, VV, PP :
         /\ Written(text \o line, KK, VV, PP, KeyAfter(k), had[l], Settable)
         /\ Agrees(text, K, V, P, k, db) => Agrees(text \o line, KK, VV, PP, KeyAfter(k), db)
  <2>1. PICK t : t = text \o line
    OBVIOUS
  <2>2. Written(text, K, V, P, k, had[l], Settable)
    BY DEF k, text
  <2>3. \E KK, VV, PP :
          /\ Written(t, KK, VV, PP, KeyAfter(k), had[l], Settable)
          /\ Agrees(text, K, V, P, k, db) => Agrees(t, KK, VV, PP, KeyAfter(k), db)
    <3>1. t = text \o Line(k, db[k])
      BY <2>1 DEF line
    <3> QED
      BY <1>1, <1>2, <1>9, <1>10, <2>2, <3>1, DumpAdvances
  <2> QED
    BY <2>1, <2>3
<1> QED
  BY <1>6, <1>7, <1>8, <1>11 DEF text, k

\* What a dump has said stays said when Watched has had more values.
LEMMA WrittenStays ==
  ASSUME NEW text, NEW K, NEW V, NEW P, NEW n, NEW h, NEW g, h \subseteq g, NEW pairs,
         Written(text, K, V, P, n, h, pairs)
  PROVE  Written(text, K, V, P, n, g, pairs)
  BY DEF Written

\* A loop in a DUMP goes on by writing a node or closing the file; one that reads has
\* opened it.
LEMMA DumpGoesOn ==
  ASSUME ServerOK, SearchOK, NEW m \in Loops, Moves(m), pc'[m] \in {"dump", "dumped"}, overlap'[m] # "mixed"
  PROVE  \/ WriteNode(m) \/ CloseWriter(m)
         \/ \E words \in sends[m] : OpenWriter(m, words)
<1>1. /\ pc \in [Loops -> Places] /\ cmd \in [Loops -> Commands]
      /\ overlap \in [Loops -> {"quiet", "busy", "mixed", "failed"}]
      /\ \A l \in Loops : Fits(pc[l], cmd[l])
  BY DEF ServerOK, HandlersOK, HistoryOK
<1>2. ASSUME NEW words \in sends[m], Begins(m, words) PROVE OpenWriter(m, words)
  BY <1>1, <1>2 DEF Begins, ReadSet, ReadDel, ReadGet, OpenReader, Goto
<1>7. ASSUME GoesOn(m), ~WriteNode(m), ~CloseWriter(m) PROVE FALSE
  <2>1. ~Wander(m)
    BY <1>1, <1>7 DEF Wander
  <2>2. ~EndSearch(m)
    BY <1>7 DEF EndSearch, EndTask, SearchOK
  <2>3. ~(InsertNew(m) \/ EndAssign(m))
    <3>1. ~(Insertion(m) /\ pc[m] \in {"insert", "assign"})
      BY <1>1, <1>7 DEF Insertion, Return, Goto
    <3> QED
      BY <3>1 DEF InsertNew, EndAssign
  <2>4. ~(BeginAssign(m) \/ Delete(m) \/ AddSearch(m) \/ AddThrows(m) \/ Get(m) \/ CloseReader(m)
          \/ AnswerOk(m))
    BY <1>1, <1>7 DEF BeginAssign, Delete, AddSearch, AddThrows, Get, CloseReader, AnswerOk, Return, Goto
  <2>5. ~GetLine(m)
    <3> SUFFICES ASSUME GetLine(m) PROVE FALSE
      OBVIOUS
    <3>1. pc[m] = "load" /\ (Goto(m, "insert") \/ UNCHANGED pc)
      BY Zenon DEF GetLine
    <3> QED
      BY <1>1, <1>7, <3>1 DEF Goto
  <2> QED
    BY <1>7, <2>1, <2>2, <2>3, <2>4, <2>5, Zenon DEF GoesOn
<1> QED
  BY <1>2, <1>7 DEF Moves

\* Whatever the loops do, what the dumps have said is true.
LEMMA DumpHolds ==
  ASSUME ServerOK, ServerOK', NodesOK, SearchOK, AloneOK, StreamsFree, SettableOK, DumpOK,
         NEW m \in Loops, Moves(m)
  PROVE  DumpOK'
<1>1. /\ pc \in [Loops -> Places] /\ cmd \in [Loops -> Commands] /\ StreamsOK
      /\ node \in [Loops -> Seq(Symbols)] /\ had \in [Loops -> SUBSET Seq(Symbols)]
      /\ overlap \in [Loops -> {"quiet", "busy", "mixed", "failed"}]
      /\ \A l \in Loops : Fits(pc[l], cmd[l])
  BY DEF ServerOK, HandlersOK, HistoryOK
<1>2. Settable' = Settable
  BY SettableStays
<1> DEFINE Text == file \o writer.buf
           Fine(l) ==
             /\ pc'[l] = "dump" => writer'.open /\ ~writer'.fail /\ ValueIn(db', Watched) \in had'[l]
             /\ pc'[l] = "dumped" => node'[l] = End /\ writer'.buf = <<>>
             /\ \E K, V, P :
                  /\ Written(file' \o writer'.buf, K, V, P, node'[l], had'[l], Settable)
                  /\ overlap'[l] = "quiet" => Agrees(file' \o writer'.buf, K, V, P, node'[l], db')
<1>3. ASSUME NEW l \in Loops \ {m}, pc'[l] \in {"dump", "dumped"}, overlap'[l] \notin {"mixed", "failed"}
      PROVE  Fine(l)
  <2>1. pc'[l] = pc[l] /\ node'[l] = node[l]
    BY OthersStay
  <2>2. UnderWay(l) /\ pc[l] \in {"dump", "dumped"}
    BY <1>1, <1>3, <2>1 DEF UnderWay, Fits
  <2>3. /\ overlap[l] \notin {"mixed", "failed"} /\ UNCHANGED <<file, writer>>
        /\ overlap'[l] = "quiet" => overlap[l] = "quiet" /\ UNCHANGED db
        /\ InDump(l) => had[l] \subseteq had'[l]
        /\ InDump(l) => UNCHANGED db \/ ValueIn(db', Watched) \in had'[l]
        /\ ~InDump(l) => had'[l] = had[l]
    BY <1>3, <2>2, Undisturbed
  <2>4. had[l] \subseteq had'[l]
    BY <2>3
  <2>5. /\ pc[l] = "dump" => writer.open /\ ~writer.fail /\ ValueIn(db, Watched) \in had[l]
        /\ pc[l] = "dumped" => node[l] = End /\ writer.buf = <<>>
    BY <2>2, <2>3 DEF DumpOK
  <2>6. PICK K, V, P : /\ Written(Text, K, V, P, node[l], had[l], Settable)
                       /\ overlap[l] = "quiet" => Agrees(Text, K, V, P, node[l], db)
    BY <2>2, <2>3 DEF DumpOK
  <2>7. Written(Text, K, V, P, node[l], had'[l], Settable)
    BY <2>4, <2>6, WrittenStays
  <2>8. pc'[l] = "dump" => ValueIn(db', Watched) \in had'[l]
    BY <2>1, <2>3, <2>4, <2>5 DEF InDump
  <2> QED
    BY <2>1, <2>3, <2>5, <2>6, <2>7, <2>8
<1>4. ASSUME pc'[m] \in {"dump", "dumped"}, overlap'[m] \notin {"mixed", "failed"}, WriteNode(m)
      PROVE  Fine(m)
  <2>1. pc[m] = "dump" /\ pc'[m] = "dump"
    BY <1>4 DEF WriteNode, InDump
  <2>2. overlap[m] \notin {"mixed", "failed"}
    BY <1>4 DEF WriteNode, historyVars
  <2>3. writer.open /\ ~writer.fail /\ ValueIn(db, Watched) \in had[m]
    BY <2>1, <2>2 DEF DumpOK
  <2>4. PICK K, V, P : /\ Written(Text, K, V, P, node[m], had[m], Settable)
                       /\ overlap[m] = "quiet" => Agrees(Text, K, V, P, node[m], db)
    BY <2>1, <2>2 DEF DumpOK
  <2>5. /\ writer'.open /\ ~writer'.fail /\ db' = db /\ had' = had /\ overlap' = overlap
        /\ \E KK, VV, PP :
             /\ Written(file' \o writer'.buf, KK, VV, PP, node'[m], had[m], Settable)
             /\ Agrees(file \o writer.buf, K, V, P, node[m], db)
                  => Agrees(file' \o writer'.buf, KK, VV, PP, node'[m], db)
    BY <1>4, <2>3, <2>4, DumpWrites
  <2> QED
    BY <2>1, <2>3, <2>4, <2>5
<1>5. ASSUME pc'[m] \in {"dump", "dumped"}, overlap'[m] \notin {"mixed", "failed"}, CloseWriter(m)
      PROVE  Fine(m)
  <2>1. /\ pc[m] = "dump" /\ node[m] = End /\ pc'[m] = "dumped" /\ writer' = Closed /\ file' = Text
        /\ UNCHANGED <<db, node, overlap, had>>
    BY <1>1, <1>5 DEF CloseWriter, InDump, Goto, historyVars
  <2>2. writer'.buf = <<>>
    BY <2>1 DEF Closed
  <2>3. file' \o writer'.buf = Text
    <3>1. Text \in Seq(Symbols)
      BY <1>1, ConcatProperties DEF StreamsOK, Streams
    <3> HIDE DEF Text
    <3> QED
      BY <2>1, <2>2, <3>1, ConcatEmptySeq
  <2>4. PICK K, V, P : /\ Written(Text, K, V, P, node[m], had[m], Settable)
                       /\ overlap[m] = "quiet" => Agrees(Text, K, V, P, node[m], db)
    BY <1>5, <2>1 DEF DumpOK
  <2> QED
    BY <2>1, <2>2, <2>3, <2>4
<1>6. ASSUME NEW words \in sends[m], OpenWriter(m, words), overlap'[m] \notin {"mixed", "failed"}
      PROVE  Fine(m)
  <2>1. pc'[m] = "dump"
    BY <1>1, <1>6 DEF OpenWriter, Goto
  <2>2. /\ writer'.open /\ ~writer'.fail /\ ValueIn(db', Watched) \in had'[m]
        /\ Written(file' \o writer'.buf, <<>>, <<>>, <<>>, node'[m], had'[m], Settable')
        /\ Agrees(file' \o writer'.buf, <<>>, <<>>, <<>>, node'[m], db')
    BY <1>6, DumpBegins
  <2> QED
    BY <1>2, <2>1, <2>2
<1>7. ASSUME NEW l \in Loops, pc'[l] \in {"dump", "dumped"}, overlap'[l] \notin {"mixed", "failed"}
      PROVE  Fine(l)
  <2> HIDE DEF Fine
  <2>1. CASE l # m
    BY <1>3, <1>7, <2>1
  <2>2. CASE l = m
    <3>1. WriteNode(m) \/ CloseWriter(m) \/ \E words \in sends[m] : OpenWriter(m, words)
      BY <1>7, <2>2, DumpGoesOn
    <3> QED
      BY <1>4, <1>5, <1>6, <1>7, <2>2, <3>1
  <2> QED
    BY <2>1, <2>2
<1> QED
  BY <1>2, <1>7 DEF DumpOK

\* A DUMP that has not opened the file leaves it as it was, and so do the others.
LEMMA NothingStaysDumped ==
  ASSUME ServerOK, SearchOK, AloneOK, StreamsFree, NothingDumped, NEW m \in Loops, Moves(m)
  PROVE  NothingDumped'
<1> SUFFICES ASSUME NEW l \in Loops, pc'[l] \in {"dump", "dumped"}, overlap'[l] = "failed"
             PROVE  /\ file' = kept'[l]
                    /\ pc'[l] = "dump" => ~writer'.open /\ writer'.buf = <<>>
  BY DEF NothingDumped
<1>1. /\ pc \in [Loops -> Places] /\ StreamsOK /\ \A k \in Loops : Fits(pc[k], cmd[k])
      /\ overlap \in [Loops -> {"quiet", "busy", "mixed", "failed"}]
  BY DEF ServerOK, HandlersOK, HistoryOK
<1>2. CASE l # m
  <2>1. pc'[l] = pc[l] /\ cmd'[l] = cmd[l]
    BY <1>2, OthersStay
  <2>2. UnderWay(l)
    BY <1>1, <2>1 DEF UnderWay, Fits
  <2>3. overlap[l] = "failed" /\ kept'[l] = kept[l] /\ UNCHANGED <<file, writer>>
    BY <1>2, <2>2, Undisturbed
  <2> QED
    BY <2>1, <2>3 DEF NothingDumped
<1>3. CASE l = m /\ WriteNode(m)
  <2>1. /\ pc[m] = "dump" /\ pc'[m] = "dump" /\ UNCHANGED <<overlap, kept>>
    BY <1>3 DEF WriteNode, InDump, historyVars
  <2>2. file = kept[m] /\ ~writer.open /\ writer.buf = <<>>
    BY <1>3, <2>1 DEF NothingDumped
  <2>3. UNCHANGED <<file, writer>>
    BY <1>3, <2>2 DEF WriteNode
  <2> QED
    BY <1>3, <2>1, <2>2, <2>3
<1>4. CASE l = m /\ CloseWriter(m)
  <2>1. /\ pc[m] = "dump" /\ pc'[m] = "dumped" /\ file' = file \o writer.buf
        /\ UNCHANGED <<overlap, kept>>
    BY <1>1, <1>4 DEF CloseWriter, InDump, Goto, historyVars
  <2>2. file = kept[m] /\ writer.buf = <<>> /\ file \in Seq(Symbols)
    BY <1>1, <1>4, <2>1 DEF NothingDumped, StreamsOK
  <2>3. file \o <<>> = file
    BY <2>2, ConcatEmptySeq
  <2> QED
    BY <1>4, <2>1, <2>2, <2>3
<1>5. ASSUME l = m, NEW words \in sends[m], OpenWriter(m, words)
      PROVE  file' = kept'[l] /\ ~writer'.open /\ writer'.buf = <<>>
  BY <1>5, DumpBegins
<1>6. l = m => WriteNode(m) \/ CloseWriter(m) \/ \E words \in sends[m] : OpenWriter(m, words)
  BY DumpGoesOn
<1> QED
  BY <1>2, <1>3, <1>4, <1>5, <1>6

\* The part of a text whose lines end is a beginning that ends with a line.
LEMMA WholeIs ==
  ASSUME NEW text \in Seq(Symbols)
  PROVE  \E n \in 0 .. Len(text) : /\ Whole(text) = UpTo(text, n)
                                   /\ n # 0 => text[n] = Eol
                                   /\ \A i \in Ends(text) : i <= n
<1>1. Len(text) \in Nat /\ DOMAIN text = 1 .. Len(text)
  OBVIOUS
<1>2. CASE Ends(text) = {}
  BY <1>1, <1>2 DEF Whole
<1>3. CASE Ends(text) # {}
  <2> DEFINE T == Ends(text)
             n == CHOOSE i \in T : \A j \in T : j <= i
  <2>1. T \in SUBSET Nat /\ (\A i \in T : i <= Len(text)) /\ T # {}
    BY <1>1, <1>3 DEF Ends
  <2>2. \E i \in T : \A j \in T : j <= i
    <3> HIDE DEF T
    <3> QED
      BY <1>1, <2>1, GreatestNumber
  <2>3. n \in T /\ \A j \in T : j <= n
    <3> HIDE DEF T
    <3> QED
      BY <2>2, Zenon
  <2>4. Whole(text) = UpTo(text, n)
    BY <1>3 DEF Whole
  <2> HIDE DEF n
  <2>5. n \in 0 .. Len(text) /\ text[n] = Eol
    BY <1>1, <2>3 DEF Ends
  <2> QED
    BY <2>3, <2>4, <2>5
<1> QED
  BY <1>2, <1>3

\* What begins like a dump gives the plain keys on its whole lines the first lines of
\* their values, whatever the line that is torn looks like.
LEMMA TornDumpIsRead ==
  ASSUME NEW text \in Seq(Symbols), NEW part \in Seq(Symbols), GoesOnAs(part, text),
         NEW K, NEW V, NEW P, IsDump(text, K, V, P),
         NEW n, NEW map, Agrees(text, K, V, P, n, map),
         NEW k \in DOMAIN Pairs(Whole(part)), Plain(k, PairsIn(map))
  PROVE  Pairs(part)[k] = FirstLine(ValueIn(map, k))
<1> DEFINE whole == Whole(part)
<1>1. PICK e \in 0 .. Len(part) : whole = UpTo(part, e) /\ (e # 0 => part[e] = Eol)
  BY WholeIs
<1>2. /\ whole \in Seq(Symbols) /\ Len(whole) = e
      /\ \A j \in 1 .. e : whole[j] = part[j]
  BY <1>1, UpToIs
<1> HIDE DEF whole
<1>3. /\ Len(text) \in Nat /\ Len(part) \in Nat /\ DOMAIN whole = 1 .. Len(whole) /\ e \in Nat /\ e <= Len(part)
  BY <1>2
<1>4. GoesOnAs(whole, part) /\ GoesOnAs(whole, text)
  <2>1. Len(part) <= Len(text) /\ \A j \in 1 .. Len(part) : part[j] = text[j]
    BY DEF GoesOnAs
  <2>2. Len(whole) <= Len(part) /\ Len(whole) <= Len(text) /\ \A j \in 1 .. e : j \in 1 .. Len(part)
    BY <1>2, <1>3, <2>1
  <2>3. \A j \in 1 .. Len(whole) : whole[j] = part[j] /\ part[j] = text[j]
    BY <1>2, <2>1, <2>2
  <2> QED
    BY <2>2, <2>3 DEF GoesOnAs
<1>5. PICK i \in Good(whole) : KeyAt(whole, i) = k
  <2>1. DOMAIN Pairs(whole) = {KeyAt(whole, i) : i \in Good(whole)}
    BY <1>2, PairsAre
  <2> QED
    BY <2>1 DEF whole
<1>6. i \in LineStarts(whole) /\ \E j \in i .. Len(whole) : whole[j] = Eol
  <2>1. i \in LineStarts(whole) /\ i \in 1 .. Len(whole)
    BY <1>3, <1>5 DEF Good, LineStarts
  <2>2. e \in i .. Len(whole) /\ e \in 1 .. e /\ e # 0
    BY <1>2, <1>3, <2>1
  <2>3. whole[e] = Eol
    BY <1>1, <1>2, <2>2
  <2> QED
    BY <2>1, <2>2, <2>3
<1>7. i \in LineStarts(text) /\ LineAt(whole, i) = LineAt(text, i)
  BY <1>2, <1>3, <1>4, <1>6, LinesOfPrefix
<1>8. i \in LineStarts(part) /\ LineAt(whole, i) = LineAt(part, i)
  BY <1>2, <1>3, <1>4, <1>6, LinesOfPrefix
<1>9. AllKnown(text, K, V, PairsIn(map))
  BY DEF Agrees, PairsIn, AllKnown
<1>10. K[i] = k /\ P[i] = 1 /\ ValueAt(text, i) = FirstLine(V[i])
  <2>1. KeyAt(text, i) = k /\ Has(LineAt(text, i), Delimiter)
    BY <1>5, <1>7 DEF KeyAt, Good
  <2>2. /\ Has(LineAt(text, i), Delimiter) /\ KeyAt(text, i) = k <=> K[i] = k /\ P[i] = 1
        /\ K[i] = k /\ P[i] = 1 => ValueAt(text, i) = FirstLine(V[i])
    BY <1>7, <1>9, PlainLines
  <2> QED
    BY <2>1, <2>2
<1>11. i \in Good(part) /\ KeyAt(part, i) = k /\ ValueAt(part, i) = ValueAt(text, i)
  BY <1>5, <1>7, <1>8 DEF Good, KeyAt, ValueAt
<1>12. ASSUME NEW j \in Good(part), KeyAt(part, j) = k PROVE j = i
  <2>1. j \in LineStarts(part) /\ Has(LineAt(part, j), Delimiter)
    BY DEF Good
  <2>2. /\ j \in LineStarts(text)
        /\ Len(LineAt(part, j)) <= Len(LineAt(text, j))
        /\ \A x \in 1 .. Len(LineAt(part, j)) : LineAt(part, j)[x] = LineAt(text, j)[x]
    BY <2>1, LinesOfPrefix
  <2>3. LineAt(part, j) \in Seq(Symbols) /\ LineAt(text, j) \in Seq(Symbols)
    BY <2>1, <2>2, LineOfSymbols
  <2>4. Has(LineAt(text, j), Delimiter) /\ KeyOf(LineAt(text, j)) = KeyOf(LineAt(part, j))
    BY <2>1, <2>2, <2>3, KeyOfPrefix
  <2>5. KeyAt(text, j) = k
    BY <1>12, <2>4 DEF KeyAt
  <2>6. Has(LineAt(text, j), Delimiter) /\ KeyAt(text, j) = k <=> K[j] = k /\ P[j] = 1
    BY <1>9, <2>2, PlainLines
  <2> QED
    BY <1>7, <1>10, <2>2, <2>4, <2>5, <2>6 DEF IsDump
<1>13. Pairs(part)[k] = ValueAt(part, i)
  <2>1. /\ DOMAIN Pairs(part) = {KeyAt(part, j) : j \in Good(part)}
        /\ \A x \in DOMAIN Pairs(part) :
             \E j \in Good(part) : KeyAt(part, j) = x /\ Pairs(part)[x] = ValueAt(part, j)
    BY PairsAre
  <2>2. k \in DOMAIN Pairs(part)
    BY <1>11, <2>1
  <2>3. PICK j \in Good(part) : KeyAt(part, j) = k /\ Pairs(part)[k] = ValueAt(part, j)
    BY <2>1, <2>2
  <2> QED
    BY <1>12, <2>3
<1>14. V[i] = ValueIn(map, k)
  BY <1>7, <1>10 DEF Agrees, ValueIn
<1> QED
  BY <1>10, <1>11, <1>13, <1>14

\* A dump that is done has a whole line for every plain key, which gives it a value
\* unless its value begins with a line end.
LEMMA WholeDumpIsRead ==
  ASSUME NEW text \in Seq(Symbols), NEW K, NEW V, NEW P, IsDump(text, K, V, P),
         NEW map, Agrees(text, K, V, P, End, map),
         NEW k \in DOMAIN map, k # <<>>, Plain(k, PairsIn(map)), FirstLine(map[k]) # <<>>
  PROVE  k \in DOMAIN Pairs(Whole(text))
<1>1. PICK i \in LineStarts(text) : K[i] = k /\ P[i] = 1
  BY DEF Agrees, Passed
<1>2. Len(text) \in Nat /\ DOMAIN text = 1 .. Len(text) /\ i \in 1 .. Len(text)
  BY <1>1 DEF LineStarts
<1>3. Whole(text) = text
  <2>1. PICK n \in 0 .. Len(text) : Whole(text) = UpTo(text, n) /\ \A j \in Ends(text) : j <= n
    BY WholeIs
  <2>2. text # <<>> /\ Len(text) \in 1 .. Len(text)
    BY <1>2
  <2>3. Len(text) \in Ends(text)
    BY <1>2, <2>2 DEF Ends, IsDump, EndsLine
  <2>4. n = Len(text)
    <3>1. Len(text) <= n
      BY <2>1, <2>3
    <3>2. PICK m : m = Len(text)
      OBVIOUS
    <3>3. m <= n /\ n <= m /\ n \in Nat /\ m \in Nat
      BY <1>2, <2>1, <3>1, <3>2
    <3>4. n = m
      BY <3>3
    <3> QED
      BY <3>2, <3>4
  <2>5. /\ UpTo(text, n) \in Seq(Symbols) /\ Len(UpTo(text, n)) = n
        /\ \A j \in 1 .. n : UpTo(text, n)[j] = text[j]
    BY <2>1, UpToIs
  <2>6. UpTo(text, n) = text
    BY <2>4, <2>5, SeqEqual
  <2> QED
    BY <2>1, <2>6
<1>4. AllKnown(text, K, V, PairsIn(map))
  BY DEF Agrees, PairsIn, AllKnown
<1>5. KeyAt(text, i) = k /\ i \in Good(text)
  <2>1. /\ Has(LineAt(text, i), Delimiter) /\ KeyAt(text, i) = k
        /\ ValueAt(text, i) = FirstLine(V[i])
    BY <1>1, <1>4, PlainLines
  <2>2. V[i] = map[k]
    BY <1>1 DEF Agrees
  <2> QED
    BY <1>1, <2>1, <2>2 DEF Good
<1>6. DOMAIN Pairs(text) = {KeyAt(text, j) : j \in Good(text)}
  BY PairsAre
<1> QED
  BY <1>3, <1>5, <1>6

\* The dump of a plain key is the one line that looks like it.
LEMMA FaithfulDump ==
  ASSUME ServerOK, DumpOK, NothingDumped
  PROVE  DumpIsFaithful
<1>a. ASSUME NEW l \in Loops, overlap[l] = "failed", cmd[l] = "DUMP" PROVE file = kept[l]
  <2>1. pc[l] \in {"dump", "dumped"}
    BY <1>a DEF ServerOK, HandlersOK, Fits, Places
  <2> QED
    BY <1>a, <2>1 DEF NothingDumped
<1> SUFFICES ASSUME NEW l \in Loops, pc[l] = "dumped", overlap[l] \notin {"mixed", "failed"},
                    Plain(Watched, Settable)
             PROVE  LET lines == {i \in LineStarts(file) : /\ Has(LineAt(file, i), Delimiter)
                                                           /\ KeyOf(LineAt(file, i)) = Watched}
                    IN /\ Cardinality(lines) <= 1
                       /\ lines = {} => <<>> \in had[l]
                       /\ \A i \in lines : \E v \in had[l] \ {<<>>} :
                            ValueOf(LineAt(file, i)) = FirstLine(v)
  BY <1>a DEF DumpIsFaithful
<1> DEFINE lines == {i \in LineStarts(file) : /\ Has(LineAt(file, i), Delimiter)
                                              /\ KeyOf(LineAt(file, i)) = Watched}
<1>1. PICK K, V, P : Written(file \o writer.buf, K, V, P, node[l], had[l], Settable)
  BY DEF DumpOK
<1>2. node[l] = End /\ writer.buf = <<>> /\ file \in Seq(Symbols)
  BY DEF DumpOK, ServerOK, StreamsOK
<1>3. file \o writer.buf = file
  BY <1>2, ConcatEmptySeq
<1>4. Written(file, K, V, P, End, had[l], Settable)
  BY <1>1, <1>2, <1>3
<1>5. IsDump(file, K, V, P)
  BY <1>4 DEF Written
<1>6. AllKnown(file, K, V, Settable)
  BY <1>4 DEF Written, AllKnown
<1>7. ASSUME NEW i \in LineStarts(file)
      PROVE  /\ i \in lines <=> K[i] = Watched /\ P[i] = 1
             /\ i \in lines => ValueOf(LineAt(file, i)) = FirstLine(V[i])
  <2>1. /\ Has(LineAt(file, i), Delimiter) /\ KeyAt(file, i) = Watched <=> K[i] = Watched /\ P[i] = 1
        /\ K[i] = Watched /\ P[i] = 1 => ValueAt(file, i) = FirstLine(V[i])
    BY <1>2, <1>5, <1>6, <1>7, PlainLines
  <2> QED
    BY <1>7, <2>1 DEF KeyAt, ValueAt
<1>8. lines \subseteq LineStarts(file)
  OBVIOUS
<1> HIDE DEF lines
<1>9. Cardinality(lines) <= 1
  <2>1. \A i, j \in lines : i = j
    BY <1>5, <1>7, <1>8 DEF IsDump
  <2>2. CASE lines = {}
    BY <2>2, FS_EmptySet
  <2>3. CASE lines # {}
    <3>1. PICK i : lines = {i}
      BY <2>1, <2>3
    <3>2. Cardinality(lines) = 1
      BY <3>1, FS_Singleton, Zenon
    <3> QED
      BY <3>2
  <2> QED
    BY <2>2, <2>3
<1>10. lines = {} => <<>> \in had[l]
  BY <1>4, <1>7 DEF Written, Passed
<1>11. ASSUME NEW i \in lines
       PROVE  \E v \in had[l] \ {<<>>} : ValueOf(LineAt(file, i)) = FirstLine(v)
  <2>1. i \in LineStarts(file) /\ K[i] = Watched /\ ValueOf(LineAt(file, i)) = FirstLine(V[i])
    BY <1>7, <1>8
  <2>2. V[i] \in had[l] /\ V[i] # <<>>
    BY <1>4, <1>5, <2>1 DEF Written, IsDump, Words
  <2> QED
    BY <2>1, <2>2
<1> QED
  BY <1>9, <1>10, <1>11 DEF lines

\* What is in the file begins like the dump.
LEMMA LoadableDump ==
  ASSUME ListOK, StreamsOK, DumpOK
  PROVE  DumpCanBeLoaded
<1>1. /\ file \in Seq(Symbols) /\ writer.buf \in Seq(Symbols)
      /\ \A k \in DOMAIN db : k # <<>>
  BY DEF StreamsOK, Streams, ListOK, PairsOK, Words
<1> SUFFICES ASSUME NEW l \in Loops, overlap[l] = "quiet", pc[l] \in {"dump", "dumped"}
             PROVE  /\ \A k \in DOMAIN Pairs(Whole(file)) :
                         Plain(k, PairsIn(db)) => Pairs(file)[k] = FirstLine(ValueIn(db, k))
                    /\ pc[l] = "dumped" =>
                         \A k \in DOMAIN db :
                           Plain(k, PairsIn(db)) /\ FirstLine(db[k]) # <<>>
                             => k \in DOMAIN Pairs(Whole(file))
  BY DEF DumpCanBeLoaded, InDump
<1> DEFINE text == file \o writer.buf
<1>2. PICK K, V, P : /\ Written(text, K, V, P, node[l], had[l], Settable)
                     /\ Agrees(text, K, V, P, node[l], db)
  BY DEF DumpOK
<1>3. /\ text \in Seq(Symbols) /\ Len(text) = Len(file) + Len(writer.buf)
      /\ \A j \in 1 .. Len(file) : text[j] = file[j]
  BY <1>1, ConcatIs
<1>4. IsDump(text, K, V, P)
  BY <1>2 DEF Written
<1>5. pc[l] = "dumped" => node[l] = End /\ text = file
  <2>1. pc[l] = "dumped" => node[l] = End /\ writer.buf = <<>>
    BY DEF DumpOK
  <2> QED
    BY <1>1, <2>1, ConcatEmptySeq
<1> HIDE DEF text
<1>6. GoesOnAs(file, text)
  BY <1>1, <1>3 DEF GoesOnAs
<1>7. \A k \in DOMAIN Pairs(Whole(file)) :
        Plain(k, PairsIn(db)) => Pairs(file)[k] = FirstLine(ValueIn(db, k))
  BY <1>1, <1>2, <1>3, <1>4, <1>6, TornDumpIsRead
<1>8. ASSUME pc[l] = "dumped", NEW k \in DOMAIN db, Plain(k, PairsIn(db)), FirstLine(db[k]) # <<>>
      PROVE  k \in DOMAIN Pairs(Whole(file))
  <2>1. IsDump(file, K, V, P) /\ Agrees(file, K, V, P, End, db)
    BY <1>2, <1>4, <1>5, <1>8
  <2> QED
    BY <1>1, <1>8, <2>1, WholeDumpIsRead
<1> QED
  BY <1>7, <1>8

\* DumpIsFaithful and DumpCanBeLoaded rest on this.
DumpInv == TypeInv /\ AloneOK /\ StreamsFree /\ SettableOK /\ DumpOK /\ NothingDumped

LEMMA InitDump == Init => DumpInv
<1> SUFFICES ASSUME Init PROVE DumpInv
  OBVIOUS
<1>1. /\ pc = [l \in Loops |-> "idle"] /\ writer = Closed /\ reader = Closed
      /\ cmd = [l \in Loops |-> "none"] /\ DOMAIN db = {}
  BY DEF Init
<1>2. AloneOK /\ StreamsFree /\ SettableOK /\ DumpOK /\ NothingDumped
  BY <1>1 DEF AloneOK, StreamsFree, SettableOK, DumpOK, NothingDumped, UnderWay
<1> QED
  BY <1>2, InitTypes DEF DumpInv

LEMMA NextDump == DumpInv /\ [Next]_vars => DumpInv'
<1> SUFFICES ASSUME DumpInv, [Next]_vars PROVE DumpInv'
  OBVIOUS
<1>1. TypeInv /\ AloneOK /\ StreamsFree /\ SettableOK /\ DumpOK /\ NothingDumped
  BY DEF DumpInv
<1>2. TypeInv'
  BY <1>1, NextTypes
<1>3. ServerOK /\ ServerOK' /\ NodesOK /\ SearchOK
  BY <1>1, <1>2 DEF TypeInv
<1>4. CASE UNCHANGED serverVars
  <2>1. UNCHANGED <<sends, db, file, writer, reader, pc, cmd, key, value, node, overlap, had, kept>>
    BY <1>4 DEF serverVars, streamVars, handlerVars, historyVars
  <2>2. AloneOK' /\ StreamsFree' /\ SettableOK'
    BY <1>1, <2>1 DEF AloneOK, StreamsFree, SettableOK, Known, Settable, UnderWay, InDump, InLoad
  <2>3. DumpOK' /\ NothingDumped'
    <3>1. Settable' = Settable
      BY <2>1 DEF Settable
    <3> QED
      BY <1>1, <2>1, <3>1 DEF DumpOK, NothingDumped
  <2> QED
    BY <1>2, <2>2, <2>3 DEF DumpInv
<1>5. CASE StartsAgain
  <2>1. /\ pc' = [l \in Loops |-> "idle"] /\ writer' = Closed /\ reader' = Closed
        /\ cmd' = [l \in Loops |-> "none"] /\ DOMAIN db' = {}
    BY <1>5 DEF StartsAgain, Restart
  <2>2. (AloneOK /\ StreamsFree /\ SettableOK /\ DumpOK /\ NothingDumped)'
    BY <2>1 DEF AloneOK, StreamsFree, SettableOK, DumpOK, NothingDumped, UnderWay
  <2> QED
    BY <1>2, <2>2 DEF DumpInv
<1>6. ASSUME NEW m \in Loops, Moves(m) PROVE DumpInv'
  BY <1>1, <1>2, <1>3, <1>6, AloneStays, StreamsStayFree, SettableHolds, DumpHolds,
     NothingStaysDumped
  DEF DumpInv
<1> QED
  BY <1>4, <1>5, <1>6, Steps DEF Moves

\* A DUMP that no other DUMP overlaps gives each key one line with a value the key
\* had meanwhile, or what is before the first line end in it, and leaves out only a key
\* that was absent at some time, however inserts, assignments, deletions and loads run
\* under it.  When its file cannot be opened it changes nothing.
THEOREM DumpsAreFaithful == Spec => []DumpIsFaithful
<1>1. DumpInv => DumpIsFaithful
  BY FaithfulDump DEF DumpInv, TypeInv
<1> QED
  BY <1>1, InitDump, NextDump, PTL DEF Spec

\* Whenever the process dies in a DUMP that nothing overlaps and that has opened its
\* file, the whole lines of the file give their plain keys the first lines of the
\* values in the list, and when the DUMP is done they are there for all whose value
\* does not begin with a line end.
THEOREM TornDumpsCanBeLoaded == Spec => []DumpCanBeLoaded
<1>1. DumpInv => DumpCanBeLoaded
  BY LoadableDump DEF DumpInv, TypeInv, ServerOK
<1> QED
  BY <1>1, InitDump, NextDump, PTL DEF Spec

=============================================================================
