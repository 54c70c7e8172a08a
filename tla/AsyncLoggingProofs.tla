------------------------- MODULE AsyncLoggingProofs -------------------------
(***************************************************************************)
(* Proofs about AsyncLogging, for every line length, buffer size and number *)
(* of lines.                                                               *)
(*                                                                         *)
(* BackendNeverFails is not inductive: what the backend finds in toWrite   *)
(* depends on what it left in the front buffers a round earlier.  Nor is   *)
(* EveryLineKept: it needs the buffers set aside to be empty, and it needs  *)
(* to know what FlattenSeq does when a buffer is added behind or taken from *)
(* the front, which is proved by induction over the number of buffers.     *)
(***************************************************************************)
EXTENDS AsyncLogging, SequenceTheorems, WellFoundedInduction, TLAPS

\* The front end never lacks a current buffer, and has used up the next one
\* only by filling a buffer the backend has not taken yet.
FrontInv ==
  /\ current # NoBuffer
  /\ next = NoBuffer => Len(buffers) > 0

\* Before it takes the front buffers the backend has two empty ones and nothing
\* to write; afterwards toWrite holds one for each buffer it has to get back.
BackInv ==
  /\ owner = "created" => backend = "none" /\ toWrite = <<>>
  /\ backend \in {"test", "lock", "wait"} => Asserted
  /\ backend = "write" =>
       /\ newBuffer1 = NoBuffer
       /\ Len(toWrite) > 0
       /\ IF newBuffer2 = NoBuffer THEN Len(toWrite) > 1
                                   ELSE newBuffer2.length = 0
  /\ backend # "abort"

IInv == TypeOK /\ FrontInv /\ BackInv

----------------------------------------------------------------------------
\* An empty buffer is a buffer.
LEMMA EmptyIsBuffer == EmptyBuffer \in Buffer /\ EmptyBuffer # NoBuffer
<1>1. 0 \in 0 .. (Capacity - 1)
  BY LoggingAssumption
<1>2. EmptyBuffer \in Buffer
  BY <1>1 DEF EmptyBuffer, Buffer
<1> QED
  BY <1>2, LoggingAssumption

\* Put keeps a buffer a buffer, whether the line fits or not.
LEMMA PutIsBuffer ==
  ASSUME NEW b \in Buffer, NEW line \in Line
  PROVE  Put(b, line) \in Buffer
<1>1. b.data \in Seq(Line) /\ b.length \in 0 .. (Capacity - 1)
  BY DEF Buffer
<1>2. line.len \in Nat
  <2>1. line.len \in Lengths
    BY DEF Line
  <2>2. Lengths \subseteq Nat
    BY LoggingAssumption
  <2> QED
    BY <2>1, <2>2
<1>3. CASE Avail(b) > line.len
  <2>1. b.length + line.len \in 0 .. (Capacity - 1)
    BY <1>1, <1>2, <1>3, LoggingAssumption DEF Avail
  <2>2. Append(b.data, line) \in Seq(Line)
    BY <1>1
  <2> QED
    BY <1>3, <2>1, <2>2 DEF Put, Buffer
<1>4. CASE ~(Avail(b) > line.len)
  BY <1>4 DEF Put
<1> QED
  BY <1>3, <1>4

\* The invariant holds when the log is constructed.
LEMMA InitInv == Init => IInv
<1> SUFFICES ASSUME Init PROVE IInv
  OBVIOUS
<1>1. TypeOK
  <2>1. Len(logged) <= MaxLines
    BY LoggingAssumption DEF Init
  <2>2. written \in 0 .. Len(toWrite)
    BY DEF Init
  <2>3. /\ buffers \in Seq(Buffer) /\ toWrite \in Seq(Buffer)
        /\ file \in Seq(Line) /\ logged \in Seq(Line)
    BY DEF Init
  <2>4. current \in Buffer /\ next \in Buffer
    BY EmptyIsBuffer DEF Init
  <2>5. running \in BOOLEAN /\ loggedAtStop \in Nat
    BY DEF Init
  <2> QED
    BY <2>1, <2>2, <2>3, <2>4, <2>5, Zenon DEF Init, TypeOK
<1>2. FrontInv
  BY EmptyIsBuffer DEF Init, FrontInv
<1>3. BackInv
  BY DEF Init, BackInv
<1> QED
  BY <1>1, <1>2, <1>3 DEF IInv

\* A line is appended: the front end keeps a current buffer.
LEMMA AppendLineInv ==
  ASSUME IInv, NEW len \in Lengths, AppendLine(len)
  PROVE  IInv'
<1> DEFINE line == [id |-> Len(logged) + 1, len |-> len]
<1>1. TypeOK /\ FrontInv /\ BackInv
  BY DEF IInv
<1>2. current \in Buffer
  BY <1>1 DEF TypeOK
<1>3. line \in Line
  BY <1>1, LoggingAssumption DEF TypeOK, AppendLine, Line
<1>4. logged' = Append(logged, line) /\ Len(logged) < MaxLines
  BY DEF AppendLine
<1>5. logged' \in Seq(Line) /\ Len(logged') <= MaxLines
  BY <1>1, <1>3, <1>4, LoggingAssumption DEF TypeOK
<1>6. UNCHANGED <<running, owner, backend, backVars, file, loggedAtStop>>
  BY DEF AppendLine
<1>7. CASE Avail(current) > len
  <2>1. current' = Put(current, line) /\ UNCHANGED <<next, buffers>>
    BY <1>7 DEF AppendLine
  <2>2. current' \in Buffer
    BY <1>2, <1>3, <2>1, PutIsBuffer
  <2>3. TypeOK'
    BY <1>1, <1>5, <1>6, <2>1, <2>2 DEF TypeOK, backVars
  <2>4. FrontInv'
    BY <1>1, <2>1, <2>2, LoggingAssumption DEF FrontInv
  <2>5. BackInv'
    BY <1>1, <1>6 DEF BackInv, backVars, Asserted
  <2> QED
    BY <2>3, <2>4, <2>5 DEF IInv
<1>8. CASE ~(Avail(current) > len)
  <2> DEFINE fresh == IF next # NoBuffer THEN next ELSE EmptyBuffer
  <2>1. /\ buffers' = Append(buffers, current)
        /\ current' = Put(fresh, line)
        /\ next' = NoBuffer
    BY <1>8 DEF AppendLine, SwitchAndPut
  <2>2. fresh \in Buffer
    BY <1>1, EmptyIsBuffer DEF TypeOK
  <2> HIDE DEF fresh, line
  <2>3. current' \in Buffer
    BY <1>3, <2>1, <2>2, PutIsBuffer
  <2>4. buffers' \in Seq(Buffer) /\ Len(buffers') > 0
    BY <1>1, <1>2, <2>1 DEF TypeOK
  <2>5. TypeOK'
    BY <1>1, <1>5, <1>6, <2>1, <2>3, <2>4 DEF TypeOK, backVars
  <2>6. FrontInv'
    BY <2>1, <2>3, <2>4, LoggingAssumption DEF FrontInv
  <2>7. BackInv'
    BY <1>1, <1>6 DEF BackInv, backVars, Asserted
  <2> QED
    BY <2>5, <2>6, <2>7 DEF IInv
<1> QED
  BY <1>7, <1>8

\* start(), stop() and its join touch no buffer but threadFunc's own two.
LEMMA OwnerInv ==
  ASSUME IInv, Start \/ Stop \/ Join
  PROVE  IInv'
<1>1. TypeOK /\ FrontInv /\ BackInv
  BY DEF IInv
<1>2. CASE Start
  <2>1. TypeOK'
    BY <1>1, <1>2, EmptyIsBuffer DEF TypeOK, Start, frontVars
  <2>2. FrontInv'
    BY <1>1, <1>2 DEF FrontInv, Start, frontVars
  <2>3. BackInv'
    BY <1>1, <1>2, EmptyIsBuffer DEF BackInv, Start, frontVars, Asserted,
       EmptyBuffer
  <2> QED
    BY <2>1, <2>2, <2>3 DEF IInv
<1>3. CASE Stop
  <2>1. running' = FALSE /\ owner' = "joining" /\ loggedAtStop' \in Nat
    BY <1>1, <1>3 DEF TypeOK, Stop
  <2>2. UNCHANGED <<frontVars, backend, backVars, file, logged>>
    BY <1>3 DEF Stop
  <2>3. TypeOK'
    BY <1>1, <2>1, <2>2 DEF TypeOK, frontVars, backVars
  <2>4. FrontInv' /\ BackInv'
    BY <1>1, <2>1, <2>2 DEF FrontInv, BackInv, frontVars, backVars, Asserted
  <2> QED
    BY <2>3, <2>4 DEF IInv
<1>4. CASE Join
  <2>1. TypeOK'
    BY <1>1, <1>4 DEF TypeOK, Join, frontVars, backVars
  <2>2. FrontInv' /\ BackInv'
    BY <1>1, <1>4 DEF FrontInv, BackInv, Join, frontVars, backVars, Asserted
  <2> QED
    BY <2>1, <2>2 DEF IInv
<1> QED
  BY <1>2, <1>3, <1>4

\* The loop test, the wait and the writing.
LEMMA QuietBackendInv ==
  ASSUME IInv, Test \/ Wait \/ WriteBuffer
  PROVE  IInv'
<1>1. TypeOK /\ FrontInv /\ BackInv
  BY DEF IInv
<1>2. CASE Test
  <2>1. owner # "created"
    BY <1>1, <1>2 DEF BackInv, Test
  <2>2. backend' \in {"done", "lock"}
    BY <1>1, <1>2 DEF BackInv, Test, TypeOK
  <2>3. TypeOK'
    BY <1>1, <1>2, <2>2 DEF TypeOK, Test, frontVars, backVars
  <2>4. FrontInv' /\ BackInv'
    BY <1>1, <1>2, <2>1, <2>2 DEF FrontInv, BackInv, Test, frontVars, backVars,
       Asserted
  <2> QED
    BY <2>3, <2>4 DEF IInv
<1>3. CASE Wait
  <2>1. TypeOK'
    BY <1>1, <1>3 DEF TypeOK, Wait, frontVars, backVars
  <2>2. FrontInv' /\ BackInv'
    BY <1>1, <1>3 DEF FrontInv, BackInv, Wait, frontVars, backVars, Asserted
  <2> QED
    BY <2>1, <2>2 DEF IInv
<1>4. CASE WriteBuffer
  <2>1. written + 1 \in 1 .. Len(toWrite)
    BY <1>1, <1>4 DEF TypeOK, WriteBuffer
  <2>2. toWrite[written + 1].data \in Seq(Line)
    <3>1. toWrite[written + 1] \in Buffer
      BY <1>1, <2>1 DEF TypeOK
    <3> QED
      BY <3>1 DEF Buffer
  <2>3. file' \in Seq(Line)
    BY <1>1, <1>4, <2>2 DEF TypeOK, WriteBuffer
  <2>4. TypeOK'
    BY <1>1, <1>4, <2>1, <2>3 DEF TypeOK, WriteBuffer, frontVars
  <2>5. FrontInv' /\ BackInv'
    BY <1>1, <1>4 DEF FrontInv, BackInv, WriteBuffer, frontVars, Asserted
  <2> QED
    BY <2>4, <2>5 DEF IInv
<1> QED
  BY <1>2, <1>3, <1>4

\* A next buffer that was used up means a full buffer besides the current one:
\* toWrite then has the two that Recycle will need.
LEMMA SwapInv ==
  ASSUME IInv, Swap
  PROVE  IInv'
<1>1. TypeOK /\ FrontInv /\ BackInv
  BY DEF IInv
<1>2. Asserted /\ owner # "created"
  BY <1>1 DEF BackInv, Swap
<1>3. /\ toWrite' = Append(buffers, current)
      /\ buffers' = <<>> /\ current' = newBuffer1 /\ newBuffer1' = NoBuffer
      /\ written' = 0 /\ backend' = "write"
      /\ UNCHANGED <<running, owner, file, logged, loggedAtStop>>
  BY <1>2 DEF Swap, Asserted
<1>4. /\ toWrite' \in Seq(Buffer)
      /\ Len(toWrite') = Len(buffers) + 1 /\ Len(buffers) \in Nat
  BY <1>1, <1>3 DEF TypeOK
<1>5. newBuffer1 \in Buffer /\ newBuffer2 \in Buffer /\ newBuffer2.length = 0
  BY <1>1, <1>2 DEF TypeOK, Asserted
<1>6. CASE next = NoBuffer
  <2>1. next' = newBuffer2 /\ newBuffer2' = NoBuffer
    BY <1>6 DEF Swap
  <2>2. TypeOK'
    BY <1>1, <1>3, <1>4, <1>5, <2>1 DEF TypeOK
  <2>3. FrontInv'
    BY <1>3, <1>5, <2>1, LoggingAssumption DEF FrontInv
  <2>4. BackInv'
    BY <1>1, <1>2, <1>3, <1>4, <1>6, <2>1 DEF BackInv, FrontInv
  <2> QED
    BY <2>2, <2>3, <2>4 DEF IInv
<1>7. CASE next # NoBuffer
  <2>1. UNCHANGED <<next, newBuffer2>>
    BY <1>7 DEF Swap
  <2>2. TypeOK'
    BY <1>1, <1>3, <1>4, <1>5, <2>1 DEF TypeOK
  <2>3. FrontInv'
    BY <1>3, <1>5, <1>7, <2>1, LoggingAssumption DEF FrontInv
  <2>4. BackInv'
    BY <1>2, <1>3, <1>4, <1>5, <2>1, LoggingAssumption DEF BackInv
  <2> QED
    BY <2>2, <2>3, <2>4 DEF IInv
<1> QED
  BY <1>6, <1>7

\* Both buffers can be returned, and they are returned empty.
LEMMA RecycleInv ==
  ASSUME IInv, Recycle
  PROVE  IInv'
<1>1. TypeOK /\ FrontInv /\ BackInv
  BY DEF IInv
<1>2. /\ newBuffer1 = NoBuffer /\ Len(toWrite) > 0
      /\ newBuffer2 = NoBuffer => Len(toWrite) > 1
      /\ newBuffer2 # NoBuffer => newBuffer2.length = 0
      /\ owner # "created"
  BY <1>1 DEF BackInv, Recycle
<1>3. toWrite \in Seq(Buffer) /\ Len(toWrite) \in Nat
  BY <1>1 DEF TypeOK
<1>4. Len(Kept) \in Nat /\ Len(Kept) >= (IF Len(toWrite) > 1 THEN 2 ELSE 1)
  BY <1>2, <1>3 DEF Kept
<1>5. /\ newBuffer1' = EmptyBuffer
      /\ newBuffer2' = IF newBuffer2 = NoBuffer THEN EmptyBuffer
                                                ELSE newBuffer2
      /\ toWrite' = <<>> /\ backend' = "test" /\ written' = 0
      /\ UNCHANGED <<running, owner, frontVars, file, logged, loggedAtStop>>
  BY <1>2, <1>3, <1>4 DEF Recycle, Reset
<1>6. newBuffer2' \in Buffer /\ newBuffer2' # NoBuffer /\ newBuffer2'.length = 0
  BY <1>1, <1>2, <1>5, EmptyIsBuffer DEF TypeOK, EmptyBuffer
<1>7. TypeOK'
  BY <1>1, <1>5, <1>6, EmptyIsBuffer DEF TypeOK, frontVars
<1>8. FrontInv'
  BY <1>1, <1>5 DEF FrontInv, frontVars
<1>9. BackInv'
  BY <1>2, <1>5, <1>6, EmptyIsBuffer DEF BackInv, Asserted, EmptyBuffer
<1> QED
  BY <1>7, <1>8, <1>9 DEF IInv

\* Every step keeps the invariant.
LEMMA NextInv == IInv /\ [Next]_vars => IInv'
<1> SUFFICES ASSUME IInv, [Next]_vars PROVE IInv'
  OBVIOUS
<1>1. ASSUME NEW len \in Lengths, AppendLine(len) PROVE IInv'
  BY <1>1, AppendLineInv
<1>2. CASE Start \/ Stop \/ Join
  BY <1>2, OwnerInv
<1>3. CASE Test \/ Wait \/ WriteBuffer
  BY <1>3, QuietBackendInv
<1>4. CASE Swap
  BY <1>4, SwapInv
<1>5. CASE Recycle
  BY <1>5, RecycleInv
<1>6. CASE UNCHANGED vars
  BY <1>6 DEF IInv, TypeOK, FrontInv, BackInv, Asserted, vars, frontVars,
     backVars
<1> QED
  BY <1>1, <1>2, <1>3, <1>4, <1>5, <1>6 DEF Next, BackendStep

\* Every behaviour keeps the inductive invariant.
THEOREM Invariant == Spec => []IInv
<1>1. Init => IInv
  BY InitInv
<1>2. IInv /\ [Next]_vars => IInv'
  BY NextInv
<1> QED
  BY <1>1, <1>2, PTL DEF Spec

\* Every variable keeps its type, and no buffer is ever filled to its last byte.
THEOREM TypeCorrect == Spec => []TypeOK
<1>1. IInv => TypeOK
  BY DEF IInv
<1> QED
  BY <1>1, Invariant, PTL

\* threadFunc's assertions hold on every round and back() always finds a buffer,
\* however many buffers the front end fills while the backend is writing.
THEOREM BackendIsSafe == Spec => []BackendNeverFails
<1>1. IInv => BackendNeverFails
  BY DEF IInv, BackInv, BackendNeverFails
<1> QED
  BY <1>1, Invariant, PTL

----------------------------------------------------------------------------
(* Induction *)

\* The numbers below another one.
Below == {pair \in Nat \X Nat : pair[1] < pair[2]}

\* A set of numbers that is not empty has a least element.
LEMMA Least ==
  ASSUME NEW T \in SUBSET Nat, T # {}
  PROVE  \E n \in T : \A m \in T : n <= m
<1>1. IsWellFoundedOn(Below, Nat)
  BY NatLessThanWellFounded DEF OpToRel, Below
<1>2. \E n \in T : \A m \in T : <<m, n>> \notin Below
  BY <1>1, WFMin
<1>3. \A m, n \in Nat : <<m, n>> \in Below <=> m < n
  BY DEF Below
<1>4. PICK n \in T : \A m \in T : ~(m < n)
  BY <1>2, <1>3
<1>5. \A m \in T : n <= m
  BY <1>4
<1> QED
  BY <1>5

\* Induction, for a set in place of a predicate.
LEMMA Induction ==
  ASSUME NEW T \in SUBSET Nat, 0 \in T, \A n \in T : n + 1 \in T
  PROVE  T = Nat
<1> SUFFICES ASSUME Nat \ T # {} PROVE FALSE
  OBVIOUS
<1>1. PICK n \in Nat \ T : \A m \in Nat \ T : n <= m
  BY Least
<1>2. n # 0 /\ n - 1 \in Nat /\ n - 1 \notin T
  BY <1>1
<1> QED
  BY <1>1, <1>2

----------------------------------------------------------------------------
(* FlattenSeq *)

\* f[i] is the concatenation of the first i of some sequences, up to n.
Flattens(f, seqs, n) ==
  \A i \in 1 .. n : f[i] = IF i = 1 THEN seqs[i] ELSE f[i - 1] \o seqs[i]

\* There is at most one such function, and it depends on those sequences only.
LEMMA FlattensOnce ==
  ASSUME NEW f, NEW g, NEW s, NEW t, NEW n \in Nat,
         Flattens(f, s, n), Flattens(g, t, n), \A i \in 1 .. n : s[i] = t[i]
  PROVE  \A i \in 1 .. n : f[i] = g[i]
<1> DEFINE T == {i \in Nat : i \in 1 .. n => f[i] = g[i]}
<1>1. 0 \in T
  OBVIOUS
<1>2. ASSUME NEW i \in T PROVE i + 1 \in T
  <2> SUFFICES ASSUME i + 1 \in 1 .. n PROVE f[i + 1] = g[i + 1]
    OBVIOUS
  <2>1. CASE i = 0
    BY <2>1 DEF Flattens
  <2>2. CASE i # 0
    <3>1. f[i] = g[i] /\ i + 1 # 1 /\ (i + 1) - 1 = i
      BY <2>2
    <3>2. f[i + 1] = f[i] \o s[i + 1] /\ g[i + 1] = g[i] \o t[i + 1]
      BY <3>1, Zenon DEF Flattens
    <3> QED
      BY <3>1, <3>2
  <2> QED
    BY <2>1, <2>2
<1>t. T \in SUBSET Nat
  OBVIOUS
<1> HIDE DEF T
<1>3. T = Nat
  BY <1>t, <1>1, <1>2, Induction
<1>4. \A i \in 1 .. n : i \in T
  BY <1>3
<1> QED
  BY <1>4 DEF T

\* There is such a function.
LEMMA FlattensExists ==
  ASSUME NEW S, NEW s \in Seq(Seq(S)), NEW n \in 0 .. Len(s)
  PROVE  \E f \in [1 .. n -> Seq(S)] : Flattens(f, s, n)
<1> DEFINE T == {i \in Nat : i <= Len(s) => \E f \in [1 .. i -> Seq(S)] : Flattens(f, s, i)}
<1>1. 0 \in T
  <2>1. [i \in 1 .. 0 |-> <<>>] \in [1 .. 0 -> Seq(S)]
    OBVIOUS
  <2>2. \A f : Flattens(f, s, 0)
    BY DEF Flattens
  <2> QED
    BY <2>1, <2>2, Zenon
<1>2. ASSUME NEW i \in T PROVE i + 1 \in T
  <2> SUFFICES ASSUME i + 1 <= Len(s)
               PROVE  \E f \in [1 .. (i + 1) -> Seq(S)] : Flattens(f, s, i + 1)
    OBVIOUS
  <2>1. Len(s) \in Nat /\ \A j \in 1 .. Len(s) : s[j] \in Seq(S)
    OBVIOUS
  <2>2. PICK f \in [1 .. i -> Seq(S)] : Flattens(f, s, i)
    BY <2>1
  <2> DEFINE last == IF i = 0 THEN s[1] ELSE f[i] \o s[i + 1]
             g == [j \in 1 .. (i + 1) |-> IF j = i + 1 THEN last ELSE f[j]]
  <2>3. last \in Seq(S)
    <3>1. CASE i = 0
      BY <2>1, <3>1
    <3>2. CASE i # 0
      <4>1. f[i] \in Seq(S) /\ s[i + 1] \in Seq(S)
        BY <2>1, <3>2
      <4> QED
        BY <3>2, <4>1, ConcatProperties
    <3> QED
      BY <3>1, <3>2
  <2>4. g \in [1 .. (i + 1) -> Seq(S)]
    BY <2>3
  <2>5. ASSUME NEW j \in 1 .. (i + 1)
        PROVE  g[j] = IF j = 1 THEN s[j] ELSE g[j - 1] \o s[j]
    <3>1. CASE j = i + 1
      BY <3>1
    <3>2. CASE j # i + 1
      <4>1. j \in 1 .. i /\ (j # 1 => j - 1 \in 1 .. i)
        BY <3>2
      <4>2. g[j] = f[j] /\ (j # 1 => g[j - 1] = f[j - 1])
        BY <3>2, <4>1
      <4>3. f[j] = IF j = 1 THEN s[j] ELSE f[j - 1] \o s[j]
        BY <2>2, <4>1 DEF Flattens
      <4> QED
        BY <4>2, <4>3
    <3> QED
      BY <3>1, <3>2
  <2> HIDE DEF g
  <2> QED
    BY <2>4, <2>5 DEF Flattens
<1>t. T \in SUBSET Nat
  OBVIOUS
<1> HIDE DEF T
<1>3. T = Nat
  BY <1>t, <1>1, <1>2, Induction
<1>4. n \in T /\ Len(s) \in Nat
  BY <1>3
<1> QED
  BY <1>4 DEF T

\* FlattenSeq of sequences is the value of such a function.
LEMMA FlattenSeqValue ==
  ASSUME NEW S, NEW s \in Seq(Seq(S)), s # <<>>
  PROVE  \E f \in [1 .. Len(s) -> Seq(S)] :
           Flattens(f, s, Len(s)) /\ FlattenSeq(s) = f[Len(s)]
<1> DEFINE body(g) == [i \in 1 .. Len(s) |-> IF i = 1 THEN s[i] ELSE g[i - 1] \o s[i]]
           flatten == CHOOSE g : g = body(g)
<1>1. Len(s) \in Nat /\ Len(s) # 0
  BY EmptySeq
<1>2. PICK f \in [1 .. Len(s) -> Seq(S)] : Flattens(f, s, Len(s))
  <2>1. Len(s) \in 0 .. Len(s)
    BY <1>1
  <2> QED
    BY <2>1, FlattensExists
<1>3. f = body(f)
  BY <1>2 DEF Flattens
<1> HIDE DEF body
<1>4. flatten = body(flatten)
  BY <1>3
<1>5. FlattenSeq(s) = flatten[Len(s)]
  BY <1>1 DEF FlattenSeq, body
<1> HIDE DEF flatten
<1>6. Flattens(flatten, s, Len(s))
  BY <1>4 DEF body, Flattens
<1>7. \A i \in 1 .. Len(s) : f[i] = flatten[i]
  BY <1>1, <1>2, <1>6, FlattensOnce
<1>8. f[Len(s)] = flatten[Len(s)]
  BY <1>1, <1>7
<1> QED
  BY <1>2, <1>5, <1>8, Zenon

\* No sequences concatenate to the empty one.
LEMMA FlattenEmpty == FlattenSeq(<<>>) = <<>>
BY DEF FlattenSeq

\* Sequences over a set concatenate to one over that set.
LEMMA FlattenType ==
  ASSUME NEW S, NEW s \in Seq(Seq(S))
  PROVE  FlattenSeq(s) \in Seq(S)
<1>1. CASE s = <<>>
  BY <1>1, FlattenEmpty, EmptySeq
<1>2. CASE s # <<>>
  <2>1. Len(s) \in Nat \ {0}
    BY <1>2, EmptySeq
  <2>2. PICK f \in [1 .. Len(s) -> Seq(S)] : FlattenSeq(s) = f[Len(s)]
    BY <1>2, FlattenSeqValue
  <2>3. f[Len(s)] \in Seq(S)
    <3>1. \A n \in Nat \ {0} : n \in 1 .. n
      OBVIOUS
    <3> QED
      BY <2>1, <2>2, <3>1, Zenon
  <2> QED
    BY <2>2, <2>3
<1> QED
  BY <1>1, <1>2

\* One more sequence is concatenated behind the others.
LEMMA FlattenAppend ==
  ASSUME NEW S, NEW s \in Seq(Seq(S)), NEW x \in Seq(S)
  PROVE  FlattenSeq(Append(s, x)) = FlattenSeq(s) \o x
<1> DEFINE t == Append(s, x)
           n == Len(s)
<1>0. \A m \in Nat : \A i \in 1 .. m : i \in 1 .. (m + 1)
  OBVIOUS
<1>1. /\ t \in Seq(Seq(S)) /\ t # <<>> /\ n \in Nat /\ Len(t) = n + 1
      /\ t[n + 1] = x /\ \A i \in 1 .. n : s[i] = t[i]
  BY AppendProperties, LenProperties
<1> HIDE DEF t
<1>2. PICK g : Flattens(g, t, n + 1) /\ FlattenSeq(t) = g[n + 1]
  BY <1>1, FlattenSeqValue
<1>3. CASE s = <<>>
  <2>1. n = 0
    BY <1>3, EmptySeq
  <2>2. g[1] = t[1]
    BY <1>2, <2>1 DEF Flattens
  <2>3. FlattenSeq(t) = x
    BY <1>1, <1>2, <2>1, <2>2
  <2> QED
    BY <1>3, <2>3, FlattenEmpty, ConcatEmptySeq DEF t
<1>4. CASE s # <<>>
  <2>1. n # 0 /\ n \in 1 .. n
    BY <1>1, <1>4, EmptySeq
  <2>2. PICK f : Flattens(f, s, n) /\ FlattenSeq(s) = f[n]
    BY <1>4, FlattenSeqValue
  <2>3. Flattens(g, t, n)
    BY <1>0, <1>1, <1>2, Zenon DEF Flattens
  <2>4. f[n] = g[n]
    <3>1. \A i \in 1 .. n : f[i] = g[i]
      <4>1. n \in Nat /\ \A i \in 1 .. n : s[i] = t[i]
        BY <1>1
      <4>2. Flattens(f, s, n)
        BY <2>2
      <4> HIDE DEF n
      <4> QED
        BY <4>1, <4>2, <2>3, FlattensOnce
    <3> QED
      BY <2>1, <3>1
  <2>5. g[n + 1] = g[n] \o t[n + 1]
    <3>1. n + 1 \in 1 .. (n + 1) /\ n + 1 # 1 /\ (n + 1) - 1 = n
      BY <1>1, <2>1
    <3> QED
      BY <1>2, <3>1, Zenon DEF Flattens
  <2> QED
    BY <1>1, <1>2, <2>2, <2>4, <2>5 DEF t
<1> QED
  BY <1>3, <1>4

\* A sequence without its first element.
LEMMA Rest ==
  ASSUME NEW S, NEW s \in Seq(S), s # <<>>
  PROVE  /\ s[1] \in S
         /\ SubSeq(s, 2, Len(s)) \in Seq(S)
         /\ Len(SubSeq(s, 2, Len(s))) = Len(s) - 1
         /\ \A i \in 1 .. (Len(s) - 1) : SubSeq(s, 2, Len(s))[i] = s[i + 1]
<1>1. Tail(s) = SubSeq(s, 2, Len(s))
  BY TailIsSubSeq
<1>2. Len(Tail(s)) = Len(s) - 1 /\ Tail(s) \in Seq(S)
  BY HeadTailProperties
<1>3. \A i \in 1 .. Len(Tail(s)) : Tail(s)[i] = s[i + 1]
  BY HeadTailProperties
<1>4. s[1] \in S
  <2>1. Len(s) \in Nat \ {0} /\ \A i \in 1 .. Len(s) : s[i] \in S
    BY EmptySeq
  <2> QED
    BY <2>1
<1> QED
  BY <1>1, <1>2, <1>3, <1>4

\* Taking the first element off commutes with appending.
LEMMA RestOfAppend ==
  ASSUME NEW S, NEW s \in Seq(S), NEW x \in S, s # <<>>
  PROVE  /\ Append(s, x)[1] = s[1]
         /\ SubSeq(Append(s, x), 2, Len(Append(s, x)))
              = Append(SubSeq(s, 2, Len(s)), x)
<1>1. Append(s, x) \in Seq(S) /\ Append(s, x) # <<>>
  BY AppendProperties
<1>2. Tail(Append(s, x)) = Append(Tail(s), x) /\ Head(Append(s, x)) = Head(s)
  BY HeadTailAppend
<1>3. Tail(s) = SubSeq(s, 2, Len(s))
  BY TailIsSubSeq
<1>4. Tail(Append(s, x)) = SubSeq(Append(s, x), 2, Len(Append(s, x)))
  BY <1>1, TailIsSubSeq
<1>5. Append(s, x)[1] = s[1]
  <2>1. Len(s) \in Nat \ {0}
    BY EmptySeq
  <2> QED
    BY <2>1, AppendProperties
<1> QED
  BY <1>2, <1>3, <1>4, <1>5

\* The concatenation of sequences starts with the first one.
LEMMA FlattenHead ==
  ASSUME NEW S
  PROVE  \A s \in Seq(Seq(S)) :
           s # <<>> => FlattenSeq(s) = s[1] \o FlattenSeq(SubSeq(s, 2, Len(s)))
<1> DEFINE P(u) == FlattenSeq(u) = u[1] \o FlattenSeq(SubSeq(u, 2, Len(u)))
           T == {n \in Nat : \A u \in Seq(Seq(S)) : Len(u) = n + 1 => P(u)}
<1>0. ASSUME NEW u, NEW x, u \in Seq(Seq(S)), x \in Seq(S), u = <<>> \/ P(u)
      PROVE  P(Append(u, x))
  <2>1. FlattenSeq(Append(u, x)) = FlattenSeq(u) \o x
    BY <1>0, FlattenAppend
  <2>2. CASE u = <<>>
    <3>1. Append(u, x)[1] = x /\ Len(Append(u, x)) = 1
      BY <2>2
    <3>2. SubSeq(Append(u, x), 2, Len(Append(u, x))) = <<>>
      BY <3>1, SubSeqEmpty
    <3>3. <<>> \o x = x /\ x \o <<>> = x
      BY <1>0, ConcatEmptySeq
    <3> QED
      BY <2>1, <2>2, <3>1, <3>2, <3>3, FlattenEmpty
  <2>3. CASE u # <<>>
    <3> DEFINE w == SubSeq(u, 2, Len(u))
    <3>1. /\ Append(u, x)[1] = u[1]
          /\ SubSeq(Append(u, x), 2, Len(Append(u, x))) = Append(w, x)
      BY <1>0, <2>3, RestOfAppend
    <3>2. FlattenSeq(u) = u[1] \o FlattenSeq(w)
      BY <1>0, <2>3
    <3>3. u[1] \in Seq(S) /\ w \in Seq(Seq(S))
      BY <1>0, <2>3, Rest
    <3> HIDE DEF w
    <3>4. FlattenSeq(w) \in Seq(S) /\ FlattenSeq(Append(w, x)) = FlattenSeq(w) \o x
      BY <1>0, <3>3, FlattenType, FlattenAppend
    <3>5. (u[1] \o FlattenSeq(w)) \o x = u[1] \o (FlattenSeq(w) \o x)
      <4> DEFINE a == u[1]
                 b == FlattenSeq(w)
      <4>1. a \in Seq(S) /\ b \in Seq(S) /\ x \in Seq(S)
        BY <1>0, <3>3, <3>4
      <4> HIDE DEF a, b
      <4>2. (a \o b) \o x = a \o (b \o x)
        BY <4>1, ConcatAssociative
      <4> QED
        BY <4>2 DEF a, b
    <3> QED
      BY <2>1, <3>1, <3>2, <3>4, <3>5
  <2> QED
    BY <2>2, <2>3
<1> HIDE DEF P
<1>1. 0 \in T
  <2>1. ASSUME NEW u, u \in Seq(Seq(S)), Len(u) = 1 PROVE P(u)
    <3>1. u # <<>>
      <4>1. Len(u) # 0
        BY <2>1
      <4> QED
        BY <4>1
    <3>2. PICK v \in Seq(Seq(S)), x \in Seq(S) : u = Append(v, x)
      BY <2>1, <3>1, SequenceEmptyOrAppend
    <3>3. v = <<>>
      BY <2>1, <3>2
    <3> QED
      BY <1>0, <3>2, <3>3
  <2> QED
    BY <2>1
<1>2. ASSUME NEW n \in T PROVE n + 1 \in T
  <2>1. ASSUME NEW u, u \in Seq(Seq(S)), Len(u) = (n + 1) + 1 PROVE P(u)
    <3>1. u # <<>>
      <4>1. Len(u) # 0
        BY <2>1
      <4> QED
        BY <4>1
    <3>2. PICK v \in Seq(Seq(S)), x \in Seq(S) : u = Append(v, x)
      BY <2>1, <3>1, SequenceEmptyOrAppend
    <3>3. Len(v) = n + 1
      BY <2>1, <3>2
    <3>4. P(v)
      BY <3>3
    <3> QED
      BY <1>0, <3>2, <3>4
  <2> QED
    BY <2>1
<1>t. T \in SUBSET Nat
  OBVIOUS
<1> HIDE DEF T
<1>3. T = Nat
  BY <1>t, <1>1, <1>2, Induction
<1>4. ASSUME NEW s, s \in Seq(Seq(S)), s # <<>> PROVE P(s)
  <2>1. Len(s) - 1 \in Nat /\ Len(s) = (Len(s) - 1) + 1
    BY <1>4, EmptySeq
  <2>2. Len(s) - 1 \in T
    BY <1>3, <2>1
  <2> QED
    BY <1>4, <2>1, <2>2 DEF T
<1> QED
  BY <1>4 DEF P

----------------------------------------------------------------------------
(* The lines in some buffers *)

\* The contents of each of some buffers.
Datas(bufs) == [i \in DOMAIN bufs |-> bufs[i].data]

\* There is one sequence of lines for each buffer.
LEMMA DatasType ==
  ASSUME NEW bufs \in Seq(Buffer)
  PROVE  /\ Datas(bufs) \in Seq(Seq(Line)) /\ Len(Datas(bufs)) = Len(bufs)
         /\ \A i \in 1 .. Len(bufs) : Datas(bufs)[i] = bufs[i].data
<1>1. Len(bufs) \in Nat /\ DOMAIN bufs = 1 .. Len(bufs)
  OBVIOUS
<1>2. \A i \in 1 .. Len(bufs) : bufs[i].data \in Seq(Line)
  <2>1. \A i \in 1 .. Len(bufs) : bufs[i] \in Buffer
    BY <1>1
  <2> QED
    BY <2>1 DEF Buffer
<1>3. Datas(bufs) = [i \in 1 .. Len(bufs) |-> bufs[i].data]
  BY <1>1 DEF Datas
<1> QED
  BY <1>1, <1>2, <1>3

\* A sequence of buffers without the first one.
LEMMA DatasRest ==
  ASSUME NEW bufs \in Seq(Buffer), bufs # <<>>
  PROVE  /\ Datas(bufs) # <<>>
         /\ SubSeq(Datas(bufs), 2, Len(Datas(bufs)))
              = Datas(SubSeq(bufs, 2, Len(bufs)))
<1> DEFINE rest == SubSeq(bufs, 2, Len(bufs))
           left == SubSeq(Datas(bufs), 2, Len(Datas(bufs)))
<1>1. /\ Datas(bufs) \in Seq(Seq(Line)) /\ Len(Datas(bufs)) = Len(bufs)
      /\ \A i \in 1 .. Len(bufs) : Datas(bufs)[i] = bufs[i].data
  BY DatasType
<1>2. Len(bufs) \in Nat \ {0}
  BY EmptySeq
<1>3. Datas(bufs) # <<>>
  BY <1>1, <1>2
<1>4. /\ rest \in Seq(Buffer) /\ Len(rest) = Len(bufs) - 1
      /\ \A i \in 1 .. Len(bufs) - 1 : rest[i] = bufs[i + 1]
  BY Rest
<1>5. /\ left \in Seq(Seq(Line)) /\ Len(left) = Len(bufs) - 1
      /\ \A i \in 1 .. Len(bufs) - 1 : left[i] = Datas(bufs)[i + 1]
  <2>1. /\ left \in Seq(Seq(Line)) /\ Len(left) = Len(Datas(bufs)) - 1
        /\ \A i \in 1 .. Len(Datas(bufs)) - 1 : left[i] = Datas(bufs)[i + 1]
    BY <1>1, <1>3, Rest
  <2> QED
    BY <1>1, <2>1
<1> HIDE DEF rest, left
<1>6. /\ Datas(rest) \in Seq(Seq(Line)) /\ Len(Datas(rest)) = Len(rest)
      /\ \A i \in 1 .. Len(rest) : Datas(rest)[i] = rest[i].data
  BY <1>4, DatasType
<1>7. ASSUME NEW i \in 1 .. Len(bufs) - 1
      PROVE  left[i] = Datas(rest)[i]
  <2>1. i + 1 \in 1 .. Len(bufs)
    BY <1>2
  <2>2. left[i] = bufs[i + 1].data
    BY <1>1, <1>5, <2>1
  <2> QED
    BY <1>4, <1>6, <2>2
<1>8. left = Datas(rest)
  BY <1>4, <1>5, <1>6, <1>7, SeqEqual
<1> QED
  BY <1>3, <1>8 DEF left, rest

\* The lines in some buffers are a sequence of lines, and no buffer holds none.
LEMMA ContentsType ==
  /\ Contents(<<>>) = <<>>
  /\ \A bufs \in Seq(Buffer) : Contents(bufs) \in Seq(Line)
<1>1. Datas(<<>>) = <<>>
  <2>1. <<>> \in Seq(Buffer)
    BY EmptySeq
  <2>2. Datas(<<>>) \in Seq(Seq(Line)) /\ Len(Datas(<<>>)) = 0
    BY <2>1, DatasType
  <2> QED
    BY <2>2
<1>2. Contents(<<>>) = <<>>
  BY <1>1, FlattenEmpty DEF Contents, Datas
<1>3. ASSUME NEW bufs \in Seq(Buffer) PROVE Contents(bufs) \in Seq(Line)
  <2>1. Datas(bufs) \in Seq(Seq(Line))
    BY DatasType
  <2>2. FlattenSeq(Datas(bufs)) \in Seq(Line)
    BY <2>1, FlattenType
  <2> QED
    BY <2>2 DEF Contents, Datas
<1> QED
  BY <1>2, <1>3

\* A buffer more has its lines after those of the others.
LEMMA ContentsAppend ==
  ASSUME NEW bufs \in Seq(Buffer), NEW b \in Buffer
  PROVE  Contents(Append(bufs, b)) = Contents(bufs) \o b.data
<1> DEFINE more == Append(bufs, b)
<1>1. /\ Datas(bufs) \in Seq(Seq(Line)) /\ Len(Datas(bufs)) = Len(bufs)
      /\ \A i \in 1 .. Len(bufs) : Datas(bufs)[i] = bufs[i].data
  BY DatasType
<1>2. b.data \in Seq(Line) /\ Len(bufs) \in Nat
  BY DEF Buffer
<1>3. /\ more \in Seq(Buffer) /\ Len(more) = Len(bufs) + 1
      /\ more[Len(bufs) + 1] = b
      /\ \A i \in 1 .. Len(bufs) : more[i] = bufs[i]
  BY AppendProperties
<1> HIDE DEF more
<1>4. /\ Datas(more) \in Seq(Seq(Line)) /\ Len(Datas(more)) = Len(more)
      /\ \A i \in 1 .. Len(more) : Datas(more)[i] = more[i].data
  BY <1>3, DatasType
<1> DEFINE last == Append(Datas(bufs), b.data)
<1>5. /\ last \in Seq(Seq(Line)) /\ Len(last) = Len(Datas(bufs)) + 1
      /\ last[Len(Datas(bufs)) + 1] = b.data
      /\ \A i \in 1 .. Len(Datas(bufs)) : last[i] = Datas(bufs)[i]
  BY <1>1, <1>2, AppendProperties
<1> HIDE DEF last
<1>6. ASSUME NEW i \in 1 .. Len(more) PROVE Datas(more)[i] = last[i]
  <2>1. CASE i = Len(bufs) + 1
    BY <1>1, <1>3, <1>4, <1>5, <2>1
  <2>2. CASE i # Len(bufs) + 1
    <3>1. i \in 1 .. Len(bufs)
      BY <1>2, <1>3, <2>2
    <3> QED
      BY <1>1, <1>3, <1>4, <1>5, <3>1
  <2> QED
    BY <2>1, <2>2
<1>7. Len(last) = Len(more)
  BY <1>1, <1>3, <1>5
<1>8. Datas(more) = last
  BY <1>4, <1>5, <1>6, <1>7, SeqEqual
<1>9. FlattenSeq(last) = FlattenSeq(Datas(bufs)) \o b.data
  BY <1>1, <1>2, FlattenAppend DEF last
<1> QED
  BY <1>8, <1>9 DEF Contents, Datas, more

\* The first buffer's lines come first.
LEMMA ContentsHead ==
  ASSUME NEW bufs \in Seq(Buffer), bufs # <<>>
  PROVE  Contents(bufs) = bufs[1].data \o Contents(SubSeq(bufs, 2, Len(bufs)))
<1>1. /\ Datas(bufs) \in Seq(Seq(Line)) /\ Datas(bufs) # <<>>
      /\ Datas(bufs)[1] = bufs[1].data
      /\ SubSeq(Datas(bufs), 2, Len(Datas(bufs)))
           = Datas(SubSeq(bufs, 2, Len(bufs)))
  <2>1. Len(bufs) \in Nat \ {0}
    BY EmptySeq
  <2> QED
    BY <2>1, DatasType, DatasRest
<1>2. FlattenSeq(Datas(bufs))
        = Datas(bufs)[1]
            \o FlattenSeq(SubSeq(Datas(bufs), 2, Len(Datas(bufs))))
  BY <1>1, FlattenHead
<1>3. FlattenSeq(Datas(bufs))
        = bufs[1].data \o FlattenSeq(Datas(SubSeq(bufs, 2, Len(bufs))))
  BY <1>1, <1>2
<1> QED
  BY <1>3 DEF Contents, Datas

\* The lines of some buffers that are still to be written.
Unwritten(bufs, done) == Contents(SubSeq(bufs, done + 1, Len(bufs)))

\* All of the lines before the first buffer is written, none after the last; the
\* next buffer's come first.
LEMMA UnwrittenLines ==
  ASSUME NEW bufs \in Seq(Buffer), NEW done \in 0 .. Len(bufs)
  PROVE  /\ Unwritten(bufs, done) \in Seq(Line)
         /\ done = Len(bufs) => Unwritten(bufs, done) = <<>>
         /\ done = 0 => Unwritten(bufs, done) = Contents(bufs)
         /\ done < Len(bufs) =>
              Unwritten(bufs, done)
                = bufs[done + 1].data \o Unwritten(bufs, done + 1)
<1> DEFINE left == SubSeq(bufs, done + 1, Len(bufs))
<1>1. Len(bufs) \in Nat /\ \A i \in 1 .. Len(bufs) : bufs[i] \in Buffer
  OBVIOUS
<1>2. \A i \in (done + 1) .. Len(bufs) : bufs[i] \in Buffer
  BY <1>1
<1>3. done + 1 \in Int /\ Len(bufs) \in Int
  BY <1>1
<1>4. left \in Seq(Buffer)
  BY <1>2, <1>3, SubSeqProperties
<1>5. ASSUME done = Len(bufs) PROVE Unwritten(bufs, done) = <<>>
  <2>1. left = <<>>
    BY <1>1, <1>3, <1>5, SubSeqEmpty
  <2> QED
    BY <2>1, ContentsType DEF Unwritten
<1>6. ASSUME done = 0 PROVE Unwritten(bufs, done) = Contents(bufs)
  <2>1. SubSeq(bufs, 1, Len(bufs)) = bufs
    BY SubSeqFull
  <2>2. done + 1 = 1
    BY <1>6
  <2> QED
    BY <2>1, <2>2 DEF Unwritten
<1>7. ASSUME done < Len(bufs)
      PROVE  Unwritten(bufs, done)
               = bufs[done + 1].data \o Unwritten(bufs, done + 1)
  <2>1. done + 1 \in 1 .. Len(bufs) /\ Len(bufs) \in (done + 1) .. Len(bufs)
    BY <1>1, <1>7
  <2>2. Head(left) = bufs[done + 1]
        /\ Tail(left) = SubSeq(bufs, (done + 1) + 1, Len(bufs))
    BY <2>1, HeadTailOfSubSeq
  <2>3. left # <<>>
    <3>1. Len(left) = Len(bufs) - (done + 1) + 1
      BY <1>2, <1>3, <1>7, SubSeqProperties
    <3> QED
      <4>1. Len(left) # 0
        BY <1>1, <1>7, <3>1
      <4> HIDE DEF left
      <4> QED
        BY <4>1
  <2> HIDE DEF left
  <2>4. Contents(left) = left[1].data \o Contents(SubSeq(left, 2, Len(left)))
    BY <1>4, <2>3, ContentsHead
  <2>5. Tail(left) = SubSeq(left, 2, Len(left)) /\ Head(left) = left[1]
    BY <1>4, <2>3, TailIsSubSeq
  <2> QED
    BY <2>2, <2>4, <2>5 DEF Unwritten, left
<1>8. Unwritten(bufs, done) \in Seq(Line)
  BY <1>4, ContentsType DEF Unwritten
<1> QED
  BY <1>5, <1>6, <1>7, <1>8

\* Four sequences one after the other.
Joined(a, b, c, d) == a \o b \o c \o d

\* An element is added to the last one, ...
LEMMA JoinAppend ==
  ASSUME NEW S, NEW a, NEW b, NEW c, NEW d, NEW x,
         a \in Seq(S), b \in Seq(S), c \in Seq(S), d \in Seq(S), x \in S
  PROVE  Append(Joined(a, b, c, d), x) = Joined(a, b, c, Append(d, x))
<1> DEFINE abc == a \o b \o c
<1>1. abc \in Seq(S) /\ <<x>> \in Seq(S)
  <2>1. a \o b \in Seq(S)
    BY ConcatProperties
  <2> QED
    BY <2>1, ConcatProperties
<1> HIDE DEF abc
<1>2. Append(abc \o d, x) = (abc \o d) \o <<x>>
  <2>1. abc \o d \in Seq(S)
    BY <1>1, ConcatProperties
  <2> QED
    BY <2>1, AppendIsConcat
<1>3. Append(d, x) = d \o <<x>>
  BY AppendIsConcat
<1>4. (abc \o d) \o <<x>> = abc \o (d \o <<x>>)
  BY <1>1, ConcatAssociative
<1> QED
  BY <1>2, <1>3, <1>4 DEF abc, Joined

\* ... or the last one is joined to the third and a new one begun, ...
LEMMA JoinBegin ==
  ASSUME NEW S, NEW a, NEW b, NEW c, NEW d, NEW x,
         a \in Seq(S), b \in Seq(S), c \in Seq(S), d \in Seq(S), x \in S
  PROVE  Append(Joined(a, b, c, d), x) = Joined(a, b, c \o d, <<x>>)
<1> DEFINE ab == a \o b
<1>1. ab \in Seq(S) /\ c \o d \in Seq(S)
  BY ConcatProperties
<1> HIDE DEF ab
<1>2. (ab \o c) \o d = ab \o (c \o d)
  BY <1>1, ConcatAssociative
<1>3. Append(ab \o (c \o d), x) = ab \o (c \o d) \o <<x>>
  <2>1. ab \o (c \o d) \in Seq(S)
    BY <1>1, ConcatProperties
  <2> QED
    BY <2>1, AppendIsConcat
<1> QED
  BY <1>2, <1>3 DEF ab, Joined

\* ... or the last two become the second, ...
LEMMA JoinTake ==
  ASSUME NEW S, NEW a, NEW c, NEW d,
         a \in Seq(S), c \in Seq(S), d \in Seq(S)
  PROVE  Joined(a, <<>>, c, d) = Joined(a, c \o d, <<>>, <<>>)
<1> DEFINE acd == a \o (c \o d)
<1>1. a \o <<>> = a
  BY ConcatEmptySeq
<1>2. (a \o c) \o d = acd
  BY ConcatAssociative
<1>3. acd \in Seq(S)
  <2>1. c \o d \in Seq(S)
    BY ConcatProperties
  <2> QED
    BY <2>1, ConcatProperties
<1> HIDE DEF acd
<1>4. acd \o <<>> = acd
  BY <1>3, ConcatEmptySeq
<1> QED
  BY <1>1, <1>2, <1>4 DEF acd, Joined

\* ... or the beginning of the second one is moved to the first.
LEMMA JoinMove ==
  ASSUME NEW S, NEW a, NEW b, NEW e, NEW c, NEW d,
         a \in Seq(S), b \in Seq(S), e \in Seq(S)
  PROVE  Joined(a, b \o e, c, d) = Joined(a \o b, e, c, d)
<1>1. a \o (b \o e) = (a \o b) \o e
  BY ConcatAssociative
<1> QED
  BY <1>1 DEF Joined

----------------------------------------------------------------------------
(* No line is lost *)

\* A buffer that is set aside is empty, and toWrite is only used while writing.
SpareInv ==
  /\ {next, newBuffer1, newBuffer2} \subseteq {NoBuffer, EmptyBuffer}
  /\ backend # "write" => toWrite = <<>>

LinesInv == SpareInv /\ EveryLineKept

\* Nothing is logged and every buffer is empty.
LEMMA InitLines == Init => LinesInv
<1> SUFFICES ASSUME Init PROVE LinesInv
  OBVIOUS
<1>1. SpareInv
  BY DEF Init, SpareInv
<1>2. Unwritten(<<>>, 0) = <<>> /\ Contents(<<>>) = <<>>
  <2>1. <<>> \in Seq(Buffer) /\ 0 \in 0 .. Len(<<>>) /\ 0 = Len(<<>>)
    BY EmptySeq
  <2> QED
    BY <2>1, UnwrittenLines, ContentsType
<1>3. <<>> = <<>> \o <<>> \o <<>> \o <<>>
  BY EmptySeq, ConcatEmptySeq
<1>4. EveryLineKept
  BY <1>2, <1>3 DEF Init, EveryLineKept, Unwritten, EmptyBuffer
<1> QED
  BY <1>1, <1>4 DEF LinesInv

\* What the invariants say of the four places a line can be in.
LEMMA Places ==
  ASSUME IInv, LinesInv
  PROVE  /\ toWrite \in Seq(Buffer) /\ buffers \in Seq(Buffer)
         /\ written \in 0 .. Len(toWrite)
         /\ Unwritten(toWrite, written) \in Seq(Line)
         /\ Contents(buffers) \in Seq(Line) /\ file \in Seq(Line)
         /\ current \in Buffer /\ current.data \in Seq(Line)
         /\ logged = Joined(file, Unwritten(toWrite, written),
                            Contents(buffers), current.data)
<1>1. /\ toWrite \in Seq(Buffer) /\ written \in 0 .. Len(toWrite)
      /\ buffers \in Seq(Buffer) /\ file \in Seq(Line) /\ current \in Buffer
  BY DEF IInv, TypeOK
<1>2. current.data \in Seq(Line)
  BY <1>1 DEF Buffer
<1>3. /\ Unwritten(toWrite, written) \in Seq(Line)
      /\ Contents(buffers) \in Seq(Line)
  BY <1>1, UnwrittenLines, ContentsType
<1> QED
  BY <1>1, <1>2, <1>3 DEF LinesInv, EveryLineKept, Unwritten, Joined

\* A line goes to the end of the current buffer, or of a fresh one behind it.
LEMMA AppendLineLines ==
  ASSUME IInv, LinesInv, NEW len \in Lengths, AppendLine(len)
  PROVE  LinesInv'
<1> DEFINE line == [id |-> Len(logged) + 1, len |-> len]
           toDo == Unwritten(toWrite, written)
           full == Contents(buffers)
           last == current.data
<1>1. /\ buffers \in Seq(Buffer) /\ current \in Buffer
      /\ Unwritten(toWrite, written) \in Seq(Line)
      /\ Contents(buffers) \in Seq(Line) /\ file \in Seq(Line)
      /\ current.data \in Seq(Line)
      /\ logged = Joined(file, toDo, full, last)
  BY Places
<1>2. line \in Line
  BY LoggingAssumption DEF IInv, TypeOK, AppendLine, Line
<1>3. /\ logged' = Append(logged, line)
      /\ UNCHANGED <<toWrite, written, newBuffer1, newBuffer2, backend, file>>
  BY DEF AppendLine, backVars
<1>4. Unwritten(toWrite, written)' = Unwritten(toWrite, written)
  BY <1>3 DEF Unwritten
<1>5. CASE Avail(current) > len
  <2>1. current' = Put(current, line) /\ UNCHANGED <<next, buffers>>
    BY <1>5 DEF AppendLine
  <2>2. current'.data = Append(current.data, line)
    BY <1>5, <2>1 DEF Put
  <2> HIDE DEF line
  <2>3. Append(Joined(file, toDo, full, last), line)
          = Joined(file, toDo, full, Append(last, line))
    <3>1. /\ file \in Seq(Line) /\ toDo \in Seq(Line) /\ full \in Seq(Line)
          /\ last \in Seq(Line) /\ line \in Line
      BY <1>1, <1>2
    <3> HIDE DEF toDo, full, last
    <3> QED
      BY <3>1, JoinAppend
  <2>4. EveryLineKept'
    BY <1>1, <1>3, <1>4, <2>1, <2>2, <2>3 DEF EveryLineKept, Unwritten, Joined
  <2>5. SpareInv'
    BY <1>3, <2>1 DEF LinesInv, SpareInv
  <2> QED
    BY <2>4, <2>5 DEF LinesInv
<1>6. CASE ~(Avail(current) > len)
  <2>1. /\ buffers' = Append(buffers, current)
        /\ current' = Put(EmptyBuffer, line)
        /\ next' = NoBuffer
    BY <1>6 DEF AppendLine, SwitchAndPut, LinesInv, SpareInv
  <2>2. current'.data = Append(<<>>, line)
    <3>1. Avail(EmptyBuffer) > line.len
      BY LoggingAssumption DEF Avail, EmptyBuffer
    <3> QED
      BY <2>1, <3>1 DEF Put, EmptyBuffer
  <2> HIDE DEF line
  <2>3. Contents(buffers') = Contents(buffers) \o current.data
    BY <1>1, <2>1, ContentsAppend
  <2>4. Append(Joined(file, toDo, full, last), line)
          = Joined(file, toDo, full \o last, <<line>>)
    <3>1. /\ file \in Seq(Line) /\ toDo \in Seq(Line) /\ full \in Seq(Line)
          /\ last \in Seq(Line) /\ line \in Line
      BY <1>1, <1>2
    <3> HIDE DEF toDo, full, last
    <3> QED
      BY <3>1, JoinBegin
  <2>5. Append(<<>>, line) = <<line>>
    OBVIOUS
  <2>6. EveryLineKept'
    BY <1>1, <1>3, <1>4, <2>2, <2>3, <2>4, <2>5 DEF EveryLineKept, Unwritten, Joined
  <2>7. SpareInv'
    BY <1>3, <2>1 DEF LinesInv, SpareInv
  <2> QED
    BY <2>6, <2>7 DEF LinesInv
<1> QED
  BY <1>5, <1>6

\* The owner, the loop test and the wait move no line.
LEMMA QuietLines ==
  ASSUME IInv, LinesInv, Start \/ Stop \/ Join \/ Test \/ Wait
  PROVE  LinesInv'
<1>1. UNCHANGED <<file, toWrite, written, buffers, current, logged, next>>
  BY DEF Start, Stop, Join, Test, Wait, frontVars, backVars
<1>2. EveryLineKept'
  BY <1>1 DEF LinesInv, EveryLineKept, Contents
<1>3. SpareInv'
  <2>1. CASE Start
    BY <1>1, <2>1 DEF LinesInv, SpareInv, Start, IInv, BackInv
  <2>2. CASE Stop \/ Join
    BY <1>1, <2>2 DEF LinesInv, SpareInv, Stop, Join, backVars
  <2>3. CASE Test \/ Wait
    BY <1>1, <2>3 DEF LinesInv, SpareInv, Test, Wait, backVars
  <2> QED
    BY <2>1, <2>2, <2>3
<1> QED
  BY <1>2, <1>3 DEF LinesInv

\* The backend takes every line that is in a front buffer.
LEMMA SwapLines ==
  ASSUME IInv, LinesInv, Swap
  PROVE  LinesInv'
<1>1. /\ buffers \in Seq(Buffer) /\ current \in Buffer
      /\ Contents(buffers) \in Seq(Line) /\ file \in Seq(Line)
      /\ current.data \in Seq(Line)
      /\ logged = Joined(file, Unwritten(toWrite, written),
                         Contents(buffers), current.data)
  BY Places
<1>2. Asserted /\ newBuffer1 = EmptyBuffer /\ newBuffer2 = EmptyBuffer
  BY DEF Swap, IInv, BackInv, Asserted, LinesInv, SpareInv
<1>3. toWrite = <<>> /\ written = 0
  <2>1. toWrite = <<>> /\ written \in 0 .. Len(toWrite)
    BY <1>2 DEF Asserted, IInv, TypeOK
  <2> QED
    BY <2>1
<1>4. /\ toWrite' = Append(buffers, current) /\ buffers' = <<>>
      /\ current' = EmptyBuffer /\ newBuffer1' = NoBuffer
      /\ written' = 0 /\ backend' = "write"
      /\ UNCHANGED <<file, logged>>
  BY <1>2, <1>3 DEF Swap
<1>5. next' \in {NoBuffer, EmptyBuffer} /\ newBuffer2' \in {NoBuffer, EmptyBuffer}
  BY <1>2 DEF Swap, LinesInv, SpareInv
<1>6. Unwritten(toWrite, written) = <<>> /\ Contents(<<>>) = <<>>
  <2>1. <<>> \in Seq(Buffer) /\ 0 \in 0 .. Len(<<>>) /\ 0 = Len(<<>>)
    BY EmptySeq
  <2> QED
    BY <1>3, <2>1, UnwrittenLines, ContentsType
<1>7. Unwritten(toWrite', written') = Contents(buffers) \o current.data
  <2> DEFINE taken == Append(buffers, current)
  <2>1. taken \in Seq(Buffer) /\ 0 \in 0 .. Len(taken)
    BY <1>1
  <2>2. Contents(taken) = Contents(buffers) \o current.data
    BY <1>1, ContentsAppend
  <2> HIDE DEF taken
  <2>3. Unwritten(taken, 0) = Contents(taken)
    BY <2>1, UnwrittenLines
  <2> QED
    BY <1>4, <2>2, <2>3 DEF taken
<1>8. Joined(file, <<>>, Contents(buffers), current.data)
        = Joined(file, Contents(buffers) \o current.data, <<>>, <<>>)
  <2> DEFINE full == Contents(buffers)
             last == current.data
  <2>1. file \in Seq(Line) /\ full \in Seq(Line) /\ last \in Seq(Line)
    BY <1>1
  <2> HIDE DEF full, last
  <2>2. Joined(file, <<>>, full, last) = Joined(file, full \o last, <<>>, <<>>)
    BY <2>1, JoinTake
  <2> QED
    BY <2>2 DEF full, last
<1>9. EveryLineKept'
  BY <1>1, <1>4, <1>6, <1>7, <1>8 DEF EveryLineKept, Unwritten, Joined, EmptyBuffer
<1>10. SpareInv'
  BY <1>4, <1>5 DEF SpareInv
<1> QED
  BY <1>9, <1>10 DEF LinesInv

\* The next buffer's lines move to the end of the file.
LEMMA WriteBufferLines ==
  ASSUME IInv, LinesInv, WriteBuffer
  PROVE  /\ LinesInv'
         /\ toWrite[written + 1].data \in Seq(Line)
         /\ Unwritten(toWrite, written)
              = toWrite[written + 1].data \o Unwritten(toWrite, written + 1)
<1>1. /\ toWrite \in Seq(Buffer) /\ written \in 0 .. Len(toWrite)
      /\ Contents(buffers) \in Seq(Line) /\ file \in Seq(Line)
      /\ current.data \in Seq(Line)
      /\ logged = Joined(file, Unwritten(toWrite, written),
                         Contents(buffers), current.data)
  BY Places
<1>2. /\ written < Len(toWrite) /\ written + 1 \in 1 .. Len(toWrite)
      /\ file' = file \o toWrite[written + 1].data /\ written' = written + 1
      /\ UNCHANGED <<frontVars, backend, newBuffer1, newBuffer2, toWrite, logged>>
  BY <1>1 DEF WriteBuffer
<1> DEFINE lines == toWrite[written + 1].data
           rest == Unwritten(toWrite, written + 1)
<1>3. lines \in Seq(Line)
  <2>1. toWrite[written + 1] \in Buffer
    BY <1>1, <1>2
  <2> QED
    BY <2>1 DEF Buffer
<1>4. Unwritten(toWrite, written) = lines \o rest
  BY <1>1, <1>2, UnwrittenLines
<1>5. rest \in Seq(Line)
  <2>1. written + 1 \in 0 .. Len(toWrite)
    BY <1>1, <1>2
  <2> QED
    BY <1>1, <2>1, UnwrittenLines
<1>6. Unwritten(toWrite', written') = rest
  BY <1>2
<1> HIDE DEF lines, rest
<1>7. Joined(file, lines \o rest, Contents(buffers), current.data)
        = Joined(file \o lines, rest, Contents(buffers), current.data)
  <2>1. file \in Seq(Line)
    BY <1>1
  <2> QED
    BY <1>3, <1>5, <2>1, JoinMove
<1>8. EveryLineKept'
  <2>1. Contents(buffers)' = Contents(buffers) /\ current' = current
    BY <1>2 DEF frontVars, Contents
  <2>2. logged' = Joined(file', Unwritten(toWrite', written'),
                           Contents(buffers), current.data)
    BY <1>1, <1>2, <1>4, <1>6, <1>7 DEF lines
  <2> QED
    BY <2>1, <2>2 DEF EveryLineKept, Unwritten, Joined
<1>9. SpareInv'
  BY <1>2 DEF LinesInv, SpareInv, frontVars
<1> QED
  BY <1>3, <1>4, <1>8, <1>9 DEF LinesInv, lines, rest

\* The buffers that are given back are empty, and those dropped are written.
LEMMA RecycleLines ==
  ASSUME IInv, LinesInv, Recycle
  PROVE  LinesInv'
<1>1. /\ toWrite \in Seq(Buffer) /\ written \in 0 .. Len(toWrite)
      /\ Unwritten(toWrite, written) \in Seq(Line)
      /\ logged = Joined(file, Unwritten(toWrite, written),
                         Contents(buffers), current.data)
  BY Places
<1>2. written = Len(toWrite) /\ backend' # "abort"
  BY NextInv DEF Recycle, Next, BackendStep, IInv, BackInv
<1>3. /\ toWrite' = <<>> /\ written' = 0
      /\ {newBuffer1', newBuffer2'}
           \subseteq {newBuffer1, newBuffer2, EmptyBuffer}
      /\ newBuffer1' # NoBuffer \/ newBuffer1' = newBuffer1
      /\ UNCHANGED <<frontVars, file, logged>>
  BY <1>2 DEF Recycle, Reset
<1>4. Unwritten(toWrite, written) = <<>> /\ Unwritten(toWrite', written') = <<>>
  <2>1. <<>> \in Seq(Buffer) /\ 0 \in 0 .. Len(<<>>) /\ 0 = Len(<<>>)
    BY EmptySeq
  <2> QED
    BY <1>1, <1>2, <1>3, <2>1, UnwrittenLines
<1>5. EveryLineKept'
  BY <1>1, <1>3, <1>4 DEF EveryLineKept, Unwritten, Joined, frontVars, Contents
<1>6. SpareInv'
  BY <1>3 DEF LinesInv, SpareInv, frontVars
<1> QED
  BY <1>5, <1>6 DEF LinesInv

\* Every step keeps the lines where EveryLineKept says.
LEMMA NextLines == IInv /\ LinesInv /\ [Next]_vars => LinesInv'
<1> SUFFICES ASSUME IInv, LinesInv, [Next]_vars PROVE LinesInv'
  OBVIOUS
<1>1. ASSUME NEW len \in Lengths, AppendLine(len) PROVE LinesInv'
  BY <1>1, AppendLineLines
<1>2. CASE Start \/ Stop \/ Join \/ Test \/ Wait
  BY <1>2, QuietLines
<1>3. CASE Swap
  BY <1>3, SwapLines
<1>4. CASE WriteBuffer
  BY <1>4, WriteBufferLines
<1>5. CASE Recycle
  BY <1>5, RecycleLines
<1>6. CASE UNCHANGED vars
  BY <1>6 DEF LinesInv, SpareInv, EveryLineKept, Contents, vars, frontVars,
     backVars
<1> QED
  BY <1>1, <1>2, <1>3, <1>4, <1>5, <1>6 DEF Next, BackendStep

----------------------------------------------------------------------------
(* The FIFO *)

\* What is concatenated to a sequence leaves it a prefix.
LEMMA PrefixOfConcat ==
  ASSUME NEW S, NEW s, NEW t, s \in Seq(S), t \in Seq(S)
  PROVE  IsPrefix(s, s \o t)
<1>1. /\ Len(s) \in Nat /\ Len(t) \in Nat /\ s \o t \in Seq(S)
      /\ Len(s \o t) = Len(s) + Len(t)
      /\ \A i \in 1 .. Len(s) + Len(t) :
           (s \o t)[i] = IF i <= Len(s) THEN s[i] ELSE t[i - Len(s)]
  BY ConcatProperties
<1> DEFINE st == s \o t
<1>2. \A i \in 1 .. Len(s) : st[i] = s[i]
  <2> SUFFICES ASSUME NEW i \in 1 .. Len(s) PROVE st[i] = s[i]
    OBVIOUS
  <2>1. i \in 1 .. Len(s) + Len(t) /\ i <= Len(s)
    BY <1>1
  <2> QED
    BY <1>1, <2>1
<1>3. Len(s) <= Len(st)
  BY <1>1
<1> HIDE DEF st
<1>4. \A i \in 1 .. Len(s) : s[i] \in S /\ st[i] \in S
  BY <1>2
<1>5. 1 \in Int /\ Len(s) \in Int
  BY <1>1
<1>6. SubSeq(s, 1, Len(s)) = s
  BY SubSeqFull
<1>7. /\ SubSeq(st, 1, Len(s)) \in Seq(S)
      /\ Len(SubSeq(st, 1, Len(s))) = IF 1 <= Len(s) THEN Len(s) - 1 + 1 ELSE 0
      /\ \A i \in 1 .. Len(s) - 1 + 1 : SubSeq(st, 1, Len(s))[i] = st[1 + i - 1]
  <2>1. \A i \in 1 .. Len(s) : st[i] \in S
    BY <1>4
  <2> QED
    BY <1>5, <2>1, SubSeqProperties
<1>8. SubSeq(st, 1, Len(s)) = s
  <2> DEFINE u == SubSeq(st, 1, Len(s))
  <2>1. Len(u) = Len(s)
    BY <1>1, <1>7
  <2>2. \A i \in 1 .. Len(u) : u[i] = s[i]
    BY <1>1, <1>2, <1>7, <2>1
  <2> HIDE DEF u
  <2>3. u \in Seq(S)
    BY <1>7 DEF u
  <2>4. u = s
    BY <2>1, <2>2, <2>3, SeqEqual
  <2> QED
    BY <2>4 DEF u
<1> QED
  BY <1>3, <1>6, <1>8 DEF IsPrefix, st

\* The first of four sequences is a prefix of their concatenation.
LEMMA PrefixOfJoined ==
  ASSUME NEW S, NEW a, NEW b, NEW c, NEW d,
         a \in Seq(S), b \in Seq(S), c \in Seq(S), d \in Seq(S)
  PROVE  IsPrefix(a, Joined(a, b, c, d))
<1> DEFINE bc == b \o c
<1>1. bc \in Seq(S) /\ (a \o b) \o c = a \o bc
  BY ConcatProperties, ConcatAssociative
<1> HIDE DEF bc
<1>2. bc \o d \in Seq(S)
  BY <1>1, ConcatProperties
<1>4. (a \o bc) \o d = a \o (bc \o d)
  BY <1>1, ConcatAssociative
<1>3. Joined(a, b, c, d) = a \o (bc \o d)
  BY <1>1, <1>4 DEF Joined
<1> QED
  BY <1>2, <1>3, PrefixOfConcat

\* Every step is a step of the FIFO or changes neither sequence.
LEMMA NextFifo ==
  ASSUME IInv, LinesInv, LinesInv', IInv', [Next]_vars
  PROVE  [Fifo!Next]_<<logged, file>>
<1>1. ASSUME NEW len \in Lengths, AppendLine(len) PROVE Fifo!Log
  <2> DEFINE line == [id |-> Len(logged) + 1, len |-> len]
  <2>1. logged' = Append(logged, line) /\ UNCHANGED file
    BY <1>1 DEF AppendLine
  <2>2. line \in Line
    BY <1>1, LoggingAssumption DEF IInv, TypeOK, AppendLine, Line
  <2> QED
    BY <2>1, <2>2 DEF Fifo!Log
<1>2. ASSUME WriteBuffer PROVE Fifo!Write
  <2>1. /\ toWrite \in Seq(Buffer) /\ written \in 0 .. Len(toWrite)
        /\ Contents(buffers) \in Seq(Line) /\ file \in Seq(Line)
        /\ current.data \in Seq(Line)
    BY Places
  <2>2. /\ toWrite[written + 1].data \in Seq(Line)
        /\ Unwritten(toWrite, written)
             = toWrite[written + 1].data \o Unwritten(toWrite, written + 1)
        /\ written + 1 \in 0 .. Len(toWrite)
    <3>1. written + 1 \in 0 .. Len(toWrite)
      BY <1>2, <2>1 DEF WriteBuffer
    <3> QED
      BY <1>2, <3>1, WriteBufferLines
  <2>3. /\ file' = file \o toWrite[written + 1].data
        /\ written' = written + 1 /\ UNCHANGED <<toWrite, logged, frontVars>>
    BY <1>2 DEF WriteBuffer
  <2>4. IsPrefix(file, file')
    BY <2>1, <2>2, <2>3, PrefixOfConcat
  <2>5. logged = Joined(file', Unwritten(toWrite, written + 1),
                        Contents(buffers), current.data)
    BY <2>3 DEF LinesInv, EveryLineKept, Unwritten, Joined, frontVars, Contents
  <2>6. /\ Unwritten(toWrite, written + 1) \in Seq(Line)
        /\ file' \in Seq(Line)
    BY <2>1, <2>2, UnwrittenLines DEF IInv, TypeOK
  <2>7. IsPrefix(file', logged)
    <3> DEFINE rest == Unwritten(toWrite, written + 1)
               full == Contents(buffers)
               last == current.data
    <3>1. /\ file' \in Seq(Line) /\ rest \in Seq(Line) /\ full \in Seq(Line)
          /\ last \in Seq(Line) /\ logged = Joined(file', rest, full, last)
      BY <2>1, <2>5, <2>6
    <3> HIDE DEF rest, full, last
    <3> QED
      BY <3>1, PrefixOfJoined
  <2> QED
    BY <2>3, <2>4, <2>7 DEF Fifo!Write, IsPrefix, Fifo!IsPrefix
<1>3. ASSUME Start \/ Stop \/ Join \/ Test \/ Wait \/ Swap \/ Recycle
      PROVE  UNCHANGED <<logged, file>>
  BY <1>3 DEF Start, Stop, Join, Test, Wait, Swap, Recycle
<1>4. ASSUME UNCHANGED vars PROVE UNCHANGED <<logged, file>>
  BY <1>4 DEF vars
<1> QED
  BY <1>1, <1>2, <1>3, <1>4 DEF Next, BackendStep, Fifo!Next

\* Every behaviour keeps the stronger invariant.
LEMMA LinesInvariant == Spec => []LinesInv
<1>1. Init => LinesInv
  BY InitLines
<1>2. IInv /\ LinesInv /\ [Next]_vars => LinesInv'
  BY NextLines
<1> QED
  BY <1>1, <1>2, Invariant, PTL DEF Spec

\* No line is lost, doubled or overtaken, wherever it is.
THEOREM NoLineIsLost == Spec => []EveryLineKept
<1>1. LinesInv => EveryLineKept
  BY DEF LinesInv
<1> QED
  BY <1>1, LinesInvariant, PTL

\* The log implements a FIFO: the file only grows, by lines in the order logged.
THEOREM ImplementsFifo == Spec => LogIsFifo
<1>1. Init => Fifo!Init
  BY DEF Init, Fifo!Init
<1>2. IInv /\ LinesInv /\ IInv' /\ LinesInv' /\ [Next]_vars
        => [Fifo!Next]_<<logged, file>>
  BY NextFifo
<1> QED
  BY <1>1, <1>2, Invariant, LinesInvariant, PTL DEF Spec, LogIsFifo, Fifo!Spec
=============================================================================
