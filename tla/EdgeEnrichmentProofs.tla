------------------------- MODULE EdgeEnrichmentProofs -------------------------
(***************************************************************************)
(* Proofs about the goroutines of enrichLeg, for every number of chunks,   *)
(* every capacity of the semaphore and every length of the traces.         *)
(***************************************************************************)
EXTENDS EdgeEnrichment, Sums

(***************************************************************************)
(* The inductive invariant.  The counters are what they count, and the     *)
(* handler is past its loop only when every goroutine was born: together   *)
(* they make a counter of 0 mean that all are done.                        *)
(***************************************************************************)
\* The goroutines are born in the order of the chunks.
BornInOrder == \A i \in Chunks : worker[i] = "unborn" <=> i > spawned

SpawnsAll ==
    /\ main \in {"wait", "stitch"} => spawned = N
    /\ main = "short" => spawned = 0
    /\ main = "returned" => spawned \in {0, N}

EnrichmentInv ==
    TypeOK /\ BornInOrder /\ SpawnsAll /\ BoundedTraces /\ WaitGroupCounts /\ NoReaderLeft

-----------------------------------------------------------------------------
(* Sets of goroutines, and what a step of one does to their number. *)

LEMMA FewChunks ==
    ASSUME NEW S \in SUBSET Chunks
    PROVE  IsFiniteSet(S) /\ Cardinality(S) \in 0..N
<1>1. IsFiniteSet(Chunks) /\ Cardinality(Chunks) = N
  BY FS_Interval, ChunkAssumption DEF Chunks
<1> QED BY <1>1, FS_Subset, FS_CardinalityType

\* A goroutine that gets to a place outside the set leaves it, one that gets
\* to a place within it joins it, and no other one is concerned.
LEMMA OneJoins ==
    ASSUME NEW S \in SUBSET Chunks, NEW i \in Chunks, i \notin S
    PROVE  Cardinality(S \cup {i}) = Cardinality(S) + 1
BY FewChunks, FS_AddElement

LEMMA OneLeaves ==
    ASSUME NEW S \in SUBSET Chunks, NEW i \in S
    PROVE  Cardinality(S \ {i}) = Cardinality(S) - 1
BY FewChunks, FS_RemoveElement

-----------------------------------------------------------------------------
(* The steps of a goroutine. *)

LEMMA SomeChunk == N # 0 /\ N \in Nat
BY ChunkAssumption

LEMMA AcquireKeepsInv ==
    ASSUME EnrichmentInv, NEW i \in Chunks, Acquire(i)
    PROVE  EnrichmentInv'
<1>1. TypeOK'
  BY ChunkAssumption DEF EnrichmentInv, TypeOK, Acquire, Goto
<1>2. Holds' = Holds \cup {i} /\ i \notin Holds
  BY DEF EnrichmentInv, TypeOK, Holds, Acquire, Goto
<1>3. BoundedTraces'
  BY <1>2, OneJoins, FewChunks, ChunkAssumption
  DEF EnrichmentInv, TypeOK, BoundedTraces, Holds, Acquire
<1>4. Alive' = Alive
  BY DEF EnrichmentInv, TypeOK, Alive, Acquire, Goto
<1>5. WaitGroupCounts'
  BY <1>4 DEF EnrichmentInv, WaitGroupCounts, Acquire
<1>6. BornInOrder' /\ SpawnsAll' /\ NoReaderLeft'
  BY DEF EnrichmentInv, TypeOK, BornInOrder, SpawnsAll, NoReaderLeft, Alive, Acquire, Goto
<1> QED BY <1>1, <1>3, <1>5, <1>6 DEF EnrichmentInv

LEMMA TraceKeepsInv ==
    ASSUME EnrichmentInv, NEW i \in Chunks, NEW n \in 0..MaxPoints, Trace(i, n)
    PROVE  EnrichmentInv'
<1>1. TypeOK'
  BY DEF EnrichmentInv, TypeOK, Trace, Goto
<1>2. Holds' = Holds /\ Alive' = Alive
  BY DEF EnrichmentInv, TypeOK, Holds, Alive, Trace, Goto
<1>3. BoundedTraces' /\ WaitGroupCounts'
  BY <1>2 DEF EnrichmentInv, BoundedTraces, WaitGroupCounts, Trace
<1>4. BornInOrder' /\ SpawnsAll' /\ NoReaderLeft'
  BY DEF EnrichmentInv, TypeOK, BornInOrder, SpawnsAll, NoReaderLeft, Alive, Trace, Goto
<1> QED BY <1>1, <1>3, <1>4 DEF EnrichmentInv

LEMMA ReleaseKeepsInv ==
    ASSUME EnrichmentInv, NEW i \in Chunks, Release(i)
    PROVE  EnrichmentInv'
<1>1. Holds' = Holds \ {i} /\ i \in Holds /\ Holds \in SUBSET Chunks
  BY DEF EnrichmentInv, TypeOK, Holds, Release, Goto
<1>2. BoundedTraces'
  BY <1>1, OneLeaves, FewChunks, ChunkAssumption
  DEF EnrichmentInv, TypeOK, BoundedTraces, Release
<1>3. semaphore' \in 0..Slots
  BY <1>1, <1>2, FewChunks, ChunkAssumption
  DEF EnrichmentInv, TypeOK, BoundedTraces, Release
<1>4. TypeOK'
  BY <1>3 DEF EnrichmentInv, TypeOK, Release, Goto
<1>5. Alive' = Alive
  BY DEF EnrichmentInv, TypeOK, Alive, Release, Goto
<1>6. WaitGroupCounts'
  BY <1>5 DEF EnrichmentInv, WaitGroupCounts, Release
<1>7. BornInOrder' /\ SpawnsAll' /\ NoReaderLeft'
  BY DEF EnrichmentInv, TypeOK, BornInOrder, SpawnsAll, NoReaderLeft, Alive, Release, Goto
<1> QED BY <1>2, <1>4, <1>6, <1>7 DEF EnrichmentInv

LEMMA DoneKeepsInv ==
    ASSUME EnrichmentInv, NEW i \in Chunks, Done(i)
    PROVE  EnrichmentInv'
<1>1. Alive' = Alive \ {i} /\ i \in Alive /\ Alive \in SUBSET Chunks
  BY DEF EnrichmentInv, TypeOK, Alive, Done, Goto
<1>2. WaitGroupCounts'
  BY <1>1, OneLeaves DEF EnrichmentInv, WaitGroupCounts, Done
<1>3. running' \in 0..N
  BY <1>1, <1>2, FewChunks DEF WaitGroupCounts
<1>4. TypeOK'
  BY <1>3 DEF EnrichmentInv, TypeOK, Done, Goto
<1>5. Holds' = Holds
  BY DEF EnrichmentInv, TypeOK, Holds, Done, Goto
<1>6. BoundedTraces'
  BY <1>5 DEF EnrichmentInv, BoundedTraces, Done
<1>7. BornInOrder' /\ SpawnsAll' /\ NoReaderLeft'
  BY DEF EnrichmentInv, TypeOK, BornInOrder, SpawnsAll, NoReaderLeft, Alive, Done, Goto
<1> QED BY <1>2, <1>4, <1>6, <1>7 DEF EnrichmentInv

-----------------------------------------------------------------------------
(* The steps of the handler. *)

LEMMA TooShortKeepsInv ==
    ASSUME EnrichmentInv, TooShort
    PROVE  EnrichmentInv'
<1>1. Alive = {}
  <2>1. \A i \in Chunks : worker[i] = "unborn"
    BY ChunkAssumption DEF EnrichmentInv, BornInOrder, SpawnsAll, Chunks, TooShort
  <2> QED BY <2>1 DEF Alive
<1>2. Holds' = Holds /\ Alive' = Alive
  BY DEF Holds, Alive, TooShort
<1>3. BoundedTraces' /\ WaitGroupCounts'
  BY <1>2 DEF EnrichmentInv, BoundedTraces, WaitGroupCounts, TooShort
<1>4. TypeOK' /\ BornInOrder' /\ SpawnsAll' /\ NoReaderLeft'
  BY <1>1, <1>2 DEF EnrichmentInv, TypeOK, BornInOrder, SpawnsAll, NoReaderLeft, TooShort
<1> QED BY <1>3, <1>4 DEF EnrichmentInv

LEMMA SpawnKeepsInv ==
    ASSUME EnrichmentInv, Spawn
    PROVE  EnrichmentInv'
<1> DEFINE i == spawned + 1
<1>1. i \in Chunks /\ spawned \in Nat /\ worker[i] = "unborn"
  BY ChunkAssumption DEF EnrichmentInv, TypeOK, BornInOrder, Chunks, Spawn
<1>2. worker' = [worker EXCEPT ![i] = "ready"] /\ worker'[i] = "ready"
  BY <1>1 DEF EnrichmentInv, TypeOK, Spawn, Goto
<1>3. Alive' = Alive \cup {i} /\ i \notin Alive /\ Alive' \in SUBSET Chunks
  BY <1>1, <1>2 DEF EnrichmentInv, TypeOK, Alive
<1>4. WaitGroupCounts'
  BY <1>1, <1>3, OneJoins DEF EnrichmentInv, WaitGroupCounts, Alive, Spawn
<1>5. running' \in 0..N
  BY <1>3, <1>4, FewChunks DEF WaitGroupCounts
<1>6. TypeOK'
  BY <1>1, <1>2, <1>5, ChunkAssumption DEF EnrichmentInv, TypeOK, Spawn
<1>7. Holds' = Holds
  BY <1>1, <1>2 DEF EnrichmentInv, TypeOK, Holds
<1>8. BoundedTraces'
  BY <1>7 DEF EnrichmentInv, BoundedTraces, Spawn
<1>9. BornInOrder'
  BY <1>1, <1>2 DEF EnrichmentInv, TypeOK, BornInOrder, Chunks, Spawn
<1>10. SpawnsAll' /\ NoReaderLeft'
  BY DEF SpawnsAll, NoReaderLeft, Spawn
<1> QED BY <1>4, <1>6, <1>8, <1>9, <1>10 DEF EnrichmentInv

LEMMA SpawnedKeepsInv ==
    ASSUME EnrichmentInv, Spawned
    PROVE  EnrichmentInv'
BY DEF EnrichmentInv, TypeOK, BornInOrder, SpawnsAll, BoundedTraces, Holds, WaitGroupCounts,
   Alive, NoReaderLeft, Spawned

\* The counter is 0: no goroutine is alive.
LEMMA WaitKeepsInv ==
    ASSUME EnrichmentInv, Wait
    PROVE  EnrichmentInv'
<1>1. Alive = {}
  <2>1. IsFiniteSet(Alive) /\ Cardinality(Alive) = 0
    BY FewChunks DEF EnrichmentInv, WaitGroupCounts, Alive, Wait
  <2> QED BY <2>1, FS_EmptySet
<1>4. Holds' = Holds /\ Alive' = Alive
  BY DEF Holds, Alive, Wait
<1>5. BoundedTraces' /\ WaitGroupCounts'
  BY <1>4 DEF EnrichmentInv, BoundedTraces, WaitGroupCounts, Wait
<1>6. TypeOK' /\ BornInOrder' /\ SpawnsAll' /\ NoReaderLeft'
  BY <1>1, <1>4 DEF EnrichmentInv, TypeOK, BornInOrder, SpawnsAll, NoReaderLeft, Wait
<1> QED BY <1>5, <1>6 DEF EnrichmentInv

LEMMA StitchKeepsInv ==
    ASSUME EnrichmentInv, StitchFails \/ StitchSucceeds
    PROVE  EnrichmentInv'
<1>1. /\ UNCHANGED <<spawned, worker, semaphore, running, traces, asked>>
      /\ main = "stitch" /\ main' = "returned" /\ result' \in {"true", "false"}
  BY DEF StitchFails, StitchSucceeds
<1>2. Holds' = Holds /\ Alive' = Alive
  BY <1>1 DEF Holds, Alive
<1>3. BoundedTraces' /\ WaitGroupCounts'
  BY <1>1, <1>2 DEF EnrichmentInv, BoundedTraces, WaitGroupCounts
<1>4. TypeOK' /\ BornInOrder' /\ SpawnsAll' /\ NoReaderLeft'
  BY <1>1, <1>2 DEF EnrichmentInv, TypeOK, BornInOrder, SpawnsAll, NoReaderLeft
<1> QED BY <1>3, <1>4 DEF EnrichmentInv

-----------------------------------------------------------------------------
LEMMA InitEnrichmentInv == Init => EnrichmentInv
<1> SUFFICES ASSUME Init PROVE EnrichmentInv
  OBVIOUS
<1>1. Holds = {} /\ Alive = {}
  BY DEF Init, Holds, Alive
<1>2. BoundedTraces /\ WaitGroupCounts
  BY <1>1, FS_EmptySet, ChunkAssumption DEF Init, BoundedTraces, WaitGroupCounts
<1>3. TypeOK /\ BornInOrder /\ SpawnsAll /\ NoReaderLeft
  BY ChunkAssumption
  DEF Init, TypeOK, BornInOrder, SpawnsAll, NoReaderLeft, Chunks, Nil
<1> QED BY <1>2, <1>3 DEF EnrichmentInv

LEMMA EnrichmentStep ==
    ASSUME EnrichmentInv, [Next]_vars
    PROVE  EnrichmentInv'
<1>1. CASE Main
  BY <1>1, TooShortKeepsInv, SpawnKeepsInv, SpawnedKeepsInv, WaitKeepsInv, StitchKeepsInv DEF Main
<1>2. CASE \E i \in Chunks : Worker(i)
  BY <1>2, AcquireKeepsInv, TraceKeepsInv, ReleaseKeepsInv, DoneKeepsInv DEF Worker
<1>3. CASE UNCHANGED vars
  BY <1>3 DEF vars, EnrichmentInv, TypeOK, BornInOrder, SpawnsAll, BoundedTraces, Holds,
     WaitGroupCounts, Alive, NoReaderLeft
<1> QED BY <1>1, <1>2, <1>3 DEF Next, Returned

LEMMA EnrichmentInvariant == Spec => []EnrichmentInv
BY InitEnrichmentInv, EnrichmentStep, PTL DEF Spec

\* The variables keep their types for every leg and every semaphore: in
\* particular the WaitGroup's counter never becomes negative, which would
\* panic (valhalla.go:202-215).
THEOREM EnrichmentTypeCorrect == Spec => []TypeOK
BY EnrichmentInvariant, PTL DEF EnrichmentInv

\* Never more than Slots traces of a leg are on their way to the engine, and
\* every place taken belongs to one goroutine (valhalla.go:202-208).
THEOREM TracesAreBounded == Spec => []BoundedTraces
BY EnrichmentInvariant, PTL DEF EnrichmentInv

\* The WaitGroup counts the goroutines still to finish (valhalla.go:205-210).
THEOREM TheWaitGroupCounts == Spec => []WaitGroupCounts
BY EnrichmentInvariant, PTL DEF EnrichmentInv

\* Past wg.Wait no goroutine touches a trace or the leg any more
\* (valhalla.go:215).
THEOREM NobodyReadsTheLeg == Spec => []NoReaderLeft
BY EnrichmentInvariant, PTL DEF EnrichmentInv

-----------------------------------------------------------------------------
(* Where the chunks begin: as many points in as the chunks before have edges. *)

Edged == [h \in Chunks |-> traces[h] - 1]

Start(i) == SumFunctionOnSet(Edged, 1..(i - 1))

AllUsable == traces \in [Chunks -> Nat] /\ \A i \in Chunks : traces[i] >= 2

LEMMA StartFacts ==
    ASSUME AllUsable
    PROVE  /\ Start(1) = 0
           /\ \A i \in Chunks : Start(i) \in Nat /\ Start(i + 1) = Start(i) + traces[i] - 1
<1>1. Start(1) = 0
  <2>1. 1..(1 - 1) = {}
    OBVIOUS
  <2> QED BY <2>1, SumEmpty DEF Start
<1>2. ASSUME NEW i \in Chunks
      PROVE  Start(i) \in Nat /\ Start(i + 1) = Start(i) + traces[i] - 1
  <2>1. i \in Nat /\ N \in Nat /\ i >= 1 /\ i <= N
    BY ChunkAssumption DEF Chunks
  <2> DEFINE S == 1..(i - 1)
  <2>2. IsFiniteSet(S) /\ i \notin S /\ S \cup {i} = 1..i /\ S \cup {i} \subseteq Chunks
    <3>1. IsFiniteSet(S)
      BY <2>1, FS_Interval
    <3>2. S \cup {i} = 1..i /\ i \notin S /\ 1..i \subseteq 1..N
      BY <2>1
    <3> QED BY <3>1, <3>2 DEF Chunks
  <2>3. \A h \in S \cup {i} : Edged[h] \in Nat /\ Edged[h] = traces[h] - 1
    BY <2>2, SMTT(30) DEF Edged, AllUsable
  <2>4. SumFunctionOnSet(Edged, S) \in Nat
    BY <2>2, <2>3, SumType
  <2>5. SumFunctionOnSet(Edged, S \cup {i}) = SumFunctionOnSet(Edged, S) + Edged[i]
    <3>1. \A h \in S \cup {i} : Edged[h] \in Int
      BY <2>3
    <3> QED BY <2>2, <3>1, SumAdds
  <2>6. (i + 1) - 1 = i
    BY <2>1
  <2>7. traces[i] \in Nat
    BY DEF AllUsable
  <2> HIDE DEF S
  <2>8. Start(i) = SumFunctionOnSet(Edged, S) /\ Start(i + 1) = SumFunctionOnSet(Edged, S \cup {i})
    <3>1. S \cup {i} = 1..((i + 1) - 1)
      BY <2>2, <2>6 DEF S
    <3>2. Start(i) = SumFunctionOnSet(Edged, S)
      BY DEF Start, S
    <3>3. Start(i + 1) = SumFunctionOnSet(Edged, 1..((i + 1) - 1))
      BY DEF Start
    <3> QED BY <3>1, <3>2, <3>3
  <2> QED BY <2>2, <2>3, <2>4, <2>5, <2>7, <2>8
<1> QED BY <1>1, <1>2

-----------------------------------------------------------------------------
(* What the stitching loop has after the first i traces. *)

PointAt(at, i, j) == [at |-> at, chunk |-> i, point |-> j]
EdgeAt(at, i, j) == [from |-> at, to |-> at + 1, chunk |-> i, edge |-> j]

OwnPoints(i) == {PointAt(Start(i) + j, i, j) : j \in {j \in 0..(traces[i] - 1) : i > 1 => j > 0}}
OwnEdges(i) == {EdgeAt(Start(i) + j, i, j) : j \in 0..(traces[i] - 2)}

PointsUpTo(i) == UNION {OwnPoints(h) : h \in 1..i}
EdgesUpTo(i) == UNION {OwnEdges(h) : h \in 1..i}

PointsOf(acc) ==
    {PointAt(k - 1, acc.points[k][1], acc.points[k][2]) : k \in DOMAIN acc.points}
EdgesOf(acc) == {acc.edges[k] : k \in DOMAIN acc.edges}

StitchedUpTo(i, acc) ==
    /\ acc.points \in Seq(Nat \X Nat)
    /\ Len(acc.points) = IF i = 0 THEN 0 ELSE Start(i + 1) + 1
    /\ PointsOf(acc) = PointsUpTo(i)
    /\ acc.edges \in Seq([from : Nat, to : Nat, chunk : Nat, edge : Nat])
    /\ EdgesOf(acc) = EdgesUpTo(i)

LEMMA Concatenated ==
    ASSUME NEW T, NEW s \in Seq(T), NEW t \in Seq(T)
    PROVE  /\ s \o t \in Seq(T) /\ Len(s) \in Nat /\ Len(t) \in Nat
           /\ Len(s \o t) = Len(s) + Len(t) /\ DOMAIN (s \o t) = 1..(Len(s) + Len(t))
           /\ DOMAIN s = 1..Len(s)
           /\ \A k \in 1..Len(s) : (s \o t)[k] = s[k]
           /\ \A k \in 1..Len(t) : (s \o t)[Len(s) + k] = t[k]
OBVIOUS

LEMMA Listed ==
    ASSUME NEW T, NEW n \in Nat, NEW s \in [1..n -> T]
    PROVE  s \in Seq(T) /\ Len(s) = n
OBVIOUS

LEMMA NewPoints ==
    ASSUME NEW i \in Nat, NEW n \in Nat, n >= 2, NEW first \in {1, 2}
    PROVE  LET new == [j \in 1..n |-> <<i, j - 1>>]
               s   == SubSeq(new, first, n)
           IN  /\ s \in Seq(Nat \X Nat) /\ Len(s) = n - first + 1
               /\ \A k \in 1..(n - first + 1) : s[k] = <<i, k + first - 2>>
<1> DEFINE new == [j \in 1..n |-> <<i, j - 1>>]
           s   == SubSeq(new, first, n)
<1>1. new \in Seq(Nat \X Nat) /\ Len(new) = n /\ \A j \in 1..n : new[j] = <<i, j - 1>>
  <2>1. new \in [1..n -> Nat \X Nat]
    OBVIOUS
  <2> QED BY <2>1
<1> HIDE DEF new
<1>2. s \in Seq(Nat \X Nat) /\ Len(s) = n - first + 1
      /\ \A k \in 1..(n - first + 1) : s[k] = new[k + first - 1] /\ k + first - 1 \in 1..n
  BY <1>1
<1>3. \A k \in 1..(n - first + 1) : s[k] = <<i, k + first - 2>>
  <2> TAKE k \in 1..(n - first + 1)
  <2>1. s[k] = <<i, k + first - 1 - 1>>
    BY <1>1, <1>2
  <2> QED BY <2>1
<1> QED BY <1>2, <1>3 DEF new

LEMMA StitchNext ==
    ASSUME AllUsable, NEW i \in Chunks, NEW acc, StitchedUpTo(i - 1, acc)
    PROVE  StitchedUpTo(i, Stitch(acc, i))
<1> DEFINE n == traces[i]
           L == Len(acc.points)
           first == IF acc.points = <<>> THEN 1 ELSE 2
           new == [j \in 1..n |-> <<i, j - 1>>]
           s == SubSeq(new, first, n)
           edges == [j \in 1..(n - 1) |-> [from |-> Offset(acc.points) + j - 1,
                                           to   |-> Offset(acc.points) + j,
                                           chunk |-> i, edge |-> j - 1]]
           next == Stitch(acc, i)
<1>1. i \in Nat /\ i >= 1 /\ n \in Nat /\ n >= 2
  BY DEF Chunks, AllUsable
<1>2. next.points = acc.points \o s /\ next.edges = acc.edges \o edges
  BY DEF Stitch
<1>3. /\ acc.points \in Seq(Nat \X Nat) /\ L \in Nat
      /\ L = IF i = 1 THEN 0 ELSE Start(i) + 1
      /\ PointsOf(acc) = PointsUpTo(i - 1)
      /\ acc.edges \in Seq([from : Nat, to : Nat, chunk : Nat, edge : Nat])
      /\ EdgesOf(acc) = EdgesUpTo(i - 1)
  <2>1. i - 1 = 0 <=> i = 1
    BY <1>1
  <2>2. i - 1 + 1 = i
    BY <1>1
  <2> QED BY <2>1, <2>2 DEF StitchedUpTo
<1>4. Start(i) \in Nat /\ Start(i + 1) = Start(i) + n - 1 /\ (i = 1 => Start(i) = 0)
  BY StartFacts
<1>5. acc.points = <<>> <=> i = 1
  BY <1>1, <1>3, <1>4
<1>6. first = (IF i = 1 THEN 1 ELSE 2) /\ first \in {1, 2}
  BY <1>5
<1>7. Offset(acc.points) = Start(i)
  BY <1>3, <1>4, <1>5 DEF Offset
<1>8. edges = [j \in 1..(n - 1) |-> [from |-> Start(i) + j - 1, to |-> Start(i) + j,
                                    chunk |-> i, edge |-> j - 1]]
  BY <1>7
<1>9. /\ s \in Seq(Nat \X Nat) /\ Len(s) = n - first + 1
      /\ \A k \in 1..(n - first + 1) : s[k] = <<i, k + first - 2>>
  BY <1>1, <1>6, NewPoints
<1> HIDE DEF n
<1> HIDE DEF L
<1> HIDE DEF first
<1> HIDE DEF s
<1> HIDE DEF edges
<1> HIDE DEF next
<1>10. /\ next.points \in Seq(Nat \X Nat) /\ Len(next.points) = L + Len(s)
       /\ DOMAIN next.points = 1..(L + Len(s)) /\ DOMAIN acc.points = 1..L
       /\ \A k \in 1..L : next.points[k] = acc.points[k]
       /\ \A k \in 1..Len(s) : next.points[L + k] = s[k]
  <2> DEFINE c == acc.points \o s
  <2>1. /\ c \in Seq(Nat \X Nat) /\ Len(c) = Len(acc.points) + Len(s)
        /\ DOMAIN c = 1..(Len(acc.points) + Len(s)) /\ DOMAIN acc.points = 1..Len(acc.points)
        /\ \A k \in 1..Len(acc.points) : c[k] = acc.points[k]
        /\ \A k \in 1..Len(s) : c[Len(acc.points) + k] = s[k]
    <3>1. acc.points \in Seq(Nat \X Nat) /\ s \in Seq(Nat \X Nat)
      BY <1>3, <1>9
    <3> HIDE DEF c
    <3>2. c = acc.points \o s
      BY DEF c
    <3> QED BY <3>1, <3>2, Concatenated
  <2> QED BY <1>2, <2>1 DEF L
<1>a. /\ L \in Nat /\ L = Start(i) + first - 1 /\ Len(s) = n - first + 1
      /\ first \in Nat /\ n \in Nat /\ n >= 2 /\ Start(i) \in Nat
      /\ i = 1 => first = 1
      /\ i > 1 => first = 2
      /\ i = 1 \/ i > 1
  BY <1>1, <1>3, <1>4, <1>6, <1>9
<1>11. Len(next.points) = Start(i + 1) + 1
  BY <1>4, <1>10, <1>a
<1>12. PointsOf(next) = PointsOf(acc) \cup OwnPoints(i)
  <2>1. ASSUME NEW k \in 1..Len(s)
        PROVE  /\ PointAt((L + k) - 1, next.points[L + k][1], next.points[L + k][2])
                    = PointAt(Start(i) + (k + first - 2), i, k + first - 2)
               /\ k + first - 2 \in 0..(n - 1) /\ (i > 1 => k + first - 2 > 0)
    <3>1. next.points[L + k] = <<i, k + first - 2>>
      BY <1>9, <1>10
    <3>2. (L + k) - 1 = Start(i) + (k + first - 2)
      BY <1>a
    <3>3. k + first - 2 \in 0..(n - 1) /\ (i > 1 => k + first - 2 > 0)
      BY <1>a
    <3> QED BY <3>1, <3>2, <3>3
  <2>2. ASSUME NEW e \in PointsOf(next) PROVE e \in PointsOf(acc) \cup OwnPoints(i)
    <3>1. PICK k \in 1..(L + Len(s)) :
              e = PointAt(k - 1, next.points[k][1], next.points[k][2])
      BY <1>10 DEF PointsOf
    <3>2. CASE k \in 1..L
      BY <1>10, <3>1, <3>2 DEF PointsOf
    <3>3. CASE k \notin 1..L
      <4> DEFINE q == k - L
      <4>0. L \in Nat /\ Len(s) \in Nat
        BY <1>a
      <4>1. q \in 1..Len(s) /\ k = L + q
        BY <4>0, <3>3
      <4> HIDE DEF q
      <4>2. e = PointAt(Start(i) + (q + first - 2), i, q + first - 2)
        BY <2>1, <3>1, <4>1
      <4> QED BY <2>1, <4>1, <4>2 DEF OwnPoints, n
    <3> QED BY <3>2, <3>3
  <2>3. ASSUME NEW e \in PointsOf(acc) PROVE e \in PointsOf(next)
    <3>1. PICK k \in 1..L : e = PointAt(k - 1, acc.points[k][1], acc.points[k][2])
      BY <1>10, <2>3 DEF PointsOf
    <3>2. k \in 1..(L + Len(s)) /\ next.points[k] = acc.points[k]
      BY <1>10, <1>a
    <3> QED BY <1>10, <3>1, <3>2 DEF PointsOf
  <2>4. ASSUME NEW e \in OwnPoints(i) PROVE e \in PointsOf(next)
    <3>1. PICK j \in 0..(n - 1) : (i > 1 => j > 0) /\ e = PointAt(Start(i) + j, i, j)
      BY <2>4 DEF OwnPoints, n
    <3> DEFINE k == j - first + 2
    <3>2. k \in 1..Len(s) /\ k + first - 2 = j
      BY <1>a, <3>1
    <3> HIDE DEF k
    <3>3. L + k \in 1..(L + Len(s))
      BY <1>a, <3>2
    <3>4. e = PointAt((L + k) - 1, next.points[L + k][1], next.points[L + k][2])
      BY <2>1, <3>1, <3>2
    <3> DEFINE q == L + k
    <3>5. q \in DOMAIN next.points
      BY <1>10, <3>3
    <3>6. e = PointAt(q - 1, next.points[q][1], next.points[q][2])
      BY <3>4
    <3> HIDE DEF q
    <3> QED BY <3>5, <3>6 DEF PointsOf
  <2> QED BY <2>2, <2>3, <2>4
<1>13. /\ \A j \in 1..(n - 1) : edges[j] = EdgeAt(Start(i) + (j - 1), i, j - 1)
       /\ edges \in Seq([from : Nat, to : Nat, chunk : Nat, edge : Nat]) /\ Len(edges) = n - 1
  <2>1. \A j \in 1..(n - 1) :
            /\ edges[j] = [from |-> Start(i) + j - 1, to |-> Start(i) + j,
                           chunk |-> i, edge |-> j - 1]
            /\ Start(i) + j - 1 = Start(i) + (j - 1) /\ Start(i) + j = Start(i) + (j - 1) + 1
            /\ Start(i) + j - 1 \in Nat /\ Start(i) + j \in Nat /\ j - 1 \in Nat
    BY <1>1, <1>4, <1>8
  <2>2. \A j \in 1..(n - 1) : edges[j] = EdgeAt(Start(i) + (j - 1), i, j - 1)
    BY <2>1 DEF EdgeAt
  <2>3. edges \in [1..(n - 1) -> [from : Nat, to : Nat, chunk : Nat, edge : Nat]]
    BY <1>1, <1>8, <2>1
  <2>4. n - 1 \in Nat
    BY <1>1
  <2>5. edges \in Seq([from : Nat, to : Nat, chunk : Nat, edge : Nat]) /\ Len(edges) = n - 1
    BY <2>3, <2>4, Listed
  <2> QED BY <2>2, <2>5
<1>14. LET E == Len(acc.edges)
       IN  /\ next.edges \in Seq([from : Nat, to : Nat, chunk : Nat, edge : Nat])
           /\ DOMAIN next.edges = 1..(E + (n - 1)) /\ DOMAIN acc.edges = 1..E /\ E \in Nat
           /\ \A k \in 1..E : next.edges[k] = acc.edges[k]
           /\ \A k \in 1..(n - 1) : next.edges[E + k] = edges[k]
  <2>1. /\ acc.edges \in Seq([from : Nat, to : Nat, chunk : Nat, edge : Nat])
        /\ edges \in Seq([from : Nat, to : Nat, chunk : Nat, edge : Nat])
        /\ Len(edges) = n - 1
    BY <1>3, <1>13
  <2> DEFINE c == acc.edges \o edges
             Edge == [from : Nat, to : Nat, chunk : Nat, edge : Nat]
  <2>2. /\ c \in Seq(Edge) /\ DOMAIN c = 1..(Len(acc.edges) + Len(edges))
        /\ DOMAIN acc.edges = 1..Len(acc.edges) /\ Len(acc.edges) \in Nat
        /\ \A k \in 1..Len(acc.edges) : c[k] = acc.edges[k]
        /\ \A k \in 1..Len(edges) : c[Len(acc.edges) + k] = edges[k]
    <3> HIDE DEF c, Edge
    <3>1. acc.edges \in Seq(Edge) /\ edges \in Seq(Edge) /\ c = acc.edges \o edges
      BY <2>1 DEF c, Edge
    <3> QED BY <3>1, Concatenated
  <2> QED BY <1>2, <2>1, <2>2
<1>15. EdgesOf(next) = EdgesOf(acc) \cup OwnEdges(i)
  <2> DEFINE E == Len(acc.edges)
  <2>1. /\ DOMAIN next.edges = 1..(E + (n - 1)) /\ DOMAIN acc.edges = 1..E /\ E \in Nat
        /\ \A k \in 1..E : next.edges[k] = acc.edges[k]
        /\ \A k \in 1..(n - 1) : next.edges[E + k] = edges[k]
    BY <1>14
  <2> HIDE DEF E
  <2>2. ASSUME NEW e \in EdgesOf(next) PROVE e \in EdgesOf(acc) \cup OwnEdges(i)
    <3>1. PICK k \in 1..(E + (n - 1)) : e = next.edges[k]
      BY <2>1, <2>2 DEF EdgesOf
    <3>2. CASE k \in 1..E
      BY <2>1, <3>1, <3>2 DEF EdgesOf
    <3>3. CASE k \notin 1..E
      <4> DEFINE q == k - E
      <4>1. q \in 1..(n - 1) /\ k = E + q /\ q - 1 \in 0..(n - 2)
        BY <1>1, <2>1, <3>3
      <4> HIDE DEF q
      <4>2. e = EdgeAt(Start(i) + (q - 1), i, q - 1)
        BY <1>13, <2>1, <3>1, <4>1
      <4> QED BY <4>1, <4>2 DEF OwnEdges, n
    <3> QED BY <3>2, <3>3
  <2>3. ASSUME NEW e \in EdgesOf(acc) PROVE e \in EdgesOf(next)
    <3>1. PICK k \in 1..E : e = acc.edges[k]
      BY <2>1, <2>3 DEF EdgesOf
    <3>2. k \in 1..(E + (n - 1)) /\ next.edges[k] = acc.edges[k]
      BY <1>1, <2>1
    <3> QED BY <2>1, <3>1, <3>2 DEF EdgesOf
  <2>4. ASSUME NEW e \in OwnEdges(i) PROVE e \in EdgesOf(next)
    <3>1. PICK j \in 0..(n - 2) : e = EdgeAt(Start(i) + j, i, j)
      BY <2>4 DEF OwnEdges, n
    <3>2. j + 1 \in 1..(n - 1) /\ j + 1 - 1 = j /\ E + (j + 1) \in 1..(E + (n - 1))
      BY <1>1, <2>1
    <3>3. e = edges[j + 1]
      BY <1>13, <3>1, <3>2
    <3> QED BY <2>1, <3>2, <3>3 DEF EdgesOf
  <2> QED BY <2>2, <2>3, <2>4
<1>16. 1..i = 1..(i - 1) \cup {i}
  BY <1>1
<1>17. /\ PointsUpTo(i)
             = PointsUpTo(i - 1) \cup OwnPoints(i)
       /\ EdgesUpTo(i)
             = EdgesUpTo(i - 1) \cup OwnEdges(i)
  <2> DEFINE S == 1..(i - 1)
  <2>1. 1..i = S \cup {i}
    BY <1>16
  <2> HIDE DEF S
  <2>2. /\ UNION {OwnPoints(h) : h \in S \cup {i}} = (UNION {OwnPoints(h) : h \in S}) \cup OwnPoints(i)
        /\ UNION {OwnEdges(h) : h \in S \cup {i}} = (UNION {OwnEdges(h) : h \in S}) \cup OwnEdges(i)
    <3>1. UNION {OwnPoints(h) : h \in S \cup {i}} = (UNION {OwnPoints(h) : h \in S}) \cup OwnPoints(i)
      OBVIOUS
    <3>2. UNION {OwnEdges(h) : h \in S \cup {i}} = (UNION {OwnEdges(h) : h \in S}) \cup OwnEdges(i)
      OBVIOUS
    <3> QED BY <3>1, <3>2
  <2> QED BY <2>1, <2>2, Zenon DEF PointsUpTo, EdgesUpTo, S
<1>18. i # 0
  BY <1>1
<1>19. next.edges \in Seq([from : Nat, to : Nat, chunk : Nat, edge : Nat])
  BY <1>14
<1>20. PointsOf(next) = PointsUpTo(i)
  BY <1>3, <1>12, <1>17
<1>21. EdgesOf(next) = EdgesUpTo(i)
  BY <1>3, <1>15, <1>17
<1>22. StitchedUpTo(i, next)
  BY <1>10, <1>11, <1>18, <1>19, <1>20, <1>21 DEF StitchedUpTo
<1> QED BY <1>22 DEF next

-----------------------------------------------------------------------------
(* The loop as a whole: its recursion has a solution, and all traces are   *)
(* stitched at its end.                                                    *)

Together(g, i) == IF i = 0 THEN NoStitch ELSE Stitch(g[i - 1], i)

LEMMA TogetherUpTo ==
    ASSUME NEW n \in Nat
    PROVE  \E g : g = [i \in 0..n |-> Together(g, i)]
<1> DEFINE Solved(k) == \E g : g = [i \in 0..k |-> Together(g, i)]
           Unsolved == {k \in Nat : ~Solved(k)}
<1>1. SUFFICES ASSUME Unsolved # {} PROVE FALSE
  OBVIOUS
<1>2. PICK k \in Unsolved : \A j \in Unsolved : k <= j
  <2>1. Unsolved \in SUBSET Nat
    OBVIOUS
  <2> HIDE DEF Unsolved
  <2> QED BY <1>1, <2>1, SmallestNumber
<1>3. k # 0
  <2> SUFFICES ASSUME k = 0 PROVE Solved(0)
    OBVIOUS
  <2> DEFINE g == [i \in 0..0 |-> NoStitch]
  <2>1. g = [i \in 0..0 |-> Together(g, i)]
    BY DEF Together
  <2> QED BY <2>1
<1>4. k - 1 \in Nat /\ k \in Nat /\ k - 1 \notin Unsolved
  <2>1. k \in Nat /\ ~(k <= k - 1)
    OBVIOUS
  <2>2. k - 1 \in Nat
    BY <1>3, <2>1
  <2> HIDE DEF Unsolved
  <2> QED BY <1>2, <2>1, <2>2
<1>5. PICK h : h = [i \in 0..(k - 1) |-> Together(h, i)]
  BY <1>4
<1> DEFINE g == [i \in 0..k |-> Together(h, i)]
<1>6. \A i \in 0..(k - 1) : g[i] = h[i]
  <2> TAKE i \in 0..(k - 1)
  <2>1. i \in 0..k
    BY <1>4
  <2>2. h[i] = Together(h, i)
    BY <1>5
  <2> QED BY <2>1, <2>2
<1>7. \A i \in 0..k : Together(h, i) = Together(g, i)
  <2> TAKE i \in 0..k
  <2>1. i # 0 => i - 1 \in 0..(k - 1)
    BY <1>4
  <2>2. i # 0 => g[i - 1] = h[i - 1]
    BY <1>6, <2>1
  <2> HIDE DEF g
  <2> QED BY <2>2 DEF Together
<1>8. g = [i \in 0..k |-> Together(g, i)]
  BY <1>7
<1> HIDE DEF g
<1>9. Solved(k)
  BY <1>8
<1> QED BY <1>9

LEMMA NothingStitched ==
    StitchedUpTo(0, NoStitch)
<1>1. PointsOf(NoStitch) = {} /\ EdgesOf(NoStitch) = {}
  BY DEF PointsOf, EdgesOf, NoStitch
<1>2. PointsUpTo(0) = {} /\ EdgesUpTo(0) = {}
  <2>1. 1..0 = {}
    OBVIOUS
  <2> QED BY <2>1 DEF PointsUpTo, EdgesUpTo
<1>3. NoStitch.points = <<>> /\ NoStitch.edges = <<>>
  BY DEF NoStitch
<1> QED BY <1>1, <1>2, <1>3 DEF StitchedUpTo

LEMMA AllStitched ==
    ASSUME AllUsable
    PROVE  StitchedUpTo(N, Stitched) /\ Stitched # Coarse
<1>1. N \in Nat /\ N >= 1
  BY ChunkAssumption
<1> DEFINE Solves0(g) == g = [i \in 0..N |-> Together(g, i)]
           upTo == CHOOSE g : Solves0(g)
<1>2. Stitched = upTo[N]
  BY DEF Stitched, Together
<1>3. Solves0(upTo)
  <2>1. \E g : Solves0(g)
    BY <1>1, TogetherUpTo
  <2> QED BY <2>1
<1> HIDE DEF upTo
<1>4. \A i \in 0..N : upTo[i] = Together(upTo, i)
  BY <1>3
<1> DEFINE Wrong == {i \in 0..N : ~StitchedUpTo(i, upTo[i])}
<1>5. Wrong = {}
  <2> SUFFICES ASSUME Wrong # {} PROVE FALSE
    OBVIOUS
  <2>1. PICK i \in Wrong : \A k \in Wrong : i <= k
    <3>1. Wrong \in SUBSET Nat
      BY <1>1
    <3> HIDE DEF Wrong
    <3> QED BY <3>1, SmallestNumber
  <2>2. i \in 0..N /\ i \in Nat
    BY <1>1
  <2>3. CASE i = 0
    BY <1>4, <2>2, <2>3, NothingStitched DEF Together
  <2>4. CASE i > 0
    <3>1. i - 1 \in 0..N /\ ~(i <= i - 1) /\ i \in Chunks /\ i # 0
      BY <1>1, <2>2, <2>4 DEF Chunks
    <3>2. StitchedUpTo(i - 1, upTo[i - 1])
      BY <2>1, <3>1
    <3>3. StitchedUpTo(i, Stitch(upTo[i - 1], i))
      BY <3>1, <3>2, StitchNext
    <3>4. upTo[i] = Stitch(upTo[i - 1], i)
      BY <1>4, <2>2, <3>1 DEF Together
    <3> QED BY <3>3, <3>4
  <2> QED BY <2>2, <2>3, <2>4
<1>6. Stitched # Coarse
  <2>1. upTo[N] = Stitch(upTo[N - 1], N)
    BY <1>1, <1>4 DEF Together
  <2>2. DOMAIN Stitch(upTo[N - 1], N) = {"points", "edges"}
    BY DEF Stitch
  <2>3. DOMAIN Coarse = {"edges"}
    BY DEF Coarse
  <2> QED BY <1>2, <2>1, <2>2, <2>3
<1> QED BY <1>1, <1>2, <1>5, <1>6

-----------------------------------------------------------------------------
(* The leg as the promise sees it. *)

\* With all replies in, the promise counts as the loop does.
LEMMA PromisedPlaces ==
    ASSUME AllUsable, \A i \in Chunks : asked[i]
    PROVE  Promise!Shape = PointsUpTo(N) /\ Promise!Edges = EdgesUpTo(N)
<1> DEFINE reply == Replies
<1>1. reply = [i \in Chunks |-> traces[i]] /\ \A i \in Chunks : reply[i] = traces[i]
  BY DEF Replies
<1>2. [h \in Chunks |-> reply[h] - 1] = Edged
  BY <1>1 DEF Edged
<1>3. \A i : Promise!Before(i) = Start(i)
  <2> TAKE i
  <2>1. Promise!Before(i) = Promise!SumFunctionOnSet(Edged, 1..(i - 1))
    BY <1>2 DEF Promise!Before
  <2>2. Promise!SumFunctionOnSet(Edged, 1..(i - 1)) = SumFunctionOnSet(Edged, 1..(i - 1))
    BY DEF Promise!SumFunctionOnSet, Promise!FoldFunctionOnSet, Promise!MapThenFoldSet,
       SumFunctionOnSet, FoldFunctionOnSet, MapThenFoldSet
  <2> QED BY <2>1, <2>2 DEF Start
<1>4. \A i \in Chunks :
          Promise!Points(i) = {j \in 0..(traces[i] - 1) : i > 1 => j > 0}
  BY <1>1 DEF Promise!Points
<1>5. \A i \in Chunks : OwnPoints(i) =
          {[at |-> Promise!Before(i) + j, chunk |-> i, point |-> j] : j \in Promise!Points(i)}
  BY <1>3, <1>4 DEF OwnPoints, PointAt
<1>6. \A i \in Chunks : OwnEdges(i) =
          {[from |-> Promise!Before(i) + j, to |-> Promise!Before(i) + j + 1,
            chunk |-> i, edge |-> j] : j \in 0..(reply[i] - 2)}
  BY <1>1, <1>3 DEF OwnEdges, EdgeAt
<1>7. Promise!Shape = PointsUpTo(N)
  BY <1>5 DEF Promise!Shape, PointsUpTo, Chunks
<1>8. Promise!Edges = EdgesUpTo(N)
  BY <1>6 DEF Promise!Edges, EdgesUpTo, Chunks
<1> QED BY <1>7, <1>8

\* The points in the leg come one after the other, as those of the chunks do.
LEMMA StitchedByPosition ==
    ASSUME StitchedUpTo(N, Stitched), Stitched # Coarse, leg' = Stitched
    PROVE  ByPosition' = [edges |-> EdgesUpTo(N), shape |-> PointsUpTo(N)]
<1>1. ByPosition' = [edges |-> EdgesOf(Stitched), shape |-> PointsOf(Stitched)]
  BY DEF ByPosition, EdgesOf, PointsOf, PointAt, Coarse
<1> QED BY <1>1, ChunkAssumption DEF StitchedUpTo

\* A goroutine has its reply once it is on its way out, and the handler leaves
\* the leg alone until it returns.
LegInv ==
    /\ \A i \in Chunks : asked[i] <=> worker[i] \in {"leaving", "released", "done"}
    /\ main # "returned" => leg = Coarse /\ result = "none"

LEMMA InitLegInv == Init => LegInv
BY DEF Init, LegInv

LEMMA LegStep ==
    ASSUME EnrichmentInv, LegInv, [Next]_vars
    PROVE  LegInv'
<1> USE DEF EnrichmentInv, TypeOK, LegInv
<1>1. CASE Main
  <2>1. CASE Spawn
    <3>1. spawned + 1 \in Chunks /\ worker[spawned + 1] = "unborn"
      BY <2>1, ChunkAssumption DEF BornInOrder, Chunks, Spawn
    <3> QED BY <2>1, <3>1 DEF Spawn, Goto
  <2>2. CASE TooShort \/ Spawned \/ Wait \/ StitchFails \/ StitchSucceeds
    BY <2>2 DEF TooShort, Spawned, Wait, StitchFails, StitchSucceeds
  <2> QED BY <1>1, <2>1, <2>2 DEF Main
<1>2. ASSUME NEW i \in Chunks, Worker(i) PROVE LegInv'
  <2>1. CASE Acquire(i)
    BY <2>1 DEF Acquire, Goto
  <2>2. ASSUME NEW n \in 0..MaxPoints, Trace(i, n) PROVE LegInv'
    BY <2>2 DEF Trace, Goto
  <2>3. CASE Release(i)
    BY <2>3 DEF Release, Goto
  <2>4. CASE Done(i)
    BY <2>4 DEF Done, Goto
  <2> QED BY <1>2, <2>1, <2>2, <2>3, <2>4 DEF Worker
<1>3. CASE UNCHANGED vars
  BY <1>3 DEF vars
<1> QED BY <1>1, <1>2, <1>3 DEF Next, Returned

LEMMA LegInvariant == Spec => [](EnrichmentInv /\ LegInv)
BY InitEnrichmentInv, EnrichmentStep, InitLegInv, LegStep, PTL DEF Spec

-----------------------------------------------------------------------------
(* The refinement: the engine's replies are the promise's, the handler's   *)
(* last step is its answer, and every other step is hidden.                *)

LEMMA RepliesOneByOne ==
    ASSUME EnrichmentInv, LegInv, NEW i \in Chunks, NEW n \in 0..MaxPoints, Trace(i, n)
    PROVE  Promise!Next
<1>1. ~asked[i] /\ main \notin {"short", "stitch", "returned"} /\ main' = main
  <2>1. i \in Alive
    BY DEF Trace, Alive
  <2>2. main # "short"
    BY ChunkAssumption DEF EnrichmentInv, SpawnsAll, BornInOrder, Chunks, Trace
  <2> QED BY <2>1, <2>2 DEF EnrichmentInv, LegInv, NoReaderLeft, Trace
<1>2. Replies[i] = -1 /\ result = "none"
  BY <1>1 DEF LegInv, Replies, Short
<1>3. Replies' = [Replies EXCEPT ![i] = n]
  <2>1. ~Short /\ ~Short'
    BY <1>1 DEF Short
  <2> QED BY <1>1, <2>1 DEF EnrichmentInv, TypeOK, Replies, Trace
<1>4. ByPosition' = ByPosition /\ result' = result
  BY DEF Trace, ByPosition
<1>5. Promise!Reply(i, n)
  BY <1>2, <1>3, <1>4 DEF Promise!Reply, Promise!NoReply
<1> QED BY <1>5 DEF Promise!Next

LEMMA RepliesStay ==
    ASSUME UNCHANGED <<asked, traces>>, Short' <=> Short
    PROVE  UNCHANGED Replies
BY DEF Replies

\* All goroutines were born, and none is alive.
LEMMA AllAreDone ==
    ASSUME EnrichmentInv, main = "stitch"
    PROVE  (\A i \in Chunks : worker[i] = "done") /\ spawned # 0
<1>1. spawned = N /\ N # 0
  BY SomeChunk DEF EnrichmentInv, SpawnsAll
<1>2. \A i \in Chunks : worker[i] # "unborn"
  BY <1>1, ChunkAssumption DEF EnrichmentInv, BornInOrder, Chunks
<1>3. Alive = {}
  BY DEF EnrichmentInv, NoReaderLeft
<1> QED BY <1>1, <1>2, <1>3 DEF Alive

LEMMA EnrichesAsPromised ==
    ASSUME EnrichmentInv, LegInv, StitchSucceeds
    PROVE  Promise!Next
<1>1. AllUsable /\ \A i \in Chunks : asked[i]
  BY AllAreDone
  DEF EnrichmentInv, TypeOK, LegInv, StitchSucceeds, Unusable, AllUsable
<1>6. ~Short /\ ~Short'
  BY AllAreDone DEF StitchSucceeds, Short
<1>2. leg' = Stitched /\ result = "none" /\ result' = "true" /\ UNCHANGED <<asked, traces>>
  BY DEF LegInv, StitchSucceeds
<1>3. ByPosition' = [edges |-> Promise!Edges, shape |-> Promise!Shape]
  BY <1>1, <1>2, AllStitched, StitchedByPosition, PromisedPlaces
<1>4. \A i \in Chunks : Promise!Usable(i)
  BY <1>1 DEF Promise!Usable, AllUsable, Replies
<1>7. UNCHANGED Replies
  BY <1>2, <1>6, RepliesStay
<1>5. Promise!Enrich
  BY <1>2, <1>3, <1>4, <1>7 DEF Promise!Enrich
<1> QED BY <1>5 DEF Promise!Next

LEMMA GivesUpAsPromised ==
    ASSUME EnrichmentInv, LegInv, StitchFails
    PROVE  Promise!Next
<1>1. \A i \in Chunks : asked[i] /\ traces[i] \in Nat
  <2>1. \A i \in Chunks : asked[i]
    BY AllAreDone DEF LegInv, StitchFails
  <2>2. \A i \in Chunks : traces[i] \in Nat
    BY ChunkAssumption DEF EnrichmentInv, TypeOK
  <2> QED BY <2>1, <2>2
<1>6. ~Short /\ ~Short'
  BY AllAreDone DEF StitchFails, Short
<1>2. result = "none" /\ result' = "false" /\ UNCHANGED <<asked, traces, leg>>
  BY DEF LegInv, StitchFails
<1>3. \A i \in Chunks : Replies[i] # -1
  BY <1>1 DEF Replies
<1>4. \E i \in Chunks : ~Promise!Usable(i)
  BY <1>1 DEF StitchFails, Unusable, Promise!Usable, Replies
<1>7. UNCHANGED Replies
  BY <1>2, <1>6, RepliesStay
<1>5. Promise!GiveUp
  BY <1>2, <1>3, <1>4, <1>7 DEF Promise!GiveUp, Promise!NoReply, ByPosition
<1> QED BY <1>5 DEF Promise!Next

\* A leg of a single point is given up at once.
LEMMA LeavesTheShortLeg ==
    ASSUME EnrichmentInv, LegInv, TooShort
    PROVE  Promise!Next
<1>1. /\ UNCHANGED <<asked, traces, leg, spawned>>
      /\ result = "none" /\ result' = "false" /\ main = "short" /\ main' = "returned"
  BY DEF LegInv, TooShort
<1>2. spawned = 0
  BY <1>1 DEF EnrichmentInv, SpawnsAll
<1>3. Short /\ Short'
  BY <1>1, <1>2 DEF Short
<1>4. \A i \in Chunks : Replies[i] = 0
  <2>1. \A i \in Chunks : worker[i] = "unborn"
    BY <1>2 DEF EnrichmentInv, BornInOrder, Chunks
  <2>2. \A i \in Chunks : ~asked[i]
    BY <2>1 DEF LegInv
  <2> QED BY <1>3, <2>2 DEF Replies, Nil
<1>5. \E i \in Chunks : ~Promise!Usable(i)
  <2>1. 1 \in Chunks
    BY ChunkAssumption DEF Chunks
  <2> QED BY <1>4, <2>1 DEF Promise!Usable
<1>6. UNCHANGED Replies
  BY <1>1, <1>3, RepliesStay
<1>7. Promise!GiveUp
  BY <1>1, <1>4, <1>5, <1>6 DEF Promise!GiveUp, Promise!NoReply, ByPosition
<1> QED BY <1>7 DEF Promise!Next

LEMMA OthersAreHidden ==
    ASSUME UNCHANGED <<asked, traces, leg, result>>, Short' <=> Short
    PROVE  UNCHANGED Promise!legVars
BY RepliesStay DEF Promise!legVars, ByPosition

LEMMA LegRefines ==
    ASSUME EnrichmentInv, LegInv, [Next]_vars
    PROVE  [Promise!Next]_(Promise!legVars)
<1>1. CASE Main
  <2>1. CASE Spawn \/ Spawned \/ Wait
    <3>1. UNCHANGED <<asked, traces, leg, result>>
      BY <2>1 DEF Spawn, Spawned, Wait
    <3>2. ~Short /\ ~Short'
      BY <2>1 DEF Spawn, Spawned, Wait, Short
    <3> QED BY <3>1, <3>2, OthersAreHidden
  <2> QED BY <1>1, <2>1, LeavesTheShortLeg, EnrichesAsPromised, GivesUpAsPromised DEF Main
<1>2. ASSUME NEW i \in Chunks, Worker(i) PROVE [Promise!Next]_(Promise!legVars)
  <2>1. CASE Acquire(i) \/ Release(i) \/ Done(i)
    BY <2>1, OthersAreHidden DEF Acquire, Release, Done, Short
  <2> QED BY <1>2, <2>1, RepliesOneByOne DEF Worker
<1>3. CASE UNCHANGED vars
  BY <1>3, OthersAreHidden DEF vars, Short
<1> QED BY <1>1, <1>2, <1>3 DEF Next, Returned

LEMMA InitRefines == Init => Promise!Init
<1> SUFFICES ASSUME Init PROVE Promise!Init
  OBVIOUS
<1>1. \A i \in Chunks : ~asked[i]
  BY DEF Init
<1>2. Replies = [h \in Chunks |-> IF Short THEN 0 ELSE -1]
  BY <1>1 DEF Replies, Nil
<1>3. ByPosition = Coarse /\ result = "none"
  BY DEF Init, ByPosition
<1>4. \E n \in {-1, 0} : Replies = [h \in Chunks |-> n]
  <2>1. CASE Short
    BY <1>2, <2>1
  <2>2. CASE ~Short
    BY <1>2, <2>2
  <2> QED BY <2>1, <2>2
<1> QED BY <1>3, <1>4 DEF Promise!Init, Promise!NoReply, Promise!Coarse, Coarse

\* The safety part of ImplementsEnrichedLeg, for every number of chunks and
\* every length of the traces: whatever the order of the replies, the leg
\* becomes in one step the chunks in the order of the road, each at the place
\* where the ones before it end, or stays as it was because a chunk has no
\* use; and it changes only once all replies are in (valhalla.go:215-259).
THEOREM EnrichmentIsAllOrNothing ==
    Spec => Promise!Init /\ [][Promise!Next]_(Promise!legVars)
<1>1. Init => Promise!Init
  BY InitRefines
<1>2. EnrichmentInv /\ LegInv /\ [Next]_vars => [Promise!Next]_(Promise!legVars)
  BY LegRefines
<1> QED BY <1>1, <1>2, LegInvariant, PTL DEF Spec

=============================================================================
