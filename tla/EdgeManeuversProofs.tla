------------------------- MODULE EdgeManeuversProofs -------------------------
(***************************************************************************)
(* Proofs about the cutting of a leg into chunks and about the maneuvers   *)
(* made of the edges of their traces, for every shape, every limit and     *)
(* every sequence of edges.                                                *)
(***************************************************************************)
EXTENDS EdgeManeuvers, Sums

-----------------------------------------------------------------------------
(* Distances along the shape. *)

ShapeOK == hop \in Seq(Nat) /\ Len(hop) \in Nat \ {0}

\* A hop of the shape is a value of `hop`, and stretches of it are finite.
LEMMA Hop ==
    ASSUME ShapeOK, NEW a \in Nat, NEW b \in 0..Last0
    PROVE  /\ IsFiniteSet((a + 1)..b)
           /\ \A k \in (a + 1)..b : hop[k] \in Nat
<1>1. b \in Nat /\ b <= Len(hop) /\ Len(hop) \in Nat
  BY DEF ShapeOK, Last0, Points
<1>2. \A k \in (a + 1)..b : k \in 1..Len(hop)
  BY <1>1
<1>3. \A k \in (a + 1)..b : hop[k] \in Nat
  BY <1>2 DEF ShapeOK
<1> QED BY <1>1, <1>3, FS_Interval

LEMMA LengthType ==
    ASSUME ShapeOK, NEW a \in Nat, NEW b \in 0..Last0
    PROVE  Length(a, b) \in Nat
BY Hop, SumType DEF Length

LEMMA LengthOfNothing ==
    ASSUME NEW a \in Nat, NEW b \in Nat, b <= a
    PROVE  Length(a, b) = 0
<1>1. (a + 1)..b = {}
  OBVIOUS
<1> QED BY <1>1, SumEmpty DEF Length

\* Distances along the shape add up.
LEMMA LengthAddsUp ==
    ASSUME ShapeOK, NEW a \in Nat, NEW b \in Nat, NEW c \in 0..Last0, a <= b, b <= c
    PROVE  Length(a, c) = Length(a, b) + Length(b, c)
<1> DEFINE S == (a + 1)..b
           R == (b + 1)..c
<1>1. S \cup R = (a + 1)..c /\ S \cap R = {} /\ b \in 0..Last0
  BY DEF ShapeOK, Last0, Points
<1>2. IsFiniteSet(S) /\ IsFiniteSet(R) /\ \A k \in S \cup R : hop[k] \in Int
  BY <1>1, Hop
<1> HIDE DEF S, R
<1>3. SumFunctionOnSet(hop, S \cup R) = SumFunctionOnSet(hop, S) + SumFunctionOnSet(hop, R)
  BY <1>1, <1>2, SumUnion
<1> QED BY <1>1, <1>3 DEF S, R, Length

LEMMA LengthOfHop ==
    ASSUME ShapeOK, NEW b \in 1..Last0
    PROVE  Length(b - 1, b) = hop[b]
<1>1. ((b - 1) + 1)..b = {} \cup {b} /\ hop[b] \in Nat /\ IsFiniteSet({})
  BY FS_EmptySet DEF ShapeOK, Last0, Points
<1>2. SumFunctionOnSet(hop, {} \cup {b}) = SumFunctionOnSet(hop, {}) + hop[b]
  BY <1>1, SumAdds
<1> QED BY <1>1, <1>2, SumEmpty DEF Length

-----------------------------------------------------------------------------
(* splitPointsByDistance.  While the loop runs, `dist` is the distance from  *)
(* `start` to the point before i, below the limit, and `start` is where the  *)
(* last range ended.                                                         *)

ChunkTypeOK ==
    /\ ShapeOK
    /\ i \in 1..(Points + 1)
    /\ start \in 0..Last0
    /\ dist \in Nat
    /\ ranges \in Seq(Nat \X Nat)

Measured == ~Returned => start < i /\ dist = Length(start, i - 1) /\ dist < MaxMeters

Reached == IF Returned THEN Last0 ELSE start

Chained ==
    /\ IF ranges = <<>> THEN Reached = 0
       ELSE ranges[1][1] = 0 /\ ranges[Len(ranges)][2] = Reached
    /\ \A k \in DOMAIN ranges : ranges[k][1] < ranges[k][2] /\ ranges[k][2] <= Last0
    /\ \A k \in 1..(Len(ranges) - 1) : ranges[k][2] = ranges[k + 1][1]

ChunkInv == ChunkTypeOK /\ Measured /\ Chained /\ CutsAtTheLimit

LEMMA InitChunkInv ==
    ASSUME ChunkInit
    PROVE  ChunkInv
<1>1. PICK n \in 1..(MaxPoints - 1) : hop \in [1..n -> Hops]
  BY DEF ChunkInit
<1>2. ShapeOK
  <2>1. n \in Nat \ {0} /\ Hops \subseteq Nat
    BY ChunkAssumption
  <2>2. \A k \in 1..n : hop[k] \in Nat
    BY <1>1, <2>1
  <2>3. hop \in [1..n -> Nat]
    BY <1>1, <2>2
  <2> QED BY <2>1, <2>3 DEF ShapeOK
<1>3. ChunkTypeOK /\ Chained /\ CutsAtTheLimit
  BY <1>2
  DEF ChunkInit, ChunkTypeOK, Chained, Reached, Returned, CutsAtTheLimit, Last0, Points, ShapeOK
<1>4. Measured
  BY LengthOfNothing, ChunkAssumption DEF ChunkInit, Measured
<1> QED BY <1>3, <1>4 DEF ChunkInv

\* What a range appended to the others has to be.
LEMMA RangeKeepsInv ==
    ASSUME ChunkInv, hop' = hop, NEW a \in Nat, NEW b \in 1..Last0, a < b, a = Reached,
           ~Returned, ranges' = Append(ranges, <<a, b>>), Reached' = b,
           Length(a, b - 1) < MaxMeters, b < Last0 => Length(a, b) >= MaxMeters
    PROVE  Chained' /\ CutsAtTheLimit'
<1>1. /\ ranges \in Seq(Nat \X Nat)
      /\ Len(ranges') = Len(ranges) + 1
      /\ ranges'[Len(ranges) + 1] = <<a, b>>
      /\ \A k \in 1..Len(ranges) : ranges'[k] = ranges[k]
      /\ DOMAIN ranges' = 1..(Len(ranges) + 1) /\ DOMAIN ranges = 1..Len(ranges)
  BY DEF ChunkInv, ChunkTypeOK
<1>2. Last0' = Last0 /\ Points' = Points /\ Last0 = Points - 1
  BY DEF Last0, Points
<1>3. Chained'
  <2>1. IF ranges = <<>> THEN a = 0 ELSE ranges[1][1] = 0 /\ ranges[Len(ranges)][2] = a
    BY DEF ChunkInv, Chained
  <2>2. ranges' # <<>> /\ ranges'[1][1] = 0 /\ ranges'[Len(ranges')][2] = Reached'
    BY <1>1, <2>1
  <2>3. \A k \in DOMAIN ranges' : ranges'[k][1] < ranges'[k][2] /\ ranges'[k][2] <= Last0'
    BY <1>1, <1>2 DEF ChunkInv, Chained
  <2>4. \A k \in 1..(Len(ranges') - 1) : ranges'[k][2] = ranges'[k + 1][1]
    <3> SUFFICES ASSUME NEW k \in 1..Len(ranges) PROVE ranges'[k][2] = ranges'[k + 1][1]
      BY <1>1, SMTT(30)
    <3>1. CASE k = Len(ranges)
      BY <1>1, <2>1, <3>1
    <3>2. CASE k # Len(ranges)
      <4>0. Len(ranges) \in Nat
        BY <1>1
      <4>1. k \in 1..(Len(ranges) - 1) /\ k + 1 \in 1..Len(ranges)
        BY <3>2, <4>0
      <4> QED BY <1>1, <4>1 DEF ChunkInv, Chained
    <3> QED BY <3>1, <3>2
  <2> QED BY <2>2, <2>3, <2>4 DEF Chained
<1>4. \A from, to : Length(from, to)' = Length(from, to)
  BY DEF Length
<1>5. CutsAtTheLimit'
  BY <1>1, <1>2, <1>4, SMTT(30) DEF ChunkInv, CutsAtTheLimit
<1> QED BY <1>3, <1>5

LEMMA NoRangeKeepsInv ==
    ASSUME ChunkInv, hop' = hop, ranges' = ranges, Reached' = Reached
    PROVE  Chained' /\ CutsAtTheLimit'
BY DEF ChunkInv, Chained, CutsAtTheLimit, Length, Last0, Points

\* One more point: what the loop adds to `dist`.
LEMMA OneHop ==
    ASSUME ChunkInv, i < Points
    PROVE  /\ i \in 1..Last0 /\ hop[i] \in Nat
           /\ Length(start, i) = dist + hop[i]
<1>1. i \in 1..Last0 /\ hop[i] \in Nat
  BY DEF ChunkInv, ChunkTypeOK, ShapeOK, Last0, Points
<1>2. start \in Nat /\ i - 1 \in Nat /\ start <= i - 1 /\ dist = Length(start, i - 1)
  BY DEF ChunkInv, ChunkTypeOK, Measured, Returned, Last0, Points, ShapeOK
<1>3. Length(start, i) = Length(start, i - 1) + Length(i - 1, i)
  BY <1>1, <1>2, LengthAddsUp DEF ChunkInv, ChunkTypeOK
<1> QED BY <1>1, <1>2, <1>3, LengthOfHop DEF ChunkInv, ChunkTypeOK

LEMMA CutKeepsInv ==
    ASSUME ChunkInv, Cut
    PROVE  ChunkInv'
<1>1. /\ i \in 1..Last0 /\ start \in Nat /\ start < i /\ dist < MaxMeters
      /\ dist = Length(start, i - 1) /\ Length(start, i) >= MaxMeters
      /\ ~Returned /\ i' = i + 1 /\ i < Points
  <2>1. i < Points /\ dist + hop[i] >= MaxMeters /\ i' = i + 1
    BY DEF Cut
  <2>2. i \in 1..Last0 /\ Length(start, i) = dist + hop[i]
    BY <2>1, OneHop
  <2>3. ~Returned /\ start \in Nat /\ start < i
    BY <2>1 DEF ChunkInv, ChunkTypeOK, Measured, Returned, Last0, Points, ShapeOK
  <2>4. dist = Length(start, i - 1) /\ dist < MaxMeters
    BY <2>3 DEF ChunkInv, Measured
  <2> QED BY <2>1, <2>2, <2>3, <2>4
<1>2. hop' = hop /\ Last0' = Last0 /\ Points' = Points /\ Last0 = Points - 1 /\ Points \in Nat
  BY DEF Cut, Last0, Points, ChunkInv, ChunkTypeOK, ShapeOK
<1>3. ~Returned'
  BY <1>1, <1>2 DEF Returned
<1>4. Reached = start /\ Reached' = i
  BY <1>1, <1>3 DEF Reached, Cut
<1>5. Chained' /\ CutsAtTheLimit'
  BY <1>1, <1>2, <1>4, RangeKeepsInv DEF Cut
<1>6. ChunkTypeOK'
  BY <1>1, <1>2 DEF Cut, ChunkInv, ChunkTypeOK, ShapeOK
<1>7. Length(i, i) = 0 /\ i' - 1 = i /\ start' = i /\ dist' = 0
  BY <1>1, LengthOfNothing DEF Cut
<1>8. Length(start, i - 1)' = Length(i, i)
  BY <1>2, <1>7 DEF Length
<1>9. Measured'
  BY <1>1, <1>7, <1>8, ChunkAssumption DEF Measured
<1> QED BY <1>5, <1>6, <1>9 DEF ChunkInv

LEMMA ContinueKeepsInv ==
    ASSUME ChunkInv, Continue
    PROVE  ChunkInv'
<1>1. /\ i \in 1..Last0 /\ start \in Nat /\ start < i
      /\ Length(start, i) = dist' /\ dist' \in Nat /\ dist' < MaxMeters
      /\ ~Returned /\ i' = i + 1 /\ i < Points
  <2>1. i < Points /\ dist' = dist + hop[i] /\ dist + hop[i] < MaxMeters /\ i' = i + 1
    BY DEF Continue
  <2>2. i \in 1..Last0 /\ hop[i] \in Nat /\ Length(start, i) = dist + hop[i]
    BY <2>1, OneHop
  <2>3. ~Returned /\ start \in Nat /\ start < i
    BY <2>1 DEF ChunkInv, ChunkTypeOK, Measured, Returned, Last0, Points, ShapeOK
  <2>4. dist \in Nat
    BY DEF ChunkInv, ChunkTypeOK
  <2> QED BY <2>1, <2>2, <2>3, <2>4, ChunkAssumption
<1>2. hop' = hop /\ Last0' = Last0 /\ Points' = Points /\ Points \in Nat
  BY DEF Continue, Last0, Points, ChunkInv, ChunkTypeOK, ShapeOK
<1>3. ~Returned'
  BY <1>1, <1>2 DEF Returned
<1>4. Reached' = Reached
  BY <1>1, <1>3 DEF Reached, Continue
<1>5. Chained' /\ CutsAtTheLimit'
  BY <1>2, <1>4, NoRangeKeepsInv DEF Continue
<1>6. ChunkTypeOK'
  BY <1>1, <1>2 DEF Continue, ChunkInv, ChunkTypeOK, ShapeOK
<1>7. Measured'
  BY <1>1, <1>2 DEF Continue, Measured, Length
<1> QED BY <1>5, <1>6, <1>7 DEF ChunkInv

LEMMA RestKeepsInv ==
    ASSUME ChunkInv, Rest
    PROVE  ChunkInv'
<1>1. /\ start \in 0..Last0 /\ dist < MaxMeters /\ dist = Length(start, Last0)
      /\ ~Returned /\ i' = i + 1 /\ i = Points /\ Points \in Nat /\ Last0 \in Nat \ {0}
      /\ Last0 = Points - 1
  BY DEF Rest, ChunkInv, ChunkTypeOK, Measured, Returned, Last0, Points, ShapeOK
<1>2. hop' = hop /\ Last0' = Last0 /\ Points' = Points
  BY DEF Rest, Last0, Points
<1>3. Returned' /\ Reached = start /\ Reached' = Last0
  <2>1. Returned'
    BY <1>1, <1>2 DEF Returned
  <2> QED BY <1>1, <1>2, <2>1 DEF Reached
<1>4. ChunkTypeOK'
  <2>1. ranges' \in Seq(Nat \X Nat)
    <3>1. ranges \in Seq(Nat \X Nat) /\ <<start, Last0>> \in Nat \X Nat
      BY <1>1 DEF ChunkInv, ChunkTypeOK
    <3> QED BY <1>1, <3>1 DEF Rest
  <2>2. start' \in 0..Last0' /\ dist' \in Nat /\ i' \in 1..(Points' + 1)
    BY <1>1, <1>2 DEF Rest, ChunkInv, ChunkTypeOK
  <2> QED BY <1>2, <2>1, <2>2 DEF ChunkInv, ChunkTypeOK, ShapeOK
<1>5. CASE start < Last0
  <2>1. /\ Length(start, Last0 - 1) \in Nat /\ Length(Last0 - 1, Last0) \in Nat
        /\ Length(start, Last0) = Length(start, Last0 - 1) + Length(Last0 - 1, Last0)
    <3>1. /\ start \in Nat /\ Last0 - 1 \in Nat /\ Last0 - 1 \in 0..Last0 /\ Last0 \in 0..Last0
          /\ start <= Last0 - 1 /\ Last0 - 1 <= Last0
      BY <1>1, <1>5
    <3>2. ShapeOK
      BY DEF ChunkInv, ChunkTypeOK
    <3> QED BY <3>1, <3>2, LengthAddsUp, LengthType
  <2>2. Length(start, Last0 - 1) < MaxMeters
    BY <1>1, <2>1, ChunkAssumption
  <2>3. ranges' = Append(ranges, <<start, Last0>>)
    BY <1>1, <1>5 DEF Rest
  <2> QED BY <1>1, <1>2, <1>3, <1>4, <1>5, <2>2, <2>3, RangeKeepsInv DEF ChunkInv, Measured
<1>6. CASE start = Last0
  <2>1. Chained' /\ CutsAtTheLimit'
    BY <1>1, <1>2, <1>3, <1>6, NoRangeKeepsInv DEF Rest
  <2> QED BY <1>3, <1>4, <2>1 DEF ChunkInv, Measured
<1> QED BY <1>1, <1>5, <1>6

LEMMA ChunkStep ==
    ASSUME ChunkInv, [ChunkNext]_chunkVars
    PROVE  ChunkInv'
<1>1. CASE UNCHANGED chunkVars
  BY <1>1
  DEF chunkVars, ChunkInv, ChunkTypeOK, ShapeOK, Measured, Chained, Reached, Returned,
      CutsAtTheLimit, Length, Last0, Points
<1> QED BY <1>1, CutKeepsInv, ContinueKeepsInv, RestKeepsInv DEF ChunkNext

LEMMA ChunksAreCorrect ==
    ASSUME ChunkInv
    PROVE  CoversTheLeg
BY DEF ChunkInv, ChunkTypeOK, ShapeOK, Chained, Reached, CoversTheLeg, Last, Last0, Points

-----------------------------------------------------------------------------
(* The edges of the traces follow each other along the shape, and the        *)
(* maneuvers are those Build made of them.                                   *)

Contiguous ==
    /\ \A k \in DOMAIN edges : edges[k].begin <= edges[k].end
    /\ \A k \in 1..(Len(edges) - 1) : edges[k].end = edges[k + 1].begin

Made == [k \in DOMAIN edges |->
            [length |-> EdgeLength(edges[k]), time |-> Share(edges[k]),
             begin |-> edges[k].begin, end |-> edges[k].end]]

EdgeInv ==
    /\ edges \in Seq(Edges)
    /\ duration \in Nat
    /\ Contiguous
    /\ maneuvers = <<>> \/ maneuvers = Made

ManeuverInv == ChunkInv /\ EdgeInv

LEMMA InitManeuverInv == Init => ManeuverInv
<1> SUFFICES ASSUME Init PROVE ManeuverInv
  OBVIOUS
<1>1. ChunkInv
  BY InitChunkInv DEF Init
<1>2. EdgeInv
  BY EdgeAssumption DEF Init, EdgeInv, Contiguous
<1> QED BY <1>1, <1>2 DEF ManeuverInv

\* Nothing of the edges and maneuvers depends on the loop, but on the shape.
LEMMA OfTheShape ==
    ASSUME hop' = hop, edges' = edges, duration' = duration
    PROVE  Edges' = Edges /\ Contiguous' = Contiguous /\ Made' = Made
<1>1. Edges' = Edges /\ Contiguous' = Contiguous
  BY DEF Edges, Contiguous, Last0, Points
<1>2. Made' = Made
  BY DEF Made, EdgeLength, Share, Total, RawTime, ShapeDistance, Length, Last0, Points
<1> QED BY <1>1, <1>2

LEMMA AddEdgeKeepsInv ==
    ASSUME ManeuverInv, NEW e \in Edges, AddEdge(e)
    PROVE  ManeuverInv'
<1>1. UNCHANGED chunkVars /\ hop' = hop
  BY DEF AddEdge, chunkVars
<1>2. ChunkInv'
  BY <1>1, ChunkStep DEF ManeuverInv
<1>3. /\ edges \in Seq(Edges) /\ edges' = Append(edges, e) /\ Edges' = Edges
      /\ e.begin <= e.end /\ (edges # <<>> => e.begin = edges[Len(edges)].end)
  BY <1>1 DEF ManeuverInv, EdgeInv, AddEdge, Last, Edges, Last0, Points
<1>4. /\ edges' \in Seq(Edges) /\ Len(edges') = Len(edges) + 1
      /\ DOMAIN edges = 1..Len(edges) /\ DOMAIN edges' = 1..(Len(edges) + 1)
      /\ edges'[Len(edges) + 1] = e
      /\ \A k \in 1..Len(edges) : edges'[k] = edges[k]
  BY <1>3
<1>5. Contiguous'
  BY <1>3, <1>4, SMTT(30) DEF ManeuverInv, EdgeInv, Contiguous
<1>6. EdgeInv'
  BY <1>3, <1>4, <1>5 DEF ManeuverInv, EdgeInv, AddEdge
<1> QED BY <1>2, <1>6 DEF ManeuverInv

LEMMA BuildKeepsInv ==
    ASSUME ManeuverInv, Build
    PROVE  ManeuverInv'
<1>1. UNCHANGED chunkVars /\ hop' = hop /\ edges' = edges /\ duration' = duration
  BY DEF Build, chunkVars
<1>2. ChunkInv'
  BY <1>1, ChunkStep DEF ManeuverInv
<1>3. maneuvers' = Made
  BY DEF Build, Made
<1>4. EdgeInv'
  BY <1>1, <1>3, OfTheShape DEF ManeuverInv, EdgeInv
<1> QED BY <1>2, <1>4 DEF ManeuverInv

LEMMA ManeuverStep ==
    ASSUME ManeuverInv, [Next]_vars
    PROVE  ManeuverInv'
<1>1. CASE [ChunkNext]_chunkVars /\ UNCHANGED edgeVars
  <2>1. ChunkInv'
    BY <1>1, ChunkStep DEF ManeuverInv
  <2>2. hop' = hop
    BY <1>1 DEF ChunkNext, Cut, Continue, Rest, chunkVars
  <2>3. EdgeInv'
    BY <1>1, <2>2, OfTheShape DEF ManeuverInv, EdgeInv, edgeVars
  <2> QED BY <2>1, <2>3 DEF ManeuverInv
<1> QED BY <1>1, AddEdgeKeepsInv, BuildKeepsInv DEF Next, vars

LEMMA ManeuverInvariant == Spec => []ManeuverInv
BY InitManeuverInv, ManeuverStep, PTL DEF Spec

\* Whatever the shape and the limit, the chunks are a walk over the whole leg,
\* each beginning at the point the one before ended at (valhalla.go:312-328).
THEOREM ChunksCoverTheLeg == Spec => []CoversTheLeg
BY ManeuverInvariant, ChunksAreCorrect, PTL DEF ManeuverInv

\* Every chunk but the last reaches the limit, and none goes on past the point
\* where it does (valhalla.go:318-322).
THEOREM ChunksEndAtTheLimit == Spec => []CutsAtTheLimit
BY ManeuverInvariant, PTL DEF ManeuverInv, ChunkInv

-----------------------------------------------------------------------------
(* Lengths and times of the maneuvers. *)

LEMMA InsideFacts ==
    ASSUME Last0 \in Nat, NEW p \in Int
    PROVE  /\ Inside(p) = IF p < 0 THEN 0 ELSE IF p > Last0 THEN Last0 ELSE p
           /\ Inside(p) \in 0..Last0 /\ Inside(p) \in Nat
           /\ Max({p, 0}) = (IF p < 0 THEN 0 ELSE p) /\ Max({p, 0}) \in Nat
           /\ Min({p, Last0}) = (IF p > Last0 THEN Last0 ELSE p)
<1>1. Min({p, Last0}) = (IF p > Last0 THEN Last0 ELSE p)
  BY DEF Min
<1>2. \A q \in Int : Max({q, 0}) = IF q < 0 THEN 0 ELSE q
  BY DEF Max
<1>3. Inside(p) = IF p < 0 THEN 0 ELSE IF p > Last0 THEN Last0 ELSE p
  <2>1. Min({p, Last0}) \in Int
    BY <1>1
  <2> QED BY <1>1, <1>2, <2>1 DEF Inside
<1> QED BY <1>1, <1>2, <1>3

\* An edge is as long as the shape inside its indices.
LEMMA ClampedDistance ==
    ASSUME ShapeOK, NEW a \in Int, NEW b \in Int, a <= b
    PROVE  ShapeDistance(a, b) = Length(Inside(a), Inside(b))
<1>1. Last0 \in Nat
  BY DEF ShapeOK, Last0, Points
<1>2. /\ ShapeDistance(a, b) = Length(IF a < 0 THEN 0 ELSE a, IF b > Last0 THEN Last0 ELSE b)
      /\ Inside(a) = (IF a < 0 THEN 0 ELSE IF a > Last0 THEN Last0 ELSE a)
      /\ Inside(b) = (IF b < 0 THEN 0 ELSE IF b > Last0 THEN Last0 ELSE b)
  BY <1>1, InsideFacts DEF ShapeDistance
<1>3. CASE a > Last0
  <2>1. ((a + 1)..Last0) = {} /\ ((Last0 + 1)..Last0) = {}
    BY <1>1, <1>3
  <2>2. ShapeDistance(a, b) = Length(a, Last0) /\ Inside(a) = Last0 /\ Inside(b) = Last0
    BY <1>1, <1>2, <1>3
  <2> QED BY <2>1, <2>2 DEF Length
<1>4. CASE b < 0
  <2>1. ((0 + 1)..b) = {} /\ ((0 + 1)..0) = {}
    BY <1>4
  <2>2. ShapeDistance(a, b) = Length(0, b) /\ Inside(a) = 0 /\ Inside(b) = 0
    BY <1>1, <1>2, <1>4
  <2> QED BY <2>1, <2>2 DEF Length
<1>5. CASE ~(a > Last0) /\ ~(b < 0)
  BY <1>1, <1>2, <1>5
<1> QED BY <1>3, <1>4, <1>5

OnShape(e) == Length(Inside(e.begin), Inside(e.end))

LEMMA EdgeFacts ==
    ASSUME ManeuverInv, NEW k \in DOMAIN edges
    PROVE  /\ Inside(edges[k].begin) \in 0..Last0 /\ Inside(edges[k].end) \in 0..Last0
           /\ edges[k].full \in Nat
           /\ Inside(edges[k].begin) <= Inside(edges[k].end)
           /\ OnShape(edges[k]) \in Nat
           /\ EdgeLength(edges[k]) =
                  OnShape(edges[k]) + (IF OnTheSpot(k) THEN edges[k].full ELSE 0)
           /\ EdgeLength(edges[k]) \in Nat
<1>1. ShapeOK /\ Last0 \in Nat
  BY DEF ManeuverInv, ChunkInv, ChunkTypeOK, ShapeOK, Last0, Points
<1>2. edges[k] \in Edges
  BY DEF ManeuverInv, EdgeInv
<1>3. /\ edges[k].begin \in Int /\ edges[k].end \in Int /\ edges[k].full \in Nat
      /\ edges[k].begin <= edges[k].end
  <2>1. /\ edges[k].begin \in -1..Points /\ edges[k].end \in -1..Points
        /\ edges[k].full \in FullLengths
    BY <1>2 DEF Edges
  <2>2. edges[k].full \in Nat
    BY <2>1, EdgeAssumption
  <2>3. edges[k].begin <= edges[k].end
    BY DEF ManeuverInv, EdgeInv, Contiguous
  <2>4. edges[k].begin \in Int /\ edges[k].end \in Int
    BY <1>1, <2>1 DEF Last0
  <2> QED BY <2>2, <2>3, <2>4
<1>5. /\ Inside(edges[k].begin) \in 0..Last0 /\ Inside(edges[k].end) \in 0..Last0
      /\ Inside(edges[k].begin) \in Nat
      /\ Inside(edges[k].begin) <= Inside(edges[k].end)
  <2>1. \A p \in Int : /\ Inside(p) \in 0..Last0 /\ Inside(p) \in Nat
                       /\ Inside(p) = IF p < 0 THEN 0 ELSE IF p > Last0 THEN Last0 ELSE p
    BY <1>1, InsideFacts
  <2>2. \A p, q \in Int : p <= q => Inside(p) <= Inside(q)
    BY <1>1, <2>1
  <2> QED BY <1>3, <2>1, <2>2
<1>4. OnShape(edges[k]) \in Nat
  BY <1>1, <1>5, LengthType DEF OnShape
<1>6. ShapeDistance(edges[k].begin, edges[k].end) = OnShape(edges[k])
  BY <1>1, <1>3, ClampedDistance DEF OnShape
<1>7. EdgeLength(edges[k]) = IF OnTheSpot(k) THEN edges[k].full ELSE OnShape(edges[k])
  BY <1>4, <1>6 DEF EdgeLength, OnTheSpot, OnShape
<1> QED BY <1>3, <1>4, <1>5, <1>7 DEF OnTheSpot, OnShape

LEMMA RawTimeType ==
    ASSUME ManeuverInv, NEW k \in DOMAIN edges
    PROVE  RawTime(edges[k]) \in Nat
<1>1. edges[k].speed \in Nat /\ edges[k].speed \in Speeds
  <2>1. edges[k] \in Edges
    BY DEF ManeuverInv, EdgeInv
  <2>2. edges[k].speed \in Speeds
    BY <2>1 DEF Edges
  <2> QED BY <2>2, SpeedAssumption
<1>2. EdgeLength(edges[k]) \in Nat
  BY EdgeFacts
<1>3. edges[k].speed > 0 => SpeedUnit \div edges[k].speed \in Nat
  BY <1>1, SpeedAssumption
<1>4. \A a, b \in Nat : a * b \in Nat
  OBVIOUS
<1> QED BY <1>1, <1>2, <1>3, <1>4 DEF RawTime

LEMMA EdgesAreFinite ==
    ASSUME ManeuverInv
    PROVE  /\ IsFiniteSet(DOMAIN edges)
           /\ DOMAIN edges = 1..Len(edges) /\ Len(edges) \in Nat
BY FS_Interval DEF ManeuverInv, EdgeInv

\* Shares of the duration in proportion to anything add up to it.
LEMMA SharesAddUp ==
    ASSUME ManeuverInv, Built, NEW weight, NEW sum,
           \A k \in DOMAIN edges : weight[k] \in Nat,
           sum = SumFunctionOnSet(weight, DOMAIN edges),
           \A k \in DOMAIN edges : Share(edges[k]) = [num |-> duration * weight[k], den |-> sum]
    PROVE  /\ \A k \in DOMAIN maneuvers : maneuvers[k].time.den = maneuvers[1].time.den
           /\ SumFunction([k \in DOMAIN maneuvers |-> maneuvers[k].time.num])
                  = duration * maneuvers[1].time.den
<1>1. /\ maneuvers = Made /\ DOMAIN maneuvers = DOMAIN edges
      /\ \A k \in DOMAIN edges : maneuvers[k].time = Share(edges[k])
      /\ duration \in Int
  BY DEF ManeuverInv, EdgeInv, Built, Made
<1>2. 1 \in DOMAIN edges
  <2>1. Len(edges) # 0
    BY <1>1, EdgesAreFinite DEF Built, Made
  <2> QED BY <2>1, EdgesAreFinite
<1>3. \A k \in DOMAIN edges : maneuvers[k].time.den = sum
  BY <1>1
<1> DEFINE num == [k \in DOMAIN edges |-> maneuvers[k].time.num]
<1>4. \A k \in DOMAIN edges : weight[k] \in Int /\ num[k] = duration * weight[k]
  BY <1>1
<1>5. SumFunctionOnSet(num, DOMAIN edges) = duration * sum
  <2> HIDE DEF num
  <2>1. IsFiniteSet(DOMAIN edges) /\ duration \in Int
    BY <1>1, EdgesAreFinite
  <2>2. SumFunctionOnSet(num, DOMAIN edges)
            = duration * SumFunctionOnSet(weight, DOMAIN edges)
    <3>1. \A k \in DOMAIN edges : weight[k] \in Int /\ num[k] = duration * weight[k]
      BY <1>4
    <3> QED BY <2>1, <3>1, SumScales, ZenonT(60)
  <2> QED BY <2>2
<1> QED BY <1>1, <1>2, <1>3, <1>5 DEF SumFunction

LEMMA TimesAreCorrect ==
    ASSUME ManeuverInv
    PROVE  TimesAddUp
<1> SUFFICES ASSUME Built, NEW k \in DOMAIN maneuvers, maneuvers[k].length > 0
             PROVE  /\ \A h \in DOMAIN maneuvers : maneuvers[h].time.den = maneuvers[1].time.den
                    /\ SumFunction([h \in DOMAIN maneuvers |-> maneuvers[h].time.num])
                           = duration * maneuvers[1].time.den
  BY DEF TimesAddUp
<1> DEFINE raw == [h \in DOMAIN edges |-> RawTime(edges[h])]
           len == [h \in DOMAIN edges |-> EdgeLength(edges[h])]
           rawSum == SumFunctionOnSet(raw, DOMAIN edges)
           lenSum == SumFunctionOnSet(len, DOMAIN edges)
<1>1. \A h \in DOMAIN edges : raw[h] \in Nat /\ len[h] \in Nat
  BY RawTimeType, EdgeFacts
<1>2. rawSum \in Nat /\ lenSum \in Nat
  <2> HIDE DEF raw, len
  <2> QED BY <1>1, EdgesAreFinite, SumType
<1>3. Total(RawTime) = rawSum /\ Total(EdgeLength) = lenSum
  BY DEF Total, SumFunction
<1>4. lenSum > 0
  <2>1. k \in DOMAIN edges /\ len[k] > 0
    BY DEF ManeuverInv, EdgeInv, Built, Made
  <2>2. len[k] <= lenSum
    <3> HIDE DEF len
    <3> QED BY <1>1, <2>1, EdgesAreFinite, SumAtLeast
  <2> QED BY <1>1, <1>2, <2>1, <2>2
<1>5. CASE rawSum > 0
  <2>1. \A h \in DOMAIN edges :
            Share(edges[h]) = [num |-> duration * raw[h], den |-> rawSum]
    BY <1>3, <1>5 DEF Share
  <2> HIDE DEF raw
  <2> QED BY <1>1, <2>1, SharesAddUp
<1>6. CASE rawSum = 0
  <2>1. \A h \in DOMAIN edges :
            Share(edges[h]) = [num |-> duration * len[h], den |-> lenSum]
    BY <1>3, <1>4, <1>6 DEF Share
  <2> HIDE DEF len
  <2> QED BY <1>1, <2>1, SharesAddUp
<1> QED BY <1>2, <1>5, <1>6

\* The times of the maneuvers add up to the duration of the leg for every
\* shape and whatever edges have no speed or no length (valhalla.go:338-377).
THEOREM TimesAddUpToTheLeg == Spec => []TimesAddUp
BY ManeuverInvariant, TimesAreCorrect, PTL

\* Both sums of LengthsAreDriven, edge by edge.
LengthSum(j, k) == SumFunctionOnSet([m \in DOMAIN edges |-> EdgeLength(edges[m])], j..k)
SpotSum(j, k) ==
    SumFunctionOnSet([m \in DOMAIN edges |-> edges[m].full], {m \in j..k : OnTheSpot(m)})

LEMMA NoEdgeSums ==
    ASSUME NEW j \in Nat
    PROVE  LengthSum(j, j - 1) = 0 /\ SpotSum(j, j - 1) = 0
<1>1. j..(j - 1) = {} /\ {m \in j..(j - 1) : OnTheSpot(m)} = {}
  OBVIOUS
<1> QED BY <1>1, SumEmpty DEF LengthSum, SpotSum

LEMMA OneMoreEdge ==
    ASSUME ManeuverInv, NEW j \in DOMAIN edges, NEW k \in DOMAIN edges, j <= k
    PROVE  /\ LengthSum(j, k - 1) \in Nat /\ SpotSum(j, k - 1) \in Nat
           /\ LengthSum(j, k) = LengthSum(j, k - 1) + EdgeLength(edges[k])
           /\ SpotSum(j, k) = SpotSum(j, k - 1) + (IF OnTheSpot(k) THEN edges[k].full ELSE 0)
<1> DEFINE len  == [m \in DOMAIN edges |-> EdgeLength(edges[m])]
           full == [m \in DOMAIN edges |-> edges[m].full]
           S == j..(k - 1)
           P == {m \in S : OnTheSpot(m)}
<1>1. /\ j \in Nat /\ k \in Nat /\ S \subseteq DOMAIN edges
      /\ j..k = S \cup {k} /\ k \notin S /\ k \notin P
  BY EdgesAreFinite
<1>2. IsFiniteSet(S) /\ IsFiniteSet(P)
  BY <1>1, EdgesAreFinite, FS_Subset
<1>3. \A m \in DOMAIN edges : len[m] \in Nat /\ full[m] \in Nat
  BY EdgeFacts
<1>4. \A m \in S \cup {k} : len[m] \in Int /\ full[m] \in Int
  BY <1>1, <1>3
<1>5. \A m \in P \cup {k} : full[m] \in Int
  BY <1>4
<1>6. {m \in j..k : OnTheSpot(m)} = IF OnTheSpot(k) THEN P \cup {k} ELSE P
  BY <1>1
<1>7. len[k] = EdgeLength(edges[k]) /\ full[k] = edges[k].full
  OBVIOUS
<1>8. (\A m \in S : len[m] \in Nat) /\ (\A m \in P : full[m] \in Nat)
  BY <1>1, <1>3
<1> HIDE DEF len, full, S, P
<1>9. /\ SumFunctionOnSet(len, S \cup {k}) = SumFunctionOnSet(len, S) + len[k]
      /\ SumFunctionOnSet(full, P \cup {k}) = SumFunctionOnSet(full, P) + full[k]
  BY <1>1, <1>2, <1>4, <1>5, SumAdds
<1>10. SumFunctionOnSet(len, S) \in Nat /\ SumFunctionOnSet(full, P) \in Nat
  BY <1>2, <1>8, SumType
<1>11. LengthSum(j, k - 1) = SumFunctionOnSet(len, S)
  BY DEF LengthSum, len, S
<1>12. LengthSum(j, k) = SumFunctionOnSet(len, S \cup {k})
  BY <1>1 DEF LengthSum, len
<1>13. SpotSum(j, k - 1) = SumFunctionOnSet(full, P)
  BY DEF SpotSum, full, P, S
<1>14. SpotSum(j, k) = SumFunctionOnSet(full, IF OnTheSpot(k) THEN P \cup {k} ELSE P)
  BY <1>6 DEF SpotSum, full
<1> QED BY <1>7, <1>9, <1>10, <1>11, <1>12, <1>13, <1>14

\* An edge never begins before an earlier one.
LEMMA BeginsBefore ==
    ASSUME ManeuverInv, NEW j \in DOMAIN edges, NEW k \in DOMAIN edges, j <= k
    PROVE  Inside(edges[j].begin) <= Inside(edges[k].end)
<1> DEFINE Wrong == {m \in DOMAIN edges : j <= m /\ ~(Inside(edges[j].begin) <= Inside(edges[m].end))}
<1>1. SUFFICES ASSUME Wrong # {} PROVE FALSE
  OBVIOUS
<1>2. Wrong \in SUBSET Nat
  BY EdgesAreFinite
<1>3. PICK m \in Wrong : \A h \in Wrong : m <= h
  BY <1>1, <1>2, SmallestNumber
<1>4. m \in DOMAIN edges /\ Inside(edges[m].begin) <= Inside(edges[m].end)
  BY EdgeFacts
<1>5. m # j
  BY <1>4
<1>6. m - 1 \in DOMAIN edges /\ j <= m - 1 /\ m - 1 \notin Wrong
  BY <1>3, <1>4, <1>5, EdgesAreFinite
<1>7. Inside(edges[j].begin) <= Inside(edges[m - 1].end)
  BY <1>6
<1>8. edges[m - 1].end = edges[m].begin
  BY <1>4, <1>6, EdgesAreFinite DEF ManeuverInv, EdgeInv, Contiguous
<1>9. /\ Inside(edges[j].begin) \in Nat /\ Inside(edges[m].begin) \in Nat
      /\ Inside(edges[m].end) \in Nat
  BY <1>4, EdgeFacts DEF ManeuverInv, ChunkInv, ChunkTypeOK, ShapeOK, Last0, Points
<1> QED BY <1>4, <1>7, <1>8, <1>9

\* Driven up to an edge: by induction over the edges from j on.
LEMMA DrivenUpTo ==
    ASSUME ManeuverInv, NEW j \in DOMAIN edges, NEW k \in DOMAIN edges, j <= k
    PROVE  LengthSum(j, k) = Length(Inside(edges[j].begin), Inside(edges[k].end)) + SpotSum(j, k)
<1> DEFINE Wrong == {m \in DOMAIN edges :
               j <= m /\ LengthSum(j, m) # Length(Inside(edges[j].begin), Inside(edges[m].end))
                                           + SpotSum(j, m)}
<1>1. SUFFICES ASSUME Wrong # {} PROVE FALSE
  OBVIOUS
<1>2. Wrong \in SUBSET Nat
  BY EdgesAreFinite
<1>3. PICK m \in Wrong : \A h \in Wrong : m <= h
  BY <1>1, <1>2, SmallestNumber
<1>4. /\ m \in DOMAIN edges /\ j <= m /\ m \in Nat /\ j \in Nat
      /\ LengthSum(j, m) = LengthSum(j, m - 1) + EdgeLength(edges[m])
      /\ SpotSum(j, m) = SpotSum(j, m - 1) + (IF OnTheSpot(m) THEN edges[m].full ELSE 0)
      /\ EdgeLength(edges[m])
             = OnShape(edges[m]) + (IF OnTheSpot(m) THEN edges[m].full ELSE 0)
      /\ LengthSum(j, m - 1) \in Nat /\ SpotSum(j, m - 1) \in Nat
      /\ OnShape(edges[m]) \in Nat /\ edges[m].full \in Nat
  <2>1. m \in DOMAIN edges /\ j <= m /\ m \in Nat /\ j \in Nat
    BY <1>2, EdgesAreFinite
  <2> QED BY <2>1, OneMoreEdge, EdgeFacts
<1>5. CASE m = j
  <2>1. LengthSum(j, m - 1) = 0 /\ SpotSum(j, m - 1) = 0
    BY <1>4, <1>5, NoEdgeSums
  <2>2. LengthSum(j, m) = OnShape(edges[m]) + SpotSum(j, m)
    BY <1>4, <2>1
  <2> QED BY <1>5, <2>2 DEF OnShape
<1>6. CASE j < m
  <2> DEFINE h == m - 1
  <2>1. h \in DOMAIN edges /\ j <= h /\ h \notin Wrong
    BY <1>3, <1>4, <1>6, EdgesAreFinite, SMTT(30)
  <2>2. LengthSum(j, h) = Length(Inside(edges[j].begin), Inside(edges[h].end)) + SpotSum(j, h)
    BY <2>1
  <2>3. edges[h].end = edges[m].begin
    <3>1. h \in 1..(Len(edges) - 1) /\ h + 1 = m
      BY <1>4, <2>1, EdgesAreFinite, SMTT(30)
    <3> HIDE DEF h
    <3> QED BY <3>1 DEF ManeuverInv, EdgeInv, Contiguous
  <2>4. Length(Inside(edges[j].begin), Inside(edges[m].end))
            = Length(Inside(edges[j].begin), Inside(edges[h].end)) + OnShape(edges[m])
    <3>1. Inside(edges[j].begin) <= Inside(edges[h].end)
      BY <1>3, <2>1, BeginsBefore
    <3>2. Inside(edges[m].begin) <= Inside(edges[m].end)
      BY <1>4, EdgeFacts
    <3>3. /\ ShapeOK /\ Inside(edges[j].begin) \in Nat /\ Inside(edges[m].begin) \in Nat
          /\ Inside(edges[m].end) \in 0..Last0
      BY <1>4, <2>1, EdgeFacts DEF ManeuverInv, ChunkInv, ChunkTypeOK
    <3>4. Inside(edges[j].begin) <= Inside(edges[m].begin)
      BY <2>3, <3>1
    <3>5. Length(Inside(edges[j].begin), Inside(edges[m].end))
              = Length(Inside(edges[j].begin), Inside(edges[m].begin))
                + Length(Inside(edges[m].begin), Inside(edges[m].end))
      BY <3>2, <3>3, <3>4, LengthAddsUp
    <3> QED BY <2>3, <3>5 DEF OnShape
  <2>5. Length(Inside(edges[j].begin), Inside(edges[h].end)) \in Int
    <3>1. Inside(edges[j].begin) \in Nat /\ Inside(edges[h].end) \in 0..Last0
      BY <2>1, EdgeFacts
    <3>2. ShapeOK
      BY DEF ManeuverInv, ChunkInv, ChunkTypeOK
    <3> QED BY <3>1, <3>2, LengthType
  <2> QED BY <1>4, <2>2, <2>4, <2>5
<1> QED BY <1>4, <1>5, <1>6

LEMMA LengthsAreCorrect ==
    ASSUME ManeuverInv
    PROVE  LengthsAreDriven
<1> SUFFICES ASSUME NEW j \in DOMAIN maneuvers, NEW k \in DOMAIN maneuvers, j <= k
             PROVE  SumFunctionOnSet([m \in DOMAIN maneuvers |-> maneuvers[m].length], j..k)
                        = Length(Inside(maneuvers[j].begin), Inside(maneuvers[k].end)) + SpotSum(j, k)
  BY DEF LengthsAreDriven, SpotSum
<1>1. maneuvers = Made
  BY DEF ManeuverInv, EdgeInv
<1>2. j \in DOMAIN edges /\ k \in DOMAIN edges
  BY <1>1 DEF Made
<1>3. maneuvers[j].begin = edges[j].begin /\ maneuvers[k].end = edges[k].end
  BY <1>1, <1>2 DEF Made
<1>4. [m \in DOMAIN maneuvers |-> maneuvers[m].length]
          = [m \in DOMAIN edges |-> EdgeLength(edges[m])]
  BY <1>1 DEF Made
<1> QED BY <1>2, <1>3, <1>4, DrivenUpTo DEF LengthSum

\* Between any two maneuvers the lengths are those of the shape between them
\* and of the edges passed on the spot, for every shape and every sequence of
\* edges, indices outside the shape moved to its ends (valhalla.go:340-351,
\* 383-388).
THEOREM LengthsAreDrivenLengths == Spec => []LengthsAreDriven
BY ManeuverInvariant, LengthsAreCorrect, PTL

=============================================================================
