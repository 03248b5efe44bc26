------------------------------ MODULE TraceChunks ------------------------------
(***************************************************************************)
(* splitPointsByDistance of internal/service/valhalla.go: the loop that    *)
(* cuts the shape of a leg into ranges of points, each sent to             *)
(* /trace_attributes by itself.  Points are numbered from 0; hop[i] is the *)
(* distance from point i - 1 to point i.                                   *)
(***************************************************************************)
EXTENDS Integers, SequencesExt

CONSTANTS
    Hops,       \* distances between neighbouring points
    MaxMeters,  \* traceMaxChunkMeters
    MaxPoints   \* bound of the model: points of the leg

ASSUME ChunkAssumption == Hops \subseteq Nat /\ MaxMeters \in Nat \ {0} /\ MaxPoints \in Nat

VARIABLES
    hop,        \* the input
    i,          \* the loop variable
    start,      \* first point of the range being measured
    dist,       \* its length so far
    ranges      \* the ranges found

chunkVars == <<hop, i, start, dist, ranges>>

Points == Len(hop) + 1

\* enrichLeg leaves legs of less than two points alone.
ChunkInit ==
    /\ hop \in UNION {[1..n -> Hops] : n \in 1..(MaxPoints - 1)}
    /\ i = 1
    /\ start = 0
    /\ dist = 0
    /\ ranges = <<>>

\* Mistake: the distance goes on counting from the start of the leg.
Cut_KeepsDistance ==
    /\ i < Points
    /\ dist + hop[i] >= MaxMeters
    /\ ranges' = Append(ranges, <<start, i>>)
    /\ start' = i
    /\ dist' = dist + hop[i]
    /\ i' = i + 1
    /\ UNCHANGED hop

Cut ==
    /\ i < Points
    /\ dist + hop[i] >= MaxMeters
    /\ ranges' = Append(ranges, <<start, i>>)
    /\ start' = i
    /\ dist' = 0
    /\ i' = i + 1
    /\ UNCHANGED hop

Continue ==
    /\ i < Points
    /\ dist + hop[i] < MaxMeters
    /\ dist' = dist + hop[i]
    /\ i' = i + 1
    /\ UNCHANGED <<hop, start, ranges>>

\* Mistake: the rest is appended even when nothing is left.
Rest_Always ==
    /\ i = Points
    /\ ranges' = Append(ranges, <<start, Points - 1>>)
    /\ i' = i + 1
    /\ UNCHANGED <<hop, start, dist>>

\* After the loop: what is left, if anything.
Rest ==
    /\ i = Points
    /\ ranges' = IF start < Points - 1 THEN Append(ranges, <<start, Points - 1>>) ELSE ranges
    /\ i' = i + 1
    /\ UNCHANGED <<hop, start, dist>>

Returned == i > Points

ChunkNext == Cut \/ Continue \/ Rest

ChunkSpec == ChunkInit /\ [][ChunkNext]_chunkVars

-----------------------------------------------------------------------------
(* Properties *)

Length(from, to) == SumFunctionOnSet(hop, (from + 1)..to)

\* The ranges are a walk from the first point to the last, each beginning at
\* the very point the one before ended at: the stitching of the traces relies
\* on that one shared point and on nothing being left out (valhalla.go:311,
\* 233).
CoversTheLeg ==
    Returned =>
        /\ ranges # <<>>
        /\ ranges[1][1] = 0
        /\ Last(ranges)[2] = Points - 1
        /\ \A k \in DOMAIN ranges : ranges[k][1] < ranges[k][2]
        /\ \A k \in 1..(Len(ranges) - 1) : ranges[k][2] = ranges[k + 1][1]

\* No range could be left any earlier: it is shorter than MaxMeters up to its
\* last point but one, so it exceeds MaxMeters by less than one hop, and all
\* ranges but the last reach MaxMeters (valhalla.go:318-322).
CutsAtTheLimit ==
    \A k \in DOMAIN ranges :
        /\ Length(ranges[k][1], ranges[k][2] - 1) < MaxMeters
        /\ ranges[k][2] < Points - 1 => Length(ranges[k][1], ranges[k][2]) >= MaxMeters

=============================================================================
