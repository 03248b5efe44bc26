---------------------------- MODULE EdgeManeuvers ----------------------------
(***************************************************************************)
(* enrichLeg of internal/service/valhalla.go, when every trace succeeds:   *)
(* the shape of the leg is cut into ranges (TraceChunks), the edges of     *)
(* their traces follow each other along it, and buildEdgeManeuvers makes   *)
(* of each edge a maneuver as long as the shape it traverses, sharing out  *)
(* the duration of the leg among them.  The shape the traces matched is    *)
(* taken to be the one they were sent.                                     *)
(*                                                                         *)
(* A time is a fraction, its denominator that of all times together.       *)
(***************************************************************************)
EXTENDS TraceChunks

CONSTANTS
    FullLengths,    \* lengths of whole edges of the road network
    Speeds,         \* speeds of edges, 0 for none known
    SpeedUnit,      \* a common multiple of the speeds: makes travel times whole
    Durations,      \* durations of the leg
    MaxEdges        \* bound of the model: edges of the traces

ASSUME EdgeAssumption == FullLengths \subseteq Nat /\ Durations \subseteq Nat
ASSUME SpeedAssumption ==
    Speeds \subseteq Nat /\ SpeedUnit \in Nat /\ \A s \in Speeds \ {0} : SpeedUnit % s = 0

VARIABLES
    edges,      \* the edges of the traces, their points counted along the leg
    duration,   \* the leg's
    maneuvers   \* what is made of them

edgeVars == <<edges, duration, maneuvers>>
vars     == <<chunkVars, edgeVars>>

Last0 == Points - 1

\* An edge may be of a single point, and be traversed in part only.  Its
\* indices are the engine's word, and may lie one outside the shape.
Edges == [begin : -1..Points, end : -1..Points, full : FullLengths, speed : Speeds]

Inside(index) == Max({Min({index, Last0}), 0})

Init ==
    /\ ChunkInit
    /\ duration \in Durations
    /\ edges = <<>>
    /\ maneuvers = <<>>

Within(e, range) == range[1] <= Inside(e.begin) /\ Inside(e.end) <= range[2]

\* The traces hold one more edge.  A trace knows nothing beyond its range, so
\* an edge of the road that goes on there is cut in two.
AddEdge(e) ==
    /\ Returned /\ maneuvers = <<>>
    /\ Len(edges) < MaxEdges
    /\ IF edges = <<>> THEN Inside(e.begin) = 0 ELSE e.begin = Last(edges).end
    /\ e.begin <= e.end
    /\ \E k \in DOMAIN ranges : Within(e, ranges[k])
    /\ edges' = Append(edges, e)
    /\ UNCHANGED <<chunkVars, duration, maneuvers>>

-----------------------------------------------------------------------------
(* buildEdgeManeuvers *)

\* Mistake: the hop behind the last point is counted too.
ShapeDistance_OnePast(from, to) == Length(Max({from, 0}), Min({to + 1, Last0}))

\* shapeDistanceMeters: indices outside the shape are moved to its ends.
ShapeDistance(from, to) == Length(Max({from, 0}), Min({to, Last0}))

\* The traversed shape, or the whole edge where that has no length.
EdgeLength(e) ==
    IF ShapeDistance(e.begin, e.end) > 0 THEN ShapeDistance(e.begin, e.end) ELSE e.full

RawTime(e) == IF e.speed > 0 THEN EdgeLength(e) * (SpeedUnit \div e.speed) ELSE 0

Total(Of(_)) == SumFunction([k \in DOMAIN edges |-> Of(edges[k])])

\* Mistake: an edge without speed gets its share by length although others
\* have got theirs by time.
Share_PerEdge(e) ==
    IF RawTime(e) > 0 THEN [num |-> duration * RawTime(e), den |-> Total(RawTime)]
    ELSE IF Total(EdgeLength) > 0 /\ Total(RawTime) > 0
         THEN [num |-> duration * EdgeLength(e), den |-> Total(RawTime)]
    ELSE [num |-> duration * EdgeLength(e), den |-> Total(EdgeLength)]

\* The duration is shared out by travel time, or by length when no edge has a
\* speed.
Share(e) ==
    IF Total(RawTime) > 0 THEN [num |-> duration * RawTime(e), den |-> Total(RawTime)]
    ELSE IF Total(EdgeLength) > 0
         THEN [num |-> duration * EdgeLength(e), den |-> Total(EdgeLength)]
    ELSE [num |-> 0, den |-> 1]

\* traceChunk refuses a trace without edges.
Build ==
    /\ Returned /\ maneuvers = <<>>
    /\ \A k \in DOMAIN ranges : \E j \in DOMAIN edges : Within(edges[j], ranges[k])
    /\ maneuvers' = [k \in DOMAIN edges |->
           [length |-> EdgeLength(edges[k]), time |-> Share(edges[k]),
            begin |-> edges[k].begin, end |-> edges[k].end]]
    /\ UNCHANGED <<chunkVars, edges, duration>>

Built == maneuvers # <<>>

Next ==
    \/ ChunkNext /\ UNCHANGED edgeVars
    \/ \E e \in Edges : AddEdge(e)
    \/ Build

Spec == Init /\ [][Next]_vars

-----------------------------------------------------------------------------
(* Properties *)

\* The times of the maneuvers add up to the leg's duration, whichever of the
\* edges have a speed or a length (valhalla.go:338-340; toll_test.go:248).
TimesAddUp ==
    Built /\ (\E k \in DOMAIN maneuvers : maneuvers[k].length > 0) =>
        /\ \A k \in DOMAIN maneuvers : maneuvers[k].time.den = maneuvers[1].time.den
        /\ SumFunction([k \in DOMAIN maneuvers |-> maneuvers[k].time.num])
               = duration * maneuvers[1].time.den

\* Between any two maneuvers that traverse something the lengths add up to the
\* shape between them, plus the whole length of the edges passed on the spot:
\* no hop is charged twice or forgotten where edges meet, nor looked for
\* outside the shape (valhalla.go:340-351, 383-388).
OnTheSpot(k) == Length(Inside(edges[k].begin), Inside(edges[k].end)) = 0
LengthsAreDriven ==
    \A j, k \in DOMAIN maneuvers :
        j <= k =>
            SumFunctionOnSet([m \in DOMAIN maneuvers |-> maneuvers[m].length], j..k)
                = Length(Inside(maneuvers[j].begin), Inside(maneuvers[k].end))
                  + SumFunctionOnSet([m \in DOMAIN edges |-> edges[m].full],
                                     {m \in j..k : OnTheSpot(m)})

=============================================================================
