------------------------------- MODULE TollWalk -------------------------------
(***************************************************************************)
(* The walk of TollCalculator.Calculate (internal/service/toll.go) over    *)
(* the maneuvers of a route: contiguous tolled stretches become segments,  *)
(* short free gaps inside a stretch are bridged, and every country's cost, *)
(* tolled and driven distance is summed.                                   *)
(*                                                                         *)
(* A maneuver has the region its country code names, whether its streets   *)
(* are toll roads there, and a length.  Left out are the rounding of the   *)
(* figures put in the answer, and durations.  These are added up beside    *)
(* the lengths, with one difference: what a free maneuver of no length     *)
(* takes is bridged only with a gap that has a length (toll.go:223), so it *)
(* waits for one and is dropped when the segment ends first.               *)
(***************************************************************************)
EXTENDS Integers, SequencesExt

CONSTANTS
    Regions,        \* country codes of maneuvers: countries, and regions like BE-VLG
    Countries,      \* ISO codes
    Iso,            \* region -> country: iso2
    Rate,           \* region -> rate for this vehicle, 0 for none: rateFor
    Lengths,        \* lengths of maneuvers
    BridgeGap,      \* maxBridgeGapMeters
    MaxManeuvers,   \* bound of the model: maneuvers of the route
    MaxLegs         \* bound of the model: legs of the route

\* The region of a maneuver that no country polygon claimed.
NoRegion == "none"

ASSUME RegionAssumption ==
    NoRegion \notin Regions /\ Iso \in [Regions -> Countries] /\ Rate \in [Regions -> Nat]
ASSUME LengthAssumption == Lengths \subseteq Nat /\ BridgeGap \in Nat \ {0}
ASSUME LegAssumption    == MaxLegs \in Nat \ {0}

Maneuvers == [region : Regions, tollRoad : BOOLEAN, length : Lengths]
             \cup [region : {NoRegion}, tollRoad : {FALSE}, length : Lengths]

VARIABLES
    walked,     \* the maneuvers so far, each with its leg
    leg,        \* the leg being walked
    cur,        \* the open segment
    gap,        \* the free stretch behind the open segment
    segments,   \* the segments flushed
    tolled, cost, total,    \* per country, the accumulators
    done        \* the rollup is made

vars == <<walked, leg, cur, gap, segments, tolled, cost, total, done>>

Closed == [region |-> NoRegion]
NoGap  == [length |-> 0, end |-> 0]

Open == cur # Closed

Zero == [c \in Countries |-> 0]

Init ==
    /\ walked = <<>>
    /\ leg = 1
    /\ cur = Closed
    /\ gap = NoGap
    /\ segments = <<>>
    /\ tolled = Zero /\ cost = Zero /\ total = Zero
    /\ done \in BOOLEAN   \* without a vehicle there is nothing to walk for

\* The rate of a maneuver, 0 when it is not tolled for this vehicle.
RateOf(m) == IF m.tollRoad THEN Rate[m.region] ELSE 0

\* Maneuver n covers the shape from point n - 1 to point n.
Here == Len(walked) + 1

\* The route has its countries filled in (fillManeuverCountries): the
\* maneuvers of a leg all have one, or none has.
Filled(m) == \A i \in DOMAIN walked :
    walked[i].leg = leg => (walked[i].m.region = NoRegion <=> m.region = NoRegion)

\* Mistake: only tolled maneuvers count as distance driven.
Walk_TolledOnly(m) ==
    /\ ~done
    /\ Len(walked) < MaxManeuvers
    /\ Filled(m)
    /\ walked' = Append(walked, [leg |-> leg, m |-> m])
    /\ total' = IF RateOf(m) <= 0 THEN total
                ELSE [total EXCEPT ![Iso[m.region]] = @ + m.length]
    /\ UNCHANGED <<leg, done>>

Walk(m) ==
    /\ ~done
    /\ Len(walked) < MaxManeuvers
    /\ Filled(m)
    /\ walked' = Append(walked, [leg |-> leg, m |-> m])
    /\ total' = IF m.region = NoRegion THEN total
                ELSE [total EXCEPT ![Iso[m.region]] = @ + m.length]
    /\ UNCHANGED <<leg, done>>

\* flush: the open segment becomes a segment of the answer, unless empty.
Flush ==
    IF Open /\ cur.distance > 0
    THEN LET c == Iso[cur.region]
         IN  /\ segments' = Append(segments, cur)
             /\ tolled' = [tolled EXCEPT ![c] = @ + cur.distance]
             /\ cost' = [cost EXCEPT ![c] = @ + cur.distance * Rate[cur.region]]
    ELSE UNCHANGED <<segments, tolled, cost>>

NoFlush == UNCHANGED <<segments, tolled, cost>>

\* Mistake: the segment begins one point too early.
Start_TooEarly(m) ==
    [region |-> m.region, distance |-> m.length, begin |-> Here - 2, end |-> Here]

Start(m) == [region |-> m.region, distance |-> m.length, begin |-> Here - 1, end |-> Here]

\* A free maneuver outside any segment.
Free(m) ==
    /\ RateOf(m) <= 0
    /\ ~Open
    /\ Walk(m)
    /\ NoFlush
    /\ UNCHANGED <<cur, gap>>

\* Mistake: a gap of exactly the limit is still bridged.
Gap_AtLimit(m) ==
    /\ RateOf(m) <= 0
    /\ Open
    /\ Walk(m)
    /\ LET longer == gap.length + m.length
       IN  IF longer > BridgeGap
           THEN Flush /\ cur' = Closed /\ gap' = NoGap
           ELSE NoFlush /\ UNCHANGED cur /\ gap' = [length |-> longer, end |-> Here]

\* A free maneuver behind an open segment: the gap grows, and closes the
\* segment once it is too long to bridge.
Gap(m) ==
    /\ RateOf(m) <= 0
    /\ Open
    /\ Walk(m)
    /\ LET longer == gap.length + m.length
       IN  IF longer >= BridgeGap
           THEN Flush /\ cur' = Closed /\ gap' = NoGap
           ELSE NoFlush /\ UNCHANGED cur /\ gap' = [length |-> longer, end |-> Here]

\* A tolled maneuver with no segment open, or with one of another region.
Begin(m) ==
    /\ RateOf(m) > 0
    /\ Open => cur.region # m.region
    /\ Walk(m)
    /\ Flush
    /\ cur' = Start(m)
    /\ gap' = NoGap

\* Mistake: the bridged gap is not reset.
Extend_KeepsGap(m) ==
    /\ RateOf(m) > 0
    /\ Open
    /\ cur.region = m.region
    /\ Walk(m)
    /\ NoFlush
    /\ cur' = [cur EXCEPT !.distance = @ + gap.length + m.length, !.end = Here]
    /\ UNCHANGED gap

\* A tolled maneuver in the region of the open segment: a gap is bridged,
\* unless it has no length, and then what is pending stays.
Extend(m) ==
    /\ RateOf(m) > 0
    /\ Open
    /\ cur.region = m.region
    /\ Walk(m)
    /\ NoFlush
    /\ cur' = [cur EXCEPT !.distance = @ + gap.length + m.length, !.end = Here]
    /\ gap' = IF gap.length > 0 THEN NoGap ELSE gap

\* The end of a leg flushes; its trailing gap is dropped.
EndLeg ==
    /\ ~done
    /\ leg <= MaxLegs
    /\ Flush
    /\ cur' = Closed
    /\ gap' = NoGap
    /\ leg' = leg + 1
    /\ done' \in {leg = MaxLegs, TRUE}
    /\ UNCHANGED <<walked, total>>

\* The rollup: only the countries that were tolled appear.
Rollup == {[country |-> c, cost |-> cost[c], tolled |-> tolled[c], total |-> total[c]] :
              c \in {c \in Countries : cost[c] > 0 \/ tolled[c] > 0}}

Finished == done /\ UNCHANGED vars

Next ==
    \/ \E m \in Maneuvers : Free(m) \/ Gap(m) \/ Begin(m) \/ Extend(m)
    \/ EndLeg
    \/ Finished

Spec == Init /\ [][Next]_vars

-----------------------------------------------------------------------------
(* Properties *)

\* Type invariant.
TypeOK ==
    /\ walked \in Seq([leg : 1..MaxLegs, m : Maneuvers])
    /\ leg \in 1..(MaxLegs + 1)
    /\ Open => /\ cur.region \in Regions
               /\ cur.distance \in Nat
               /\ cur.begin \in Nat /\ cur.end \in Nat
    /\ gap.length \in Nat /\ gap.end \in Nat
    /\ tolled \in [Countries -> Nat]
    /\ cost \in [Countries -> Nat]
    /\ total \in [Countries -> Nat]

\* The segments as the maneuvers alone determine them.  Two tolled maneuvers
\* with none between them belong together when they are of one leg and one
\* region and what lies between them is shorter than BridgeGap; a segment is
\* a longest chain of such neighbours.
At(i) == walked[i].m
TolledAt(i) == RateOf(At(i)) > 0
Distance(i, j) == SumFunctionOnSet([k \in DOMAIN walked |-> At(k).length], i..j)

Belong(i, j) ==
    /\ walked[i].leg = walked[j].leg
    /\ At(i).region = At(j).region
    /\ Distance(i + 1, j - 1) < BridgeGap

Neighbours(i, j) == i < j /\ \A k \in (i + 1)..(j - 1) : ~TolledAt(k)

Places == {i \in DOMAIN walked : TolledAt(i)}

Starts == {i \in Places : \A h \in Places : Neighbours(h, i) => ~Belong(h, i)}
Ends   == {j \in Places : \A k \in Places : Neighbours(j, k) => ~Belong(j, k)}

Stretch(i, j) ==
    [region |-> At(i).region, distance |-> Distance(i, j), begin |-> i - 1, end |-> j]

\* A chain goes from its start to the first end there is.
Stretches ==
    UNION {{Stretch(i, j) : j \in {j \in Ends : i <= j /\ Ends \cap (i..(j - 1)) = {}}} :
              i \in Starts}

\* The walk finds exactly those segments, at the right place of the shape and
\* with the right length, and keeps open only the last (toll.go:197-241): no
\* gap is counted twice, carried into another segment or lost inside one.
FindsTheStretches ==
    {s \in Stretches : s.distance > 0}
        = ToSet(segments) \cup {s \in {cur} : Open /\ cur.distance > 0}

\* A gap is pending only behind an open segment, and never one long enough to
\* have closed it (toll.go:209-217).
PendingGapIsShort == IF Open THEN gap.length < BridgeGap ELSE gap = NoGap

\* The accumulators agree with the segments and the maneuvers: per country
\* the rollup adds up the segments of all its regions, and the distance driven
\* (toll.go:149-188, 198-200).
OfCountry(c) == {k \in DOMAIN segments : Iso[segments[k].region] = c}
DrivenIn(c) == {i \in DOMAIN walked : At(i).region \in {r \in Regions : Iso[r] = c}}

RollupAddsUp ==
    \A c \in Countries :
        /\ tolled[c] = SumFunctionOnSet([k \in DOMAIN segments |-> segments[k].distance],
                                        OfCountry(c))
        /\ cost[c] = SumFunctionOnSet([k \in DOMAIN segments |->
                                          segments[k].distance * Rate[segments[k].region]],
                                      OfCountry(c))
        /\ total[c] = SumFunctionOnSet([i \in DOMAIN walked |-> At(i).length], DrivenIn(c))

\* What internal/model/route.go:187 says of TollFraction: tolledDistance over
\* totalDistance lies between 0 and 1.
FractionAtMostOne == \A e \in Rollup : done => e.tolled <= e.total

=============================================================================
