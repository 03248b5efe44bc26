---------------------------- MODULE TollWalkProofs ----------------------------
(***************************************************************************)
(* Proofs about the walk over the maneuvers of a route, for all regions,   *)
(* rates and lengths and for routes of any length.                         *)
(***************************************************************************)
EXTENDS TollWalk, Sums

-----------------------------------------------------------------------------
(* Types. *)

Segment == [region : Regions, distance : Nat, begin : Nat, end : Nat]

SegmentsOK ==
    /\ cur = Closed \/ cur \in Segment
    /\ segments \in Seq(Segment)

\* While the walk goes on the leg is one of the route's.
LegOK == ~done => leg <= MaxLegs

WalkTypeOK == TypeOK /\ SegmentsOK /\ LegOK

LEMMA ManeuverFacts ==
    ASSUME NEW m \in Maneuvers
    PROVE  /\ m.region \in Regions \cup {NoRegion} /\ m.length \in Nat
           /\ RateOf(m) \in Nat
           /\ RateOf(m) > 0 => m.region \in Regions /\ RateOf(m) = Rate[m.region]
<1>1. CASE m \in [region : Regions, tollRoad : BOOLEAN, length : Lengths]
  <2>1. m.region \in Regions /\ m.length \in Nat /\ m.tollRoad \in BOOLEAN
    BY <1>1, LengthAssumption
  <2> QED BY <2>1, RegionAssumption DEF RateOf
<1>2. CASE m \in [region : {NoRegion}, tollRoad : {FALSE}, length : Lengths]
  <2>1. m.region = NoRegion /\ m.length \in Nat /\ m.tollRoad = FALSE
    BY <1>2, LengthAssumption
  <2> QED BY <2>1 DEF RateOf
<1> QED BY <1>1, <1>2 DEF Maneuvers

\* An open segment has the fields of one; Closed has none of them.
LEMMA OpenIsSegment ==
    ASSUME SegmentsOK, Open
    PROVE  cur \in Segment /\ cur.region \in Regions /\ cur.distance \in Nat
BY DEF SegmentsOK, Open, Segment

LEMMA SegmentIsOpen ==
    ASSUME NEW s \in Segment
    PROVE  s # Closed
BY RegionAssumption DEF Segment, Closed

-----------------------------------------------------------------------------
(* What the walk does to the maneuvers and to the segments, whichever        *)
(* action does it.                                                           *)

WalkedOK ==
    /\ walked \in Seq([leg : 1..MaxLegs, m : Maneuvers])
    /\ leg \in 1..(MaxLegs + 1)
    /\ total \in [Countries -> Nat]
    /\ LegOK

AccountsOK ==
    /\ segments \in Seq(Segment)
    /\ tolled \in [Countries -> Nat]
    /\ cost \in [Countries -> Nat]

LEMMA TypeParts == WalkTypeOK <=>
    /\ WalkedOK /\ AccountsOK
    /\ cur = Closed \/ cur \in Segment
    /\ gap.length \in Nat /\ gap.end \in Nat
BY DEF WalkTypeOK, TypeOK, SegmentsOK, WalkedOK, AccountsOK, Segment, Open

LEMMA WalkTypes ==
    ASSUME WalkedOK, NEW m \in Maneuvers, Walk(m)
    PROVE  WalkedOK'
<1>1. walked' \in Seq([leg : 1..MaxLegs, m : Maneuvers])
  <2>1. [leg |-> leg, m |-> m] \in [leg : 1..MaxLegs, m : Maneuvers]
    BY LegAssumption DEF WalkedOK, LegOK, Walk
  <2> QED BY <2>1 DEF WalkedOK, Walk
<1>2. total' \in [Countries -> Nat]
  BY ManeuverFacts, RegionAssumption DEF WalkedOK, Walk
<1> QED BY <1>1, <1>2 DEF WalkedOK, LegOK, Walk

LEMMA FlushTypes ==
    ASSUME AccountsOK, SegmentsOK, Flush
    PROVE  AccountsOK'
<1>1. CASE Open /\ cur.distance > 0
  <2>1. cur \in Segment /\ cur.region \in Regions /\ cur.distance \in Nat
    BY <1>1, OpenIsSegment
  <2>2. Iso[cur.region] \in Countries /\ cur.distance * Rate[cur.region] \in Nat
    <3>1. \A a, b \in Nat : a * b \in Nat
      OBVIOUS
    <3> QED BY <2>1, <3>1, RegionAssumption
  <2>3. segments' \in Seq(Segment)
    <3>1. segments' = Append(segments, cur)
      BY <1>1 DEF Flush
    <3> QED BY <2>1, <3>1 DEF AccountsOK
  <2>4. tolled' \in [Countries -> Nat]
    BY <1>1, <2>1, <2>2 DEF Flush, AccountsOK
  <2>5. cost' \in [Countries -> Nat]
    <3> DEFINE add == cur.distance * Rate[cur.region]
    <3>1. cost' = [cost EXCEPT ![Iso[cur.region]] = @ + add] /\ add \in Nat
      BY <1>1, <2>2 DEF Flush
    <3> HIDE DEF add
    <3> QED BY <2>2, <3>1 DEF AccountsOK
  <2> QED BY <2>3, <2>4, <2>5 DEF AccountsOK
<1>2. CASE ~(Open /\ cur.distance > 0)
  BY <1>2 DEF Flush, AccountsOK
<1> QED BY <1>1, <1>2

LEMMA NoFlushTypes ==
    ASSUME AccountsOK, NoFlush
    PROVE  AccountsOK'
BY DEF AccountsOK, NoFlush

-----------------------------------------------------------------------------
(* The sums.  Each accumulator is touched by one part of a step only: the    *)
(* total by the maneuver walked, the others by the segment flushed.          *)

TotalsAddUp ==
    \A c \in Countries :
        total[c] = SumFunctionOnSet([k \in DOMAIN walked |-> At(k).length], DrivenIn(c))

SegmentsAddUp ==
    \A c \in Countries :
        /\ tolled[c] = SumFunctionOnSet([k \in DOMAIN segments |-> segments[k].distance],
                                        OfCountry(c))
        /\ cost[c] = SumFunctionOnSet([k \in DOMAIN segments |->
                                          segments[k].distance * Rate[segments[k].region]],
                                      OfCountry(c))

LEMMA SumParts == RollupAddsUp <=> TotalsAddUp /\ SegmentsAddUp
BY DEF RollupAddsUp, TotalsAddUp, SegmentsAddUp

LEMMA Appended ==
    ASSUME NEW S, NEW s \in Seq(S), NEW x \in S, NEW t, t = Append(s, x)
    PROVE  /\ t \in Seq(S) /\ Len(t) = Len(s) + 1 /\ Len(s) \in Nat
           /\ DOMAIN s = 1..Len(s) /\ DOMAIN t = DOMAIN s \cup {Len(s) + 1}
           /\ Len(s) + 1 \notin DOMAIN s
           /\ t[Len(s) + 1] = x /\ \A k \in DOMAIN s : t[k] = s[k]
OBVIOUS

LEMMA WalkSums ==
    ASSUME WalkedOK, TotalsAddUp, NEW m \in Maneuvers, Walk(m)
    PROVE  TotalsAddUp'
<1> SUFFICES ASSUME NEW c \in Countries
             PROVE  total'[c] = SumFunctionOnSet([k \in DOMAIN walked' |-> At(k)'.length],
                                                 DrivenIn(c)')
  BY DEF TotalsAddUp
<1> DEFINE f == [k \in DOMAIN walked |-> At(k).length]
           g == [k \in DOMAIN walked' |-> At(k)'.length]
           S == DrivenIn(c)
           x == Len(walked) + 1
<1>1. [leg |-> leg, m |-> m] \in [leg : 1..MaxLegs, m : Maneuvers]
  BY LegAssumption DEF WalkedOK, LegOK, Walk
<1>2. /\ DOMAIN walked = 1..Len(walked) /\ DOMAIN walked' = DOMAIN walked \cup {x}
      /\ x \notin DOMAIN walked /\ Len(walked) \in Nat
      /\ walked'[x] = [leg |-> leg, m |-> m] /\ \A k \in DOMAIN walked : walked'[k] = walked[k]
  BY <1>1, Appended DEF WalkedOK, Walk
<1>3. IsFiniteSet(S) /\ x \notin S
  <2>1. S \subseteq 1..Len(walked)
    BY <1>2 DEF DrivenIn
  <2>2. IsFiniteSet(1..Len(walked))
    BY <1>2, FS_Interval
  <2>3. x \notin S
    BY <1>2 DEF DrivenIn
  <2> QED BY <2>1, <2>2, <2>3, FS_Subset
<1>4. \A k \in S : f[k] \in Int /\ g[k] = f[k]
  <2> SUFFICES ASSUME NEW k \in DOMAIN walked PROVE f[k] \in Int /\ g[k] = f[k]
    BY DEF DrivenIn
  <2>1. At(k) \in Maneuvers /\ At(k)' = At(k)
    <3> DEFINE Stop == [leg : 1..MaxLegs, m : Maneuvers]
    <3>1. walked[k] \in Stop
      <4>1. walked \in Seq(Stop)
        BY DEF WalkedOK
      <4> HIDE DEF Stop
      <4> QED BY <4>1
    <3> QED BY <1>2, <3>1 DEF At
  <2> QED BY <1>2, <2>1, ManeuverFacts
<1>5. g[x] = m.length /\ m.length \in Int /\ total[c] \in Int
  BY <1>2, ManeuverFacts DEF At, WalkedOK
<1>6. total[c] = SumFunctionOnSet(f, S)
  BY DEF TotalsAddUp
<1>7. CASE m.region \in Regions /\ Iso[m.region] = c
  <2>1. DrivenIn(c)' = S \cup {x}
    BY <1>2, <1>7 DEF DrivenIn, At
  <2>2. SumFunctionOnSet(g, S \cup {x}) = SumFunctionOnSet(f, S) + g[x]
    <3> HIDE DEF f, g, S, x
    <3> QED BY <1>3, <1>4, <1>5, SumExtends
  <2>3. total'[c] = total[c] + m.length
    BY <1>7, RegionAssumption DEF Walk, WalkedOK
  <2> QED BY <1>5, <1>6, <2>1, <2>2, <2>3
<1>8. CASE ~(m.region \in Regions /\ Iso[m.region] = c)
  <2>1. DrivenIn(c)' = S
    BY <1>2, <1>8 DEF DrivenIn, At
  <2>2. SumFunctionOnSet(g, S) = SumFunctionOnSet(f, S)
    <3> HIDE DEF f, g, S, x
    <3> QED BY <1>3, <1>4, SumAgrees
  <2>3. total'[c] = total[c]
    BY <1>8, ManeuverFacts, RegionAssumption DEF Walk, WalkedOK
  <2> QED BY <1>6, <2>1, <2>2, <2>3
<1> QED BY <1>7, <1>8

LEMMA FlushSums ==
    ASSUME AccountsOK, SegmentsOK, SegmentsAddUp, Flush
    PROVE  SegmentsAddUp'
<1>1. CASE ~(Open /\ cur.distance > 0)
  BY <1>1 DEF Flush, SegmentsAddUp, OfCountry
<1>2. CASE Open /\ cur.distance > 0
  <2> SUFFICES ASSUME NEW c \in Countries
               PROVE  /\ tolled'[c] = SumFunctionOnSet(
                             [k \in DOMAIN segments' |-> segments'[k].distance], OfCountry(c)')
                      /\ cost'[c] = SumFunctionOnSet(
                             [k \in DOMAIN segments' |->
                                 segments'[k].distance * Rate[segments'[k].region]],
                             OfCountry(c)')
    BY DEF SegmentsAddUp
  <2> DEFINE f == [k \in DOMAIN segments |-> segments[k].distance]
             g == [k \in DOMAIN segments' |-> segments'[k].distance]
             u == [k \in DOMAIN segments |-> segments[k].distance * Rate[segments[k].region]]
             v == [k \in DOMAIN segments' |-> segments'[k].distance * Rate[segments'[k].region]]
             S == OfCountry(c)
             x == Len(segments) + 1
  <2>1. \A a, b \in Nat : a * b \in Nat
    OBVIOUS
  <2>2. cur \in Segment /\ cur.region \in Regions /\ cur.distance \in Nat
    BY <1>2, OpenIsSegment
  <2>3. segments' = Append(segments, cur)
    BY <1>2 DEF Flush
  <2>4. /\ DOMAIN segments = 1..Len(segments) /\ DOMAIN segments' = DOMAIN segments \cup {x}
        /\ x \notin DOMAIN segments /\ Len(segments) \in Nat
        /\ segments'[x] = cur /\ \A k \in DOMAIN segments : segments'[k] = segments[k]
    BY <2>2, <2>3, Appended DEF AccountsOK
  <2>5. IsFiniteSet(S) /\ x \notin S
    <3>1. S \subseteq 1..Len(segments)
      BY <2>4 DEF OfCountry
    <3>2. IsFiniteSet(1..Len(segments))
      BY <2>4, FS_Interval
    <3>3. x \notin S
      BY <2>4 DEF OfCountry
    <3> QED BY <3>1, <3>2, <3>3, FS_Subset
  <2>6. \A k \in S : f[k] \in Int /\ g[k] = f[k] /\ u[k] \in Int /\ v[k] = u[k]
    <3> SUFFICES ASSUME NEW k \in DOMAIN segments
                 PROVE  f[k] \in Int /\ g[k] = f[k] /\ u[k] \in Int /\ v[k] = u[k]
      BY DEF OfCountry
    <3>1. segments[k].distance \in Nat /\ segments[k].region \in Regions
      <4>1. segments[k] \in Segment
        BY DEF AccountsOK
      <4> QED BY <4>1 DEF Segment
    <3>2. Rate[segments[k].region] \in Nat
      BY <3>1, RegionAssumption
    <3>3. segments[k].distance * Rate[segments[k].region] \in Nat
      BY <2>1, <3>1, <3>2
    <3> QED BY <2>4, <3>1, <3>3
  <2>7. /\ g[x] = cur.distance /\ g[x] \in Int
        /\ v[x] = cur.distance * Rate[cur.region] /\ v[x] \in Int
        /\ tolled[c] \in Int /\ cost[c] \in Int
    BY <2>1, <2>2, <2>4, RegionAssumption DEF AccountsOK
  <2>8. tolled[c] = SumFunctionOnSet(f, S) /\ cost[c] = SumFunctionOnSet(u, S)
    BY DEF SegmentsAddUp
  <2>9. CASE Iso[cur.region] = c
    <3>1. OfCountry(c)' = S \cup {x}
      BY <2>4, <2>9 DEF OfCountry
    <3>2. /\ SumFunctionOnSet(g, S \cup {x}) = SumFunctionOnSet(f, S) + g[x]
          /\ SumFunctionOnSet(v, S \cup {x}) = SumFunctionOnSet(u, S) + v[x]
      <4> HIDE DEF f, g, u, v, S, x
      <4> QED BY <2>5, <2>6, <2>7, SumExtends
    <3>3. tolled'[c] = tolled[c] + cur.distance
      BY <1>2, <2>9 DEF Flush, AccountsOK
    <3>4. cost'[c] = cost[c] + cur.distance * Rate[cur.region]
      BY <1>2, <2>9 DEF Flush, AccountsOK
    <3> QED BY <2>7, <2>8, <3>1, <3>2, <3>3, <3>4
  <2>10. CASE Iso[cur.region] # c
    <3>1. OfCountry(c)' = S
      BY <2>4, <2>10 DEF OfCountry
    <3>2. /\ SumFunctionOnSet(g, S) = SumFunctionOnSet(f, S)
          /\ SumFunctionOnSet(v, S) = SumFunctionOnSet(u, S)
      <4> HIDE DEF f, g, u, v, S, x
      <4> QED BY <2>5, <2>6, SumAgrees
    <3>3. tolled'[c] = tolled[c] /\ cost'[c] = cost[c]
      BY <1>2, <2>2, <2>10, RegionAssumption DEF Flush, AccountsOK
    <3> QED BY <2>8, <3>1, <3>2, <3>3
  <2> QED BY <2>9, <2>10
<1> QED BY <1>1, <1>2

LEMMA NoFlushSums ==
    ASSUME SegmentsAddUp, NoFlush
    PROVE  SegmentsAddUp'
BY DEF SegmentsAddUp, OfCountry, NoFlush

-----------------------------------------------------------------------------
(* The inductive invariant: types, the gap that is pending, and the sums. *)

WalkInv == WalkTypeOK /\ PendingGapIsShort /\ TotalsAddUp /\ SegmentsAddUp

\* The open segment and its gap, whatever a step makes of them.
CurrentOK ==
    /\ cur = Closed \/ cur \in Segment
    /\ gap.length \in Nat /\ gap.end \in Nat
    /\ PendingGapIsShort

LEMMA InvParts ==
    WalkInv <=> WalkedOK /\ AccountsOK /\ CurrentOK /\ TotalsAddUp /\ SegmentsAddUp
BY TypeParts DEF WalkInv, CurrentOK

LEMMA InitWalkInv == Init => WalkInv
<1> SUFFICES ASSUME Init PROVE WalkInv
  OBVIOUS
<1>1. WalkedOK /\ AccountsOK
  BY LegAssumption DEF Init, WalkedOK, LegOK, AccountsOK, Zero
<1>2. CurrentOK
  BY LengthAssumption DEF Init, CurrentOK, PendingGapIsShort, Open, NoGap
<1>3. TotalsAddUp
  <2>1. \A c \in Countries : DrivenIn(c) = {}
    BY DEF Init, DrivenIn
  <2> QED BY <2>1, SumEmpty DEF Init, TotalsAddUp, Zero
<1>4. SegmentsAddUp
  <2>1. \A c \in Countries : OfCountry(c) = {}
    BY DEF Init, OfCountry
  <2> QED BY <2>1, SumEmpty DEF Init, SegmentsAddUp, Zero
<1> QED BY <1>1, <1>2, <1>3, <1>4, InvParts

LEMMA CurrentStep ==
    ASSUME WalkInv, NEW m \in Maneuvers, Free(m) \/ Gap(m) \/ Begin(m) \/ Extend(m)
    PROVE  CurrentOK'
<1>0. /\ CurrentOK /\ SegmentsOK /\ m.length \in Nat /\ Here \in Nat /\ Here - 1 \in Nat
      /\ RateOf(m) > 0 => m.region \in Regions
  BY ManeuverFacts, InvParts DEF WalkInv, WalkTypeOK, WalkedOK, Here
<1>1. CASE Free(m)
  BY <1>0, <1>1 DEF Free, CurrentOK, PendingGapIsShort, Open
<1>2. CASE Gap(m)
  BY <1>0, <1>2, LengthAssumption DEF Gap, CurrentOK, PendingGapIsShort, Open, NoGap
<1>3. CASE Begin(m)
  <2>1. Start(m) \in Segment
    BY <1>0, <1>3 DEF Begin, Start, Segment
  <2> QED BY <1>3, <2>1, LengthAssumption DEF Begin, CurrentOK, PendingGapIsShort, NoGap
<1>4. CASE Extend(m)
  <2>1. cur \in Segment
    BY <1>0, <1>4, OpenIsSegment DEF Extend
  <2>2. cur' \in Segment
    <3>1. cur.distance + gap.length + m.length \in Nat
      BY <1>0, <2>1 DEF Segment, CurrentOK
    <3> QED BY <1>0, <1>4, <2>1, <3>1 DEF Extend, Segment
  <2>3. gap'.length \in Nat /\ gap'.end \in Nat /\ gap'.length = 0
    BY <1>0, <1>4 DEF Extend, CurrentOK, NoGap
  <2>4. Open'
    <3>1. cur'.region \in Regions
      BY <2>2 DEF Segment
    <3> QED BY <3>1, RegionAssumption DEF Open, Closed
  <2>5. gap'.length < BridgeGap
    BY <2>3, LengthAssumption
  <2> QED BY <2>2, <2>3, <2>4, <2>5 DEF CurrentOK, PendingGapIsShort
<1> QED BY <1>1, <1>2, <1>3, <1>4

LEMMA ManeuverKeepsInv ==
    ASSUME WalkInv, NEW m \in Maneuvers, Free(m) \/ Gap(m) \/ Begin(m) \/ Extend(m)
    PROVE  WalkInv'
<1>1. Walk(m) /\ (Flush \/ NoFlush)
  BY DEF Free, Gap, Begin, Extend
<1>2. SegmentsOK
  BY DEF WalkInv, WalkTypeOK
<1>3. WalkedOK' /\ AccountsOK'
  BY <1>1, <1>2, InvParts, WalkTypes, FlushTypes, NoFlushTypes
<1>4. TotalsAddUp' /\ SegmentsAddUp'
  BY <1>1, <1>2, InvParts, WalkSums, FlushSums, NoFlushSums
<1>5. CurrentOK'
  BY CurrentStep
<1> QED BY <1>3, <1>4, <1>5, InvParts, PTL

LEMMA EndLegKeepsInv ==
    ASSUME WalkInv, EndLeg
    PROVE  WalkInv'
<1>1. SegmentsOK
  BY DEF WalkInv, WalkTypeOK
<1>2. AccountsOK' /\ SegmentsAddUp'
  BY <1>1, InvParts, FlushTypes, FlushSums DEF EndLeg
<1>3. WalkedOK'
  <2>1. leg' = leg + 1 /\ leg \in 1..MaxLegs /\ leg' \in 1..(MaxLegs + 1)
    BY InvParts, LegAssumption DEF EndLeg, WalkedOK
  <2>2. leg = MaxLegs \/ leg' <= MaxLegs
    BY <2>1, LegAssumption
  <2>3. LegOK'
    BY <2>2 DEF EndLeg, LegOK
  <2> QED BY <2>1, <2>3, InvParts DEF EndLeg, WalkedOK
<1>4. CurrentOK'
  BY DEF EndLeg, CurrentOK, PendingGapIsShort, Open, NoGap
<1>5. TotalsAddUp'
  BY InvParts DEF EndLeg, TotalsAddUp, DrivenIn, At
<1> QED BY <1>2, <1>3, <1>4, <1>5, InvParts, PTL

LEMMA WalkStep ==
    ASSUME WalkInv, [Next]_vars
    PROVE  WalkInv'
<1>1. CASE UNCHANGED vars
  <2>1. WalkTypeOK' /\ PendingGapIsShort'
    BY <1>1 DEF vars, WalkInv, WalkTypeOK, TypeOK, SegmentsOK, LegOK, PendingGapIsShort, Open
  <2>2. TotalsAddUp' /\ SegmentsAddUp'
    <3>1. \A c : DrivenIn(c)' = DrivenIn(c) /\ OfCountry(c)' = OfCountry(c)
      BY <1>1 DEF vars, DrivenIn, OfCountry, At
    <3>2. TotalsAddUp'
      BY <1>1, <3>1 DEF vars, WalkInv, TotalsAddUp, At
    <3>3. SegmentsAddUp'
      BY <1>1, <3>1 DEF vars, WalkInv, SegmentsAddUp
    <3> QED BY <3>2, <3>3
  <2> QED BY <2>1, <2>2 DEF WalkInv
<1> QED BY <1>1, ManeuverKeepsInv, EndLegKeepsInv DEF Next, Finished

LEMMA WalkInvariant == Spec => []WalkInv
BY InitWalkInv, WalkStep, PTL DEF Spec

\* The variables of the walk keep their types on routes of any length.
THEOREM WalkTypeCorrect == Spec => []TypeOK
BY WalkInvariant, PTL DEF WalkInv, WalkTypeOK

\* No gap is pending without an open segment, and none of BridgeGap or more
\* (toll.go:209-217).
THEOREM PendingGapsAreShort == Spec => []PendingGapIsShort
BY WalkInvariant, PTL DEF WalkInv

\* Whatever the route, the toll, the tolled and the driven distance of each
\* country are the sums over its segments and its maneuvers (toll.go:149-200).
THEOREM TheRollupAddsUp == Spec => []RollupAddsUp
<1>1. WalkInv => RollupAddsUp
  BY SumParts DEF WalkInv
<1> QED BY <1>1, WalkInvariant, PTL

-----------------------------------------------------------------------------
(* The stretches.  The invariant says where the walk stands among them: the  *)
(* open segment is the last stretch, ending at the last tolled maneuver; with*)
(* none open nothing that follows can belong to the last stretch; and the    *)
(* segments flushed are the other stretches.                                 *)

\* A chain of neighbours, from its start to the first end there is.
Chain(a, c) == a \in Starts /\ c \in Ends /\ a <= c /\ Ends \cap (a..(c - 1)) = {}

\* The open segment is the stretch from b to e, and no tolled maneuver follows.
LastStretch(b, e) ==
    /\ Chain(b, e)
    /\ cur = Stretch(b, e)
    /\ \A p \in Places : p <= e
    /\ walked[e].leg = leg /\ At(e).region = cur.region
    /\ gap.length = Distance(e + 1, Len(walked))
    /\ \A i \in Starts : i = b \/ \E h \in Ends : i <= h /\ h < b

OpenIsLast == Open => \E b, e : LastStretch(b, e)

LastPlace(p) == p \in Places /\ \A k \in (p + 1)..Len(walked) : ~TolledAt(k)

ClosedForGood ==
    ~Open => \A p \in Places :
        LastPlace(p) => walked[p].leg # leg \/ Distance(p + 1, Len(walked)) >= BridgeGap

EveryPlaceEnds == \A i \in Places : \E j \in Ends : i <= j

LegsInOrder == \A i \in DOMAIN walked : walked[i].leg <= leg

OthersFlushed == ToSet(segments) = {s \in Stretches : s.distance > 0 /\ (Open => s # cur)}

FoundInv == OpenIsLast /\ ClosedForGood /\ EveryPlaceEnds /\ LegsInOrder /\ OthersFlushed

-----------------------------------------------------------------------------
(* Distances over a sequence of maneuvers. *)

Stops == [leg : 1..MaxLegs, m : Maneuvers]

Dist(w, a, c) == SumFunctionOnSet([k \in DOMAIN w |-> w[k].m.length], a..c)

LEMMA DistanceIsDist ==
    ASSUME NEW a, NEW c
    PROVE  Distance(a, c) = Dist(walked, a, c) /\ Distance(a, c)' = Dist(walked', a, c)
BY DEF Distance, Dist, At

LEMMA StopFacts ==
    ASSUME NEW w \in Seq(Stops), NEW k \in 1..Len(w)
    PROVE  w[k] \in Stops /\ w[k].m \in Maneuvers /\ w[k].m.length \in Nat
<1>1. w[k] \in Stops
  <2> HIDE DEF Stops
  <2> QED OBVIOUS
<1>2. w[k].m \in Maneuvers
  BY <1>1 DEF Stops
<1> QED BY <1>1, <1>2, ManeuverFacts

LEMMA DistTerms ==
    ASSUME NEW w \in Seq(Stops), NEW a \in Nat \ {0}, NEW c \in 0..Len(w)
    PROVE  /\ IsFiniteSet(a..c) /\ a..c \subseteq DOMAIN w
           /\ \A k \in a..c : [h \in DOMAIN w |-> w[h].m.length][k] = w[k].m.length
           /\ \A k \in a..c : w[k].m.length \in Nat
<1>1. a..c \subseteq 1..Len(w) /\ DOMAIN w = 1..Len(w) /\ IsFiniteSet(a..c)
  BY FS_Interval
<1> QED BY <1>1, StopFacts

LEMMA DistType ==
    ASSUME NEW w \in Seq(Stops), NEW a \in Nat \ {0}, NEW c \in 0..Len(w)
    PROVE  Dist(w, a, c) \in Nat /\ (c < a => Dist(w, a, c) = 0)
<1> DEFINE f == [k \in DOMAIN w |-> w[k].m.length]
<1>1. IsFiniteSet(a..c) /\ \A k \in a..c : f[k] \in Nat
  BY DistTerms
<1>2. SumFunctionOnSet(f, a..c) \in Nat
  <2> HIDE DEF f
  <2> QED BY <1>1, SumType
<1>3. c < a => a..c = {}
  OBVIOUS
<1> QED BY <1>2, <1>3, SumEmpty DEF Dist

LEMMA DistAddsUp ==
    ASSUME NEW w \in Seq(Stops), NEW a \in Nat \ {0}, NEW b \in Nat, NEW c \in 0..Len(w),
           a <= b + 1, b <= c
    PROVE  Dist(w, a, c) = Dist(w, a, b) + Dist(w, b + 1, c)
<1> DEFINE f == [k \in DOMAIN w |-> w[k].m.length]
           S == a..b
           R == (b + 1)..c
<1>1. S \cup R = a..c /\ S \cap R = {} /\ b \in 0..Len(w) /\ b + 1 \in Nat \ {0}
  OBVIOUS
<1>2. IsFiniteSet(S) /\ IsFiniteSet(R)
  BY <1>1, DistTerms
<1>3. \A k \in S \cup R : f[k] \in Int
  BY <1>1, DistTerms
<1>4. SumFunctionOnSet(f, S \cup R) = SumFunctionOnSet(f, S) + SumFunctionOnSet(f, R)
  <2> HIDE DEF f, S, R
  <2> QED BY <1>1, <1>2, <1>3, SumUnion
<1> QED BY <1>1, <1>4 DEF Dist

LEMMA DistOfOne ==
    ASSUME NEW w \in Seq(Stops), NEW a \in 1..Len(w)
    PROVE  Dist(w, a, a) = w[a].m.length
<1> DEFINE f == [k \in DOMAIN w |-> w[k].m.length]
<1>1. a..a = {} \cup {a} /\ IsFiniteSet({}) /\ f[a] = w[a].m.length /\ w[a].m.length \in Nat
  BY StopFacts, FS_EmptySet
<1>2. SumFunctionOnSet(f, {} \cup {a}) = SumFunctionOnSet(f, {}) + f[a]
  <2> HIDE DEF f
  <2>1. \A k \in {} \cup {a} : f[k] \in Int
    BY <1>1
  <2> QED BY <1>1, <2>1, SumAdds
<1> QED BY <1>1, <1>2, SumEmpty DEF Dist

LEMMA DistOfPrefix ==
    ASSUME NEW v \in Seq(Stops), NEW w \in Seq(Stops), NEW a \in Nat \ {0},
           NEW c \in 0..Len(w), c <= Len(v), \A k \in 1..c : v[k] = w[k]
    PROVE  Dist(v, a, c) = Dist(w, a, c)
<1> DEFINE f == [k \in DOMAIN v |-> v[k].m.length]
           g == [k \in DOMAIN w |-> w[k].m.length]
<1>1. IsFiniteSet(a..c) /\ \A k \in a..c : f[k] = g[k]
  BY DistTerms
<1>2. SumFunctionOnSet(f, a..c) = SumFunctionOnSet(g, a..c)
  <2> HIDE DEF f, g
  <2> QED BY <1>1, SumAgrees
<1> QED BY <1>2 DEF Dist

-----------------------------------------------------------------------------
(* One more maneuver, at place x: nothing changes among those before it. *)

LEMMA OneMore ==
    ASSUME WalkedOK, NEW m \in Maneuvers, Walk(m), NEW x, x = Here
    PROVE  /\ x \in Nat \ {0} /\ Len(walked) = x - 1 /\ Len(walked') = x
           /\ DOMAIN walked = 1..(x - 1) /\ DOMAIN walked' = 1..x
           /\ walked \in Seq(Stops) /\ walked' \in Seq(Stops)
           /\ \A k \in 1..(x - 1) : walked'[k] = walked[k]
           /\ walked'[x].leg = leg /\ walked'[x].m = m
<1>1. [leg |-> leg, m |-> m] \in Stops /\ walked \in Seq(Stops)
  BY LegAssumption DEF WalkedOK, LegOK, Walk, Stops
<1>2. walked' = Append(walked, [leg |-> leg, m |-> m]) /\ x = Len(walked) + 1
  BY DEF Walk, Here
<1>3. walked'[x] = [leg |-> leg, m |-> m]
  <2> HIDE DEF Stops
  <2> QED BY <1>1, <1>2
<1> HIDE DEF Stops
<1> QED BY <1>1, <1>2, <1>3

LEMMA OneMoreDistance ==
    ASSUME WalkedOK, NEW m \in Maneuvers, Walk(m), NEW x, x = Here
    PROVE  /\ \A a \in 1..x, c \in 0..(x - 1) :
                 Distance(a, c)' = Distance(a, c) /\ Distance(a, c) \in Nat
           /\ \A a \in 1..x : Distance(a, x)' = Distance(a, x - 1) + m.length
           /\ Distance(x + 1, x)' = 0
<1>1. /\ x \in Nat \ {0} /\ Len(walked) = x - 1 /\ Len(walked') = x
      /\ walked \in Seq(Stops) /\ walked' \in Seq(Stops)
      /\ \A k \in 1..(x - 1) : walked'[k] = walked[k]
      /\ walked'[x].m.length = m.length
  BY OneMore
<1>2. \A a \in 1..x, c \in 0..(x - 1) :
          Distance(a, c)' = Distance(a, c) /\ Distance(a, c) \in Nat
  <2> SUFFICES ASSUME NEW a \in 1..x, NEW c \in 0..(x - 1)
               PROVE  Dist(walked', a, c) = Dist(walked, a, c) /\ Dist(walked, a, c) \in Nat
    BY DistanceIsDist
  <2>1. a \in Nat \ {0} /\ c \in 0..Len(walked) /\ c <= Len(walked')
    BY <1>1
  <2>2. \A k \in 1..c : walked'[k] = walked[k]
    BY <1>1
  <2>3. Dist(walked', a, c) = Dist(walked, a, c)
    BY <1>1, <2>1, <2>2, DistOfPrefix
  <2> QED BY <1>1, <2>1, <2>3, DistType
<1>3. \A a \in 1..x : Distance(a, x)' = Distance(a, x - 1) + m.length
  <2> SUFFICES ASSUME NEW a \in 1..x
               PROVE  Dist(walked', a, x) = Dist(walked, a, x - 1) + m.length
    BY DistanceIsDist
  <2>1. /\ a \in Nat \ {0} /\ x - 1 \in Nat /\ x \in 0..Len(walked') /\ x \in 1..Len(walked')
        /\ a <= (x - 1) + 1 /\ x - 1 <= x /\ (x - 1) + 1 = x
    BY <1>1
  <2>2. Dist(walked', a, x) = Dist(walked', a, x - 1) + Dist(walked', x, x)
    BY <1>1, <2>1, DistAddsUp
  <2>3. Dist(walked', x, x) = m.length
    BY <1>1, <2>1, DistOfOne
  <2>4. Dist(walked', a, x - 1) = Dist(walked, a, x - 1)
    BY <1>1, <1>2, DistanceIsDist
  <2> QED BY <2>2, <2>3, <2>4
<1>4. Distance(x + 1, x)' = 0
  BY <1>1, DistanceIsDist, DistType
<1> QED BY <1>2, <1>3, <1>4

LEMMA OneMorePlace ==
    ASSUME WalkedOK, NEW m \in Maneuvers, Walk(m), NEW x, x = Here
    PROVE  /\ \A k \in 1..(x - 1) : At(k)' = At(k) /\ (TolledAt(k)' <=> TolledAt(k))
           /\ At(x)' = m /\ (TolledAt(x)' <=> RateOf(m) > 0)
           /\ Places \subseteq 1..(x - 1)
           /\ Places' = IF RateOf(m) > 0 THEN Places \cup {x} ELSE Places
<1>1. /\ x \in Nat \ {0} /\ DOMAIN walked = 1..(x - 1) /\ DOMAIN walked' = 1..x
      /\ \A k \in 1..(x - 1) : walked'[k] = walked[k]
      /\ walked'[x].m = m
  BY OneMore
<1>2. \A k \in 1..(x - 1) : At(k)' = At(k) /\ (TolledAt(k)' <=> TolledAt(k))
  BY <1>1 DEF At, TolledAt
<1>3. At(x)' = m /\ (TolledAt(x)' <=> RateOf(m) > 0)
  BY <1>1 DEF At, TolledAt
<1> QED BY <1>1, <1>2, <1>3 DEF Places

LEMMA SameBefore ==
    ASSUME WalkedOK, NEW m \in Maneuvers, Walk(m), NEW x, x = Here,
           NEW a \in 1..(x - 1), NEW c \in 1..(x - 1)
    PROVE  /\ Neighbours(a, c)' <=> Neighbours(a, c)
           /\ Belong(a, c)' <=> Belong(a, c)
           /\ Stretch(a, c)' = Stretch(a, c)
<1>1. /\ x \in Nat \ {0} /\ walked'[a] = walked[a] /\ walked'[c] = walked[c]
      /\ At(a)' = At(a) /\ At(c)' = At(c)
      /\ \A k \in 1..(x - 1) : TolledAt(k)' <=> TolledAt(k)
  BY OneMore, OneMorePlace
<1>2. /\ Distance(a + 1, c - 1)' = Distance(a + 1, c - 1)
      /\ Distance(a, c)' = Distance(a, c)
  <2>1. a + 1 \in 1..x /\ c - 1 \in 0..(x - 1) /\ a \in 1..x /\ c \in 0..(x - 1)
    BY <1>1
  <2> QED BY <2>1, OneMoreDistance
<1>3. Neighbours(a, c)' <=> Neighbours(a, c)
  <2>1. \A k \in (a + 1)..(c - 1) : k \in 1..(x - 1)
    BY <1>1
  <2> QED BY <1>1, <2>1 DEF Neighbours
<1>4. Belong(a, c)' <=> Belong(a, c)
  BY <1>1, <1>2 DEF Belong
<1>5. Stretch(a, c)' = Stretch(a, c)
  BY <1>1, <1>2 DEF Stretch
<1> QED BY <1>3, <1>4, <1>5

-----------------------------------------------------------------------------
(* What one more maneuver does to the stretches. *)

LEMMA InStretches ==
    ASSUME NEW s
    PROVE  /\ s \in Stretches  <=> \E a, c : Chain(a, c) /\ s = Stretch(a, c)
           /\ s \in Stretches' <=> \E a, c : Chain(a, c)' /\ s = Stretch(a, c)'
BY DEF Stretches, Chain

LEMMA StartsAndEnds == Starts \subseteq Places /\ Ends \subseteq Places
BY DEF Starts, Ends

LEMMA UntolledStep ==
    ASSUME WalkedOK, NEW m \in Maneuvers, Walk(m), ~(RateOf(m) > 0), NEW x, x = Here
    PROVE  Places' = Places /\ Starts' = Starts /\ Ends' = Ends /\ Stretches' = Stretches
<1>1. Places \subseteq 1..(x - 1) /\ Places' = Places
  BY OneMorePlace
<1>2. \A a, c \in Places : /\ Neighbours(a, c)' <=> Neighbours(a, c)
                           /\ Belong(a, c)' <=> Belong(a, c)
                           /\ Stretch(a, c)' = Stretch(a, c)
  BY <1>1, SameBefore
<1>3. Starts' = Starts /\ Ends' = Ends
  BY <1>1, <1>2 DEF Starts, Ends
<1>4. \A a, c : Chain(a, c)' <=> Chain(a, c)
  BY <1>3 DEF Chain
<1>5. \A a, c : Chain(a, c) => Stretch(a, c)' = Stretch(a, c)
  BY <1>2, StartsAndEnds DEF Chain
<1>6. \A s : s \in Stretches' <=> s \in Stretches
  BY <1>4, <1>5, InStretches
<1>7. Stretches' = Stretches
  BY <1>6 DEF Stretches
<1> QED BY <1>1, <1>3, <1>7

LEMMA TolledStep ==
    ASSUME WalkedOK, NEW m \in Maneuvers, Walk(m), RateOf(m) > 0, NEW x, x = Here
    PROVE  /\ Places' = Places \cup {x} /\ Places \subseteq 1..(x - 1) /\ x \in Nat \ {0}
           /\ \A a \in Places : a \in Starts' <=> a \in Starts
           /\ \A c \in Places : c \in Ends' <=> c \in Ends /\ ~(LastPlace(c) /\ Belong(c, x)')
           /\ x \in Starts' <=> \A a \in Places : ~(LastPlace(a) /\ Belong(a, x)')
           /\ x \in Ends'
<1>1. /\ x \in Nat \ {0} /\ Places \subseteq 1..(x - 1) /\ Places' = Places \cup {x}
      /\ \A k \in 1..(x - 1) : TolledAt(k)' <=> TolledAt(k)
      /\ Len(walked) = x - 1
  BY OneMore, OneMorePlace
<1>2. \A a, c \in Places : /\ Neighbours(a, c)' <=> Neighbours(a, c)
                           /\ Belong(a, c)' <=> Belong(a, c)
  BY <1>1, SameBefore
<1>3. \A a \in Places : (Neighbours(a, x)' <=> LastPlace(a)) /\ ~Neighbours(x, a)'
  <2> TAKE a \in Places
  <2>1. a < x /\ \A k \in (a + 1)..(x - 1) : k \in 1..(x - 1)
    BY <1>1
  <2> QED BY <1>1, <2>1 DEF Neighbours, LastPlace
<1>4. ~Neighbours(x, x)'
  BY <1>1 DEF Neighbours
<1>5. \A a \in Places : a \in Starts' <=> a \in Starts
  BY <1>1, <1>2, <1>3 DEF Starts
<1>6. \A c \in Places : c \in Ends' <=> c \in Ends /\ ~(LastPlace(c) /\ Belong(c, x)')
  BY <1>1, <1>2, <1>3 DEF Ends
<1>7. x \in Starts' <=> \A a \in Places : ~(LastPlace(a) /\ Belong(a, x)')
  BY <1>1, <1>3, <1>4 DEF Starts
<1>8. x \in Ends'
  BY <1>1, <1>3, <1>4 DEF Ends
<1> QED BY <1>1, <1>5, <1>6, <1>7, <1>8

-----------------------------------------------------------------------------
(* The steps of the walk among the stretches. *)

LEMMA CurrentIsAStretch ==
    ASSUME FoundInv, Open
    PROVE  cur \in Stretches
<1>1. PICK b, e : LastStretch(b, e)
  BY DEF FoundInv, OpenIsLast
<1>2. Chain(b, e) /\ cur = Stretch(b, e)
  BY <1>1 DEF LastStretch
<1> QED BY <1>2, InStretches

\* A flush makes of the segments all stretches there are.
LEMMA FlushCompletes ==
    ASSUME WalkInv, FoundInv, Flush
    PROVE  ToSet(segments') = {s \in Stretches : s.distance > 0}
<1>1. ToSet(segments) = {s \in Stretches : s.distance > 0 /\ (Open => s # cur)}
  BY DEF FoundInv, OthersFlushed
<1>2. CASE ~(Open /\ cur.distance > 0)
  <2>1. segments' = segments
    BY <1>2 DEF Flush
  <2> QED BY <1>1, <1>2, <2>1
<1>3. CASE Open /\ cur.distance > 0
  <2>1. segments' = Append(segments, cur)
    BY <1>3 DEF Flush
  <2>2. cur \in Segment /\ segments \in Seq(Segment)
    BY <1>3, OpenIsSegment DEF WalkInv, WalkTypeOK, SegmentsOK
  <2>3. ToSet(segments') = ToSet(segments) \cup {cur}
    <3>1. /\ DOMAIN segments' = DOMAIN segments \cup {Len(segments) + 1}
          /\ segments'[Len(segments) + 1] = cur
          /\ \A k \in DOMAIN segments : segments'[k] = segments[k]
      BY <2>1, <2>2, Appended
    <3> QED BY <3>1 DEF ToSet
  <2> QED BY <1>1, <1>3, <2>3, CurrentIsAStretch
<1> QED BY <1>2, <1>3

LEMMA LegsStayInOrder ==
    ASSUME WalkInv, FoundInv, NEW m \in Maneuvers, Walk(m)
    PROVE  LegsInOrder' /\ leg' = leg
<1>1. PICK x : x = Here
  OBVIOUS
<1>2. /\ DOMAIN walked = 1..(x - 1) /\ DOMAIN walked' = 1..x /\ x \in Nat \ {0}
      /\ \A k \in 1..(x - 1) : walked'[k] = walked[k]
      /\ walked'[x].leg = leg
  BY <1>1, OneMore, InvParts
<1>3. leg' = leg /\ leg \in Nat
  BY InvParts, LegAssumption DEF Walk, WalkedOK
<1> QED BY <1>2, <1>3 DEF FoundInv, LegsInOrder

LEMMA FreeFinds ==
    ASSUME WalkInv, FoundInv, NEW m \in Maneuvers, Free(m)
    PROVE  FoundInv'
<1>1. PICK x : x = Here
  OBVIOUS
<1>2. /\ WalkedOK /\ Walk(m) /\ ~(RateOf(m) > 0) /\ m.length \in Nat
      /\ ~Open /\ ~Open' /\ segments' = segments
  BY InvParts, ManeuverFacts DEF Free, NoFlush, Open
<1>3. Places' = Places /\ Starts' = Starts /\ Ends' = Ends /\ Stretches' = Stretches
  BY <1>1, <1>2, UntolledStep
<1>4. LegsInOrder' /\ leg' = leg
  BY <1>2, LegsStayInOrder
<1>5. EveryPlaceEnds' /\ OthersFlushed'
  BY <1>2, <1>3 DEF FoundInv, EveryPlaceEnds, OthersFlushed
<1>6. ClosedForGood'
  <2> SUFFICES ASSUME NEW p \in Places, LastPlace(p)', walked'[p].leg = leg'
               PROVE  Distance(p + 1, Len(walked))' >= BridgeGap
    BY <1>3 DEF ClosedForGood
  <2>1. /\ x \in Nat \ {0} /\ Len(walked) = x - 1 /\ Len(walked') = x
        /\ p \in 1..(x - 1) /\ walked'[p] = walked[p]
        /\ \A k \in 1..(x - 1) : TolledAt(k)' <=> TolledAt(k)
    BY <1>1, <1>2, OneMore, OneMorePlace
  <2>2. LastPlace(p)
    <3>1. \A k \in (p + 1)..(x - 1) : k \in (p + 1)..x /\ k \in 1..(x - 1)
      BY <2>1
    <3> QED BY <2>1, <3>1 DEF LastPlace
  <2>3. Distance(p + 1, x - 1) >= BridgeGap
    BY <1>2, <1>4, <2>1, <2>2 DEF FoundInv, ClosedForGood
  <2>4. Distance(p + 1, x)' = Distance(p + 1, x - 1) + m.length /\ Distance(p + 1, x - 1) \in Nat
    <3>1. p + 1 \in 1..x /\ x - 1 \in 0..(x - 1)
      BY <2>1
    <3> QED BY <1>1, <1>2, <3>1, OneMoreDistance
  <2>5. Distance(p + 1, Len(walked))' = Distance(p + 1, x)'
    BY <2>1
  <2> QED BY <1>2, <2>3, <2>4, <2>5, LengthAssumption
<1>7. OpenIsLast'
  BY <1>2 DEF OpenIsLast
<1> QED BY <1>4, <1>5, <1>6, <1>7 DEF FoundInv

\* Where the last stretch lies, seen from the next maneuver.
LEMMA LastStretchPlaces ==
    ASSUME WalkedOK, NEW m \in Maneuvers, Walk(m), NEW x, x = Here,
           NEW b, NEW e, LastStretch(b, e)
    PROVE  /\ x \in Nat \ {0} /\ Len(walked) = x - 1 /\ Len(walked') = x
           /\ b \in Places /\ e \in Places /\ b \in 1..(x - 1) /\ e \in 1..(x - 1) /\ b <= e
           /\ walked'[e] = walked[e] /\ At(e)' = At(e)
           /\ Stretch(b, e)' = Stretch(b, e)
           /\ LastPlace(e) /\ \A p \in Places : LastPlace(p) => p = e
<1>1. /\ x \in Nat \ {0} /\ Len(walked) = x - 1 /\ Len(walked') = x
      /\ DOMAIN walked = 1..(x - 1)
      /\ \A k \in 1..(x - 1) : walked'[k] = walked[k]
  BY OneMore
<1>2. Places \subseteq 1..(x - 1) /\ \A k \in 1..(x - 1) : At(k)' = At(k)
  BY OneMorePlace
<1>3. b \in Places /\ e \in Places /\ b <= e /\ \A p \in Places : p <= e
  BY StartsAndEnds DEF LastStretch, Chain
<1>4. b \in 1..(x - 1) /\ e \in 1..(x - 1)
  BY <1>2, <1>3
<1>5. Stretch(b, e)' = Stretch(b, e)
  BY <1>4, SameBefore
<1>6. LastPlace(e)
  <2> SUFFICES ASSUME NEW k \in (e + 1)..Len(walked) PROVE ~TolledAt(k)
    BY <1>3 DEF LastPlace
  <2>1. k \in DOMAIN walked /\ ~(k <= e)
    BY <1>1, <1>4
  <2> QED BY <1>3, <2>1 DEF Places
<1>7. \A p \in Places : LastPlace(p) => p = e
  <2> SUFFICES ASSUME NEW p \in Places, LastPlace(p), p # e PROVE FALSE
    OBVIOUS
  <2>1. p <= e /\ p \in 1..(x - 1)
    BY <1>2, <1>3
  <2>2. e \in (p + 1)..Len(walked)
    BY <1>1, <1>4, <2>1
  <2>3. TolledAt(e)
    BY <1>3 DEF Places
  <2> QED BY <2>2, <2>3 DEF LastPlace
<1> QED BY <1>1, <1>2, <1>3, <1>4, <1>5, <1>6, <1>7

LEMMA GapFinds ==
    ASSUME WalkInv, FoundInv, NEW m \in Maneuvers, Gap(m)
    PROVE  FoundInv'
<1>1. PICK x : x = Here
  OBVIOUS
<1>2. /\ WalkedOK /\ Walk(m) /\ ~(RateOf(m) > 0) /\ m.length \in Nat
      /\ Open /\ gap.length \in Nat /\ BridgeGap \in Nat
  BY InvParts, ManeuverFacts, LengthAssumption DEF Gap, CurrentOK
<1>3. Places' = Places /\ Starts' = Starts /\ Ends' = Ends /\ Stretches' = Stretches
  BY <1>1, <1>2, UntolledStep
<1>4. LegsInOrder' /\ leg' = leg
  BY <1>2, LegsStayInOrder
<1>5. EveryPlaceEnds'
  BY <1>3 DEF FoundInv, EveryPlaceEnds
<1>6. PICK b, e : LastStretch(b, e)
  BY <1>2 DEF FoundInv, OpenIsLast
<1>7. /\ x \in Nat \ {0} /\ Len(walked) = x - 1 /\ Len(walked') = x
      /\ b \in 1..(x - 1) /\ e \in 1..(x - 1) /\ e \in Places
      /\ walked'[e] = walked[e] /\ At(e)' = At(e) /\ Stretch(b, e)' = Stretch(b, e)
  BY <1>1, <1>2, <1>6, LastStretchPlaces
<1>8. Distance(e + 1, Len(walked))' = gap.length + m.length
  <2>1. e + 1 \in 1..x
    BY <1>7
  <2>2. Distance(e + 1, x)' = Distance(e + 1, x - 1) + m.length
    BY <1>1, <1>2, <2>1, OneMoreDistance
  <2>3. gap.length = Distance(e + 1, x - 1)
    BY <1>6, <1>7 DEF LastStretch
  <2>4. Distance(e + 1, Len(walked))' = Distance(e + 1, x)'
    BY <1>7
  <2> QED BY <2>2, <2>3, <2>4
<1>9. CASE gap.length + m.length < BridgeGap
  <2>1. cur' = cur /\ gap'.length = gap.length + m.length /\ segments' = segments
    BY <1>2, <1>9 DEF Gap, NoFlush
  <2>2. Open'
    BY <1>2, <2>1 DEF Open
  <2>3. LastStretch(b, e)'
    BY <1>3, <1>4, <1>6, <1>7, <1>8, <2>1 DEF LastStretch, Chain
  <2>4. ClosedForGood' /\ OthersFlushed'
    BY <1>2, <1>3, <2>1, <2>2 DEF FoundInv, ClosedForGood, OthersFlushed
  <2> QED BY <1>4, <1>5, <2>3, <2>4 DEF FoundInv, OpenIsLast
<1>10. CASE gap.length + m.length >= BridgeGap
  <2>1. cur' = Closed /\ ~Open' /\ Flush
    BY <1>2, <1>10 DEF Gap, Open
  <2>2. OthersFlushed'
    BY <1>3, <2>1, FlushCompletes DEF OthersFlushed
  <2>3. ClosedForGood'
    <3> SUFFICES ASSUME NEW p \in Places, LastPlace(p)'
                 PROVE  Distance(p + 1, Len(walked))' >= BridgeGap
      BY <1>3 DEF ClosedForGood
    <3>1. p <= e /\ p \in 1..(x - 1)
      BY <1>1, <1>2, <1>6, OneMorePlace DEF LastStretch
    <3>2. TolledAt(e)'
      BY <1>3, <1>7 DEF Places
    <3>3. p < e => e \in (p + 1)..Len(walked')
      BY <1>7, <3>1
    <3>4. p = e
      BY <1>7, <3>1, <3>2, <3>3 DEF LastPlace
    <3> QED BY <1>8, <1>10, <3>4
  <2>4. OpenIsLast'
    BY <2>1 DEF OpenIsLast
  <2> QED BY <1>4, <1>5, <2>2, <2>3, <2>4 DEF FoundInv
<1> QED BY <1>2, <1>9, <1>10

\* What a tolled maneuver that begins a segment cannot belong to.
LEMMA NothingBelongs ==
    ASSUME WalkInv, FoundInv, NEW m \in Maneuvers, Begin(m), NEW x, x = Here,
           NEW p \in Places, LastPlace(p)
    PROVE  ~Belong(p, x)'
<1>1. WalkedOK /\ Walk(m)
  BY InvParts DEF Begin
<1>2. /\ x \in Nat \ {0} /\ Len(walked) = x - 1 /\ p \in 1..(x - 1)
      /\ walked'[p] = walked[p] /\ At(p)' = At(p)
      /\ walked'[x].leg = leg /\ At(x)' = m
  <2>1. /\ x \in Nat \ {0} /\ Len(walked) = x - 1 /\ walked'[x].leg = leg
        /\ \A k \in 1..(x - 1) : walked'[k] = walked[k]
    BY <1>1, OneMore
  <2>2. p \in 1..(x - 1) /\ At(x)' = m /\ \A k \in 1..(x - 1) : At(k)' = At(k)
    BY <1>1, OneMorePlace
  <2> QED BY <2>1, <2>2
<1>3. CASE Open
  <2>1. PICK b, e : LastStretch(b, e)
    BY <1>3 DEF FoundInv, OpenIsLast
  <2>2. p = e
    BY <1>1, <2>1, LastStretchPlaces
  <2>3. At(p).region # m.region
    BY <1>3, <2>1, <2>2 DEF LastStretch, Begin
  <2> QED BY <1>2, <2>3 DEF Belong
<1>4. CASE ~Open
  <2>1. walked[p].leg # leg \/ Distance(p + 1, x - 1) >= BridgeGap
    BY <1>2, <1>4 DEF FoundInv, ClosedForGood
  <2>2. Distance(p + 1, x - 1)' = Distance(p + 1, x - 1) /\ Distance(p + 1, x - 1) \in Nat
    <3>1. p + 1 \in 1..x /\ x - 1 \in 0..(x - 1)
      BY <1>2
    <3> QED BY <1>1, <3>1, OneMoreDistance
  <2> QED BY <1>2, <2>1, <2>2, LengthAssumption DEF Belong
<1> QED BY <1>3, <1>4

LEMMA BeginFinds ==
    ASSUME WalkInv, FoundInv, NEW m \in Maneuvers, Begin(m)
    PROVE  FoundInv'
<1>1. PICK x : x = Here
  OBVIOUS
<1>2. /\ WalkedOK /\ Walk(m) /\ RateOf(m) > 0 /\ m.length \in Nat /\ m.region \in Regions
      /\ Flush /\ cur' = Start(m) /\ gap' = NoGap
  BY InvParts, ManeuverFacts DEF Begin
<1>3. LegsInOrder' /\ leg' = leg
  BY <1>2, LegsStayInOrder
<1>4. /\ x \in Nat \ {0} /\ Len(walked) = x - 1 /\ Len(walked') = x
      /\ walked'[x].leg = leg /\ walked \in Seq(Stops)
  BY <1>1, <1>2, OneMore
<1>5. /\ Places' = Places \cup {x} /\ Places \subseteq 1..(x - 1)
      /\ \A a \in Places : a \in Starts' <=> a \in Starts
      /\ \A c \in Places : c \in Ends' <=> c \in Ends /\ ~(LastPlace(c) /\ Belong(c, x)')
      /\ x \in Starts' <=> \A a \in Places : ~(LastPlace(a) /\ Belong(a, x)')
      /\ x \in Ends'
  BY <1>1, <1>2, TolledStep
<1>6. Starts' = Starts \cup {x} /\ Ends' = Ends \cup {x}
  <2>1. \A p \in Places : LastPlace(p) => ~Belong(p, x)'
    BY <1>1, NothingBelongs
  <2>2. Starts \subseteq Places /\ Ends \subseteq Places
    BY StartsAndEnds
  <2>3. Starts' \subseteq Places' /\ Ends' \subseteq Places'
    BY DEF Starts, Ends
  <2> QED BY <1>5, <2>1, <2>2, <2>3
<1>7. EveryPlaceEnds'
  BY <1>4, <1>5, <1>6 DEF FoundInv, EveryPlaceEnds
<1>8. \A a, c : Chain(a, c)' <=> Chain(a, c) \/ (a = x /\ c = x)
  <2> TAKE a, c
  <2>1. Starts \subseteq 1..(x - 1) /\ Ends \subseteq 1..(x - 1)
    BY <1>5, StartsAndEnds
  <2>2. ASSUME Chain(a, c)' PROVE Chain(a, c) \/ (a = x /\ c = x)
    <3>1. a \in Starts \cup {x} /\ c \in Ends \cup {x} /\ a <= c
          /\ (Ends \cup {x}) \cap (a..(c - 1)) = {}
      BY <1>6, <2>2 DEF Chain
    <3>2. CASE a \in Starts /\ c = x
      <4>1. PICK j \in Ends : a <= j
        BY <1>5, <3>2, StartsAndEnds DEF FoundInv, EveryPlaceEnds
      <4>2. j \in a..(c - 1)
        BY <1>4, <2>1, <3>2, <4>1
      <4> QED BY <3>1, <4>1, <4>2
    <3>3. CASE c \in Ends
      <4>1. a # x
        BY <1>4, <2>1, <3>1, <3>3
      <4> QED BY <3>1, <3>3, <4>1 DEF Chain
    <3> QED BY <3>1, <3>2, <3>3
  <2>3. ASSUME Chain(a, c) PROVE Chain(a, c)'
    <3>1. x \notin a..(c - 1)
      BY <1>4, <2>1, <2>3 DEF Chain
    <3> QED BY <1>6, <2>3, <3>1 DEF Chain
  <2>4. ASSUME a = x, c = x PROVE Chain(a, c)'
    <3>1. (x..(x - 1)) = {} /\ x <= x
      BY <1>4
    <3> QED BY <1>6, <2>4, <3>1 DEF Chain
  <2> QED BY <2>2, <2>3, <2>4
<1>9. cur' = Stretch(x, x)'
  <2>1. Distance(x, x)' = Distance(x, x - 1) + m.length
    BY <1>1, <1>2, <1>4, OneMoreDistance
  <2>2. Distance(x, x - 1) = 0
    BY <1>4, DistanceIsDist, DistType
  <2>3. At(x)' = m
    BY <1>1, <1>2, OneMorePlace
  <2> QED BY <1>1, <1>2, <2>1, <2>2, <2>3 DEF Start, Stretch
<1>10. LastStretch(x, x)'
  <2>1. Chain(x, x)'
    BY <1>8
  <2>2. \A p \in Places' : p <= x
    BY <1>4, <1>5
  <2>3. walked'[x].leg = leg' /\ At(x)'.region = cur'.region
    BY <1>3, <1>4, <1>9 DEF Stretch
  <2>4. gap'.length = Distance(x + 1, Len(walked))'
    BY <1>1, <1>2, <1>4, OneMoreDistance DEF NoGap
  <2>5. \A i \in Starts' : i = x \/ \E h \in Ends' : i <= h /\ h < x
    <3> SUFFICES ASSUME NEW i \in Starts PROVE \E h \in Ends : i <= h /\ h < x
      BY <1>6
    <3>1. PICK h \in Ends : i <= h
      BY StartsAndEnds DEF FoundInv, EveryPlaceEnds
    <3>2. h < x
      BY <1>4, <1>5, <3>1, StartsAndEnds
    <3> QED BY <3>1, <3>2
  <2> QED BY <1>9, <2>1, <2>2, <2>3, <2>4, <2>5 DEF LastStretch
<1>11. cur' \in Segment /\ Open'
  <2>1. Start(m) \in Segment
    BY <1>1, <1>2, <1>4 DEF Start, Segment
  <2> QED BY <1>2, <2>1, SegmentIsOpen DEF Open
<1>12. OthersFlushed'
  <2>1. ToSet(segments') = {s \in Stretches : s.distance > 0}
    BY <1>2, FlushCompletes
  <2>2. \A s \in Stretches : s \in Stretches' /\ s # cur'
    <3> SUFFICES ASSUME NEW s \in Stretches PROVE s \in Stretches' /\ s # cur'
      OBVIOUS
    <3>1. PICK a, c : Chain(a, c) /\ s = Stretch(a, c)
      BY InStretches
    <3>2. a \in 1..(x - 1) /\ c \in 1..(x - 1)
      BY <1>5, <3>1, StartsAndEnds DEF Chain
    <3>3. s = Stretch(a, c)'
      BY <1>1, <1>2, <3>1, <3>2, SameBefore
    <3>4. s.end = c /\ cur'.end = x /\ c # x
      BY <1>1, <1>2, <1>4, <3>1, <3>2 DEF Stretch, Start
    <3> QED BY <1>8, <3>1, <3>3, <3>4, InStretches
  <2>3. \A s \in Stretches' : s # cur' => s \in Stretches
    <3> SUFFICES ASSUME NEW s \in Stretches', s # cur' PROVE s \in Stretches
      OBVIOUS
    <3>1. PICK a, c : Chain(a, c)' /\ s = Stretch(a, c)'
      BY InStretches
    <3>2. Chain(a, c)
      BY <1>8, <1>9, <3>1
    <3>3. a \in 1..(x - 1) /\ c \in 1..(x - 1)
      BY <1>5, <3>2, StartsAndEnds DEF Chain
    <3>4. s = Stretch(a, c)
      BY <1>1, <1>2, <3>1, <3>3, SameBefore
    <3> QED BY <3>2, <3>4, InStretches
  <2> QED BY <1>11, <2>1, <2>2, <2>3 DEF OthersFlushed
<1> QED BY <1>3, <1>7, <1>10, <1>11, <1>12 DEF FoundInv, OpenIsLast, ClosedForGood

LEMMA ExtendFinds ==
    ASSUME WalkInv, FoundInv, NEW m \in Maneuvers, Extend(m)
    PROVE  FoundInv'
<1>1. PICK x : x = Here
  OBVIOUS
<1>2. /\ WalkedOK /\ Walk(m) /\ RateOf(m) > 0 /\ m.length \in Nat
      /\ Open /\ cur.region = m.region /\ segments' = segments /\ gap'.length = 0
      /\ cur' = [cur EXCEPT !.distance = @ + gap.length + m.length, !.end = x]
      /\ gap.length < BridgeGap
  BY <1>1, InvParts, ManeuverFacts DEF Extend, NoFlush, CurrentOK, PendingGapIsShort, NoGap
<1>3. LegsInOrder' /\ leg' = leg
  BY <1>2, LegsStayInOrder
<1>4. PICK b, e : LastStretch(b, e)
  BY <1>2 DEF FoundInv, OpenIsLast
<1>5. /\ x \in Nat \ {0} /\ Len(walked) = x - 1 /\ Len(walked') = x
      /\ b \in Places /\ e \in Places /\ b \in 1..(x - 1) /\ e \in 1..(x - 1) /\ b <= e
      /\ walked'[e] = walked[e] /\ At(e)' = At(e)
      /\ LastPlace(e) /\ \A p \in Places : LastPlace(p) => p = e
  BY <1>1, <1>2, <1>4, LastStretchPlaces
<1>6. walked'[x].leg = leg /\ At(x)' = m /\ walked \in Seq(Stops) /\ walked' \in Seq(Stops)
  BY <1>1, <1>2, OneMore, OneMorePlace
<1>7. /\ Places' = Places \cup {x} /\ Places \subseteq 1..(x - 1)
      /\ \A a \in Places : a \in Starts' <=> a \in Starts
      /\ \A c \in Places : c \in Ends' <=> c \in Ends /\ ~(LastPlace(c) /\ Belong(c, x)')
      /\ x \in Starts' <=> \A a \in Places : ~(LastPlace(a) /\ Belong(a, x)')
      /\ x \in Ends'
  BY <1>1, <1>2, TolledStep
<1>8. gap.length = Distance(e + 1, x - 1)
  BY <1>4, <1>5 DEF LastStretch
<1>9. Belong(e, x)'
  <2>1. Distance(e + 1, x - 1)' = Distance(e + 1, x - 1)
    <3>1. e + 1 \in 1..x /\ x - 1 \in 0..(x - 1)
      BY <1>5
    <3> QED BY <1>1, <1>2, <3>1, OneMoreDistance
  <2>2. walked'[e].leg = walked'[x].leg /\ At(e)'.region = At(x)'.region
    BY <1>2, <1>4, <1>5, <1>6 DEF LastStretch
  <2> QED BY <1>2, <1>8, <2>1, <2>2 DEF Belong
<1>10. Starts' = Starts /\ Ends' = (Ends \ {e}) \cup {x}
  <2>1. Starts \subseteq Places /\ Ends \subseteq Places
    BY StartsAndEnds
  <2>2. Starts' \subseteq Places' /\ Ends' \subseteq Places'
    BY DEF Starts, Ends
  <2>3. x \notin Starts' /\ x \notin Places
    BY <1>5, <1>7, <1>9
  <2> QED BY <1>5, <1>7, <1>9, <2>1, <2>2, <2>3
<1>11. /\ Starts \subseteq 1..(x - 1) /\ Ends \subseteq 1..(x - 1)
       /\ \A c \in Ends : c <= e
       /\ Chain(b, e) /\ \A i \in Starts : i = b \/ \E h \in Ends : i <= h /\ h < b
  BY <1>4, <1>7, StartsAndEnds DEF LastStretch
<1>12. EveryPlaceEnds'
  BY <1>5, <1>7 DEF EveryPlaceEnds
<1>13. \A a : Chain(a, e) => a = b
  <2> SUFFICES ASSUME NEW a, Chain(a, e), a # b PROVE FALSE
    OBVIOUS
  <2>1. PICK h \in Ends : a <= h /\ h < b
    BY <1>11 DEF Chain
  <2>2. h \in a..(e - 1)
    BY <1>5, <1>11, <2>1 DEF Chain
  <2> QED BY <2>1, <2>2 DEF Chain
<1>14. Chain(b, x)'
  <2> SUFFICES ASSUME NEW h \in Ends \ {e}, h \in b..(x - 1) PROVE FALSE
    BY <1>5, <1>10, <1>11 DEF Chain
  <2>1. h \in b..(e - 1)
    BY <1>5, <1>11
  <2> QED BY <1>11, <2>1 DEF Chain
<1>15. \A a, c : Chain(a, c)' => (Chain(a, c) /\ c # e) \/ (a = b /\ c = x)
  <2> SUFFICES ASSUME NEW a, NEW c, Chain(a, c)'
               PROVE  (Chain(a, c) /\ c # e) \/ (a = b /\ c = x)
    OBVIOUS
  <2>1. /\ a \in Starts /\ c \in (Ends \ {e}) \cup {x} /\ a <= c
        /\ ((Ends \ {e}) \cup {x}) \cap (a..(c - 1)) = {}
    BY <1>10 DEF Chain
  <2>2. CASE c = x
    <3> SUFFICES ASSUME a # b PROVE FALSE
      BY <2>2
    <3>1. PICK h \in Ends : a <= h /\ h < b
      BY <1>11, <2>1
    <3>2. h # e /\ h \in a..(c - 1)
      BY <1>5, <1>11, <2>1, <2>2, <3>1
    <3> QED BY <2>1, <3>1, <3>2
  <2>3. CASE c \in Ends \ {e}
    <3>1. e \notin a..(c - 1)
      BY <1>5, <1>11, <2>1, <2>3
    <3> QED BY <2>1, <2>3, <3>1 DEF Chain
  <2> QED BY <2>1, <2>2, <2>3
<1>16. \A a, c : Chain(a, c) /\ c # e => Chain(a, c)'
  <2> SUFFICES ASSUME NEW a, NEW c, Chain(a, c), c # e PROVE Chain(a, c)'
    OBVIOUS
  <2>1. x \notin a..(c - 1)
    BY <1>5, <1>11 DEF Chain
  <2> QED BY <1>10, <2>1 DEF Chain
<1>17. cur' = Stretch(b, x)'
  <2>1. Distance(b, x)' = Distance(b, x - 1) + m.length
    BY <1>1, <1>2, <1>5, OneMoreDistance
  <2>2. Distance(b, x - 1) = Distance(b, e) + Distance(e + 1, x - 1)
    <3>1. /\ b \in Nat \ {0} /\ e \in Nat /\ x - 1 \in 0..Len(walked)
          /\ b <= e + 1 /\ e <= x - 1
      BY <1>5
    <3> QED BY <1>6, <3>1, DistAddsUp, DistanceIsDist
  <2>3. cur = Stretch(b, e) /\ At(b)' = At(b)
    BY <1>1, <1>2, <1>4, <1>5, OneMorePlace DEF LastStretch
  <2>4. Distance(b, x)' = Distance(b, e) + gap.length + m.length
    <3>1. Distance(b, e) \in Nat /\ Distance(e + 1, x - 1) \in Nat
      <4>1. b \in 1..x /\ e \in 0..(x - 1) /\ e + 1 \in 1..x /\ x - 1 \in 0..(x - 1)
        BY <1>5
      <4> QED BY <1>1, <1>2, <4>1, OneMoreDistance
    <3> QED BY <1>2, <1>8, <2>1, <2>2, <3>1
  <2> QED BY <1>2, <2>3, <2>4 DEF Stretch
<1>18. LastStretch(b, x)'
  <2>1. \A p \in Places' : p <= x
    BY <1>5, <1>7
  <2>2. walked'[x].leg = leg' /\ At(x)'.region = cur'.region
    <3>1. cur'.region = cur.region
      BY <1>2, <1>4 DEF LastStretch, Stretch
    <3> QED BY <1>2, <1>3, <1>6, <3>1
  <2>3. gap'.length = Distance(x + 1, Len(walked))'
    BY <1>1, <1>2, <1>5, OneMoreDistance
  <2>4. \A i \in Starts' : i = b \/ \E h \in Ends' : i <= h /\ h < b
    <3>1. \A h \in Ends : h < b => h \in Ends'
      BY <1>5, <1>10
    <3> QED BY <1>10, <1>11, <3>1
  <2> QED BY <1>14, <1>17, <2>1, <2>2, <2>3, <2>4 DEF LastStretch
<1>19. Open'
  <2>1. cur'.region = m.region
    BY <1>2, <1>4 DEF LastStretch, Stretch
  <2>2. m.region \in Regions
    BY <1>2, ManeuverFacts
  <2> QED BY <2>1, <2>2, RegionAssumption DEF Open, Closed
<1>20. OthersFlushed'
  <2>1. ToSet(segments') = {s \in Stretches : s.distance > 0 /\ s # cur}
    BY <1>2 DEF FoundInv, OthersFlushed
  <2>2. cur.end = e /\ cur'.end = x /\ cur = Stretch(b, e)
    BY <1>4, <1>17 DEF LastStretch, Stretch
  <2>3. \A s \in Stretches : s # cur => s \in Stretches' /\ s # cur'
    <3> SUFFICES ASSUME NEW s \in Stretches, s # cur PROVE s \in Stretches' /\ s # cur'
      OBVIOUS
    <3>1. PICK a, c : Chain(a, c) /\ s = Stretch(a, c)
      BY InStretches
    <3>2. a \in 1..(x - 1) /\ c \in 1..(x - 1)
      BY <1>11, <3>1 DEF Chain
    <3>3. c # e
      BY <1>13, <2>2, <3>1
    <3>4. s = Stretch(a, c)'
      BY <1>1, <1>2, <3>1, <3>2, SameBefore
    <3>5. s.end = c /\ c # x
      BY <1>5, <3>1, <3>2 DEF Stretch
    <3> QED BY <1>16, <2>2, <3>1, <3>3, <3>4, <3>5, InStretches
  <2>4. \A s \in Stretches' : s # cur' => s \in Stretches /\ s # cur
    <3> SUFFICES ASSUME NEW s \in Stretches', s # cur' PROVE s \in Stretches /\ s # cur
      OBVIOUS
    <3>1. PICK a, c : Chain(a, c)' /\ s = Stretch(a, c)'
      BY InStretches
    <3>2. Chain(a, c) /\ c # e
      BY <1>15, <1>17, <3>1
    <3>3. a \in 1..(x - 1) /\ c \in 1..(x - 1)
      BY <1>11, <3>2 DEF Chain
    <3>4. s = Stretch(a, c) /\ s.end = c
      <4>1. s = Stretch(a, c)
        BY <1>1, <1>2, <3>1, <3>3, SameBefore
      <4> QED BY <4>1 DEF Stretch
    <3> QED BY <2>2, <3>2, <3>4, InStretches
  <2> QED BY <1>19, <2>1, <2>3, <2>4 DEF OthersFlushed
<1> QED BY <1>3, <1>12, <1>18, <1>19, <1>20 DEF FoundInv, OpenIsLast, ClosedForGood

LEMMA EndLegFinds ==
    ASSUME WalkInv, FoundInv, EndLeg
    PROVE  FoundInv'
<1>1. /\ walked' = walked /\ leg' = leg + 1 /\ leg \in Nat /\ cur' = Closed /\ ~Open'
      /\ walked \in Seq(Stops)
  BY InvParts, LegAssumption DEF EndLeg, Open, WalkedOK, Stops
<1>2. Places' = Places /\ Starts' = Starts /\ Ends' = Ends /\ Stretches' = Stretches
  BY <1>1 DEF Places, Starts, Ends, Stretches, Stretch, Neighbours, Belong, Distance, TolledAt, At
<1>3. \A i \in DOMAIN walked : walked[i].leg \in Nat /\ walked[i].leg <= leg
  <2>1. \A i \in DOMAIN walked : walked[i] \in Stops
    <3> HIDE DEF Stops
    <3> QED BY <1>1
  <2> QED BY <2>1, LegAssumption DEF FoundInv, LegsInOrder, Stops
<1>4. LegsInOrder'
  BY <1>1, <1>3 DEF LegsInOrder
<1>5. ClosedForGood'
  BY <1>1, <1>3 DEF ClosedForGood, Places
<1>6. EveryPlaceEnds'
  BY <1>2 DEF FoundInv, EveryPlaceEnds
<1>7. OthersFlushed'
  <2>1. ToSet(segments') = {s \in Stretches : s.distance > 0}
    BY FlushCompletes DEF EndLeg
  <2> QED BY <1>1, <1>2, <2>1 DEF OthersFlushed
<1> QED BY <1>1, <1>4, <1>5, <1>6, <1>7 DEF FoundInv, OpenIsLast

LEMMA InitFound == Init => FoundInv
<1> SUFFICES ASSUME Init PROVE FoundInv
  OBVIOUS
<1>1. walked = <<>> /\ segments = <<>> /\ ~Open
  BY DEF Init, Open
<1>2. Places = {} /\ Starts = {} /\ Ends = {}
  BY <1>1 DEF Places, Starts, Ends
<1>3. Stretches = {} /\ ToSet(segments) = {}
  BY <1>1, <1>2 DEF Stretches, ToSet
<1> QED BY <1>1, <1>2, <1>3 DEF FoundInv, OpenIsLast, ClosedForGood, EveryPlaceEnds,
     LegsInOrder, OthersFlushed

LEMMA FoundStep ==
    ASSUME WalkInv, FoundInv, [Next]_vars
    PROVE  FoundInv'
<1>1. CASE UNCHANGED vars
  <2>1. Places' = Places /\ Starts' = Starts /\ Ends' = Ends /\ Stretches' = Stretches
    BY <1>1 DEF vars, Places, Starts, Ends, Stretches, Stretch, Neighbours, Belong, Distance,
       TolledAt, At
  <2>2. OpenIsLast' /\ ClosedForGood'
    BY <1>1, <2>1 DEF vars, FoundInv, OpenIsLast, LastStretch, Chain, Stretch, ClosedForGood,
       LastPlace, Open, Distance, TolledAt, At
  <2> QED BY <1>1, <2>1, <2>2 DEF vars, FoundInv, EveryPlaceEnds, LegsInOrder, OthersFlushed, Open
<1> QED BY <1>1, FreeFinds, GapFinds, BeginFinds, ExtendFinds, EndLegFinds DEF Next, Finished

LEMMA FoundInvariant == Spec => [](WalkInv /\ FoundInv)
<1>1. Init => WalkInv /\ FoundInv
  BY InitWalkInv, InitFound
<1>2. WalkInv /\ FoundInv /\ [Next]_vars => (WalkInv /\ FoundInv)'
  BY WalkStep, FoundStep
<1> QED BY <1>1, <1>2, PTL DEF Spec

\* On any route, with any regions, rates and lengths, the segments flushed and
\* the one still open are exactly the chains of neighbours that the maneuvers
\* determine, each with its place and its length (toll.go:197-241).
THEOREM TheWalkFindsTheStretches == Spec => []FindsTheStretches
<1>1. WalkInv /\ FoundInv => FindsTheStretches
  <2> SUFFICES ASSUME WalkInv, FoundInv PROVE FindsTheStretches
    OBVIOUS
  <2>1. ToSet(segments) = {s \in Stretches : s.distance > 0 /\ (Open => s # cur)}
    BY DEF FoundInv, OthersFlushed
  <2>2. Open => cur \in Stretches
    BY CurrentIsAStretch
  <2> QED BY <2>1, <2>2 DEF FindsTheStretches
<1> QED BY <1>1, FoundInvariant, PTL

=============================================================================
