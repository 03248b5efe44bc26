----------------------------- MODULE CountrySplit -----------------------------
(***************************************************************************)
(* How the maneuvers of a leg get their countries, in                      *)
(* internal/service/valhalla.go: splitManeuverByCountry looks up the       *)
(* points of a maneuver and splits it where the country changes, then      *)
(* fillManeuverCountries fills the maneuvers that got none.                *)
(*                                                                         *)
(* The shape of the leg has points 0..LastPoint; raw[i] is the country in  *)
(* which point i lies, or Unknown, and Hop[i] is the distance from it to   *)
(* the next.  The engine's lengths and times are counted in units so small *)
(* that every share of them is a whole number.                             *)
(***************************************************************************)
EXTENDS Integers, SequencesExt

CONSTANTS
    Countries,
    LastPoint,      \* bound of the model: index of the last point
    Hop,            \* distance from each point but the last to the next
    Lengths, Times, \* those the engine gives a maneuver
    LongLength,     \* a maneuver this long is looked into: 15 km
    MaxManeuvers    \* bound of the model: maneuvers of the leg

Unknown == ""

Points == 0..LastPoint

\* shapeDist: the distance along the shape.
ShapeDist(from, to) == SumFunctionOnSet(Hop, from..(to - 1))

ASSUME PointAssumption == LastPoint \in Nat \ {0} /\ MaxManeuvers \in Nat \ {0}
ASSUME HopAssumption == Hop \in [0..(LastPoint - 1) -> Nat]
ASSUME UnitAssumption ==
    /\ Lengths \subseteq Nat /\ Times \subseteq Nat
    /\ \A x \in Lengths \cup Times : \A i, j \in Points :
           ShapeDist(i, j) > 0 => \E unit \in 0..x : x = unit * ShapeDist(i, j)

VARIABLES
    raw,        \* regionAwareCountry of each point
    maneuvers,  \* the maneuvers of the engine split so far, as it gave them
    parts,      \* what they were split into
    state       \* "split", "fill" or "filled"

vars == <<raw, maneuvers, parts, state>>

\* A maneuver from one point to another, as long as the engine says.
Maneuver == [begin : Points, end : Points, length : Lengths, time : Times]

\* Points at no distance from each other are one place.
Init ==
    /\ raw \in [Points -> Countries \cup {Unknown}]
    /\ \A i \in 0..(LastPoint - 1) : Hop[i] = 0 => raw[i] = raw[i + 1]
    /\ maneuvers = <<>>
    /\ parts = <<>>
    /\ state = "split"

-----------------------------------------------------------------------------
(* splitManeuverByCountry *)

\* Mistake: each part is apportioned what was driven up to its end.
Share_UpToEnd(m, x, from, to) ==
    LET total == ShapeDist(m.begin, m.end)
    IN  IF total > 0 THEN (x \div total) * ShapeDist(m.begin, to) ELSE x

\* The share of x, the length or the time of the maneuver, from one of its
\* points to another.
Share(m, x, from, to) ==
    LET total == ShapeDist(m.begin, m.end)
    IN  IF total > 0 THEN (x \div total) * ShapeDist(from, to) ELSE x

Part(m, c, from, to) == [country |-> c, begin |-> from, end |-> to,
                         length |-> Share(m, m.length, from, to),
                         time   |-> Share(m, m.time, from, to)]

\* A maneuver that is not split keeps the length and the time of the engine.
Whole(m, c) == <<[country |-> c, begin |-> m.begin, end |-> m.end,
                  length |-> m.length, time |-> m.time]>>

\* A maneuver of a single point, or a short one within a country.
SinglePoint(m) == m.end <= m.begin

FastPath(m) ==
    /\ raw[m.begin] # Unknown
    /\ raw[m.begin] = raw[m.end]
    /\ m.length < LongLength

\* Mistake: unknown ones inherit nothing.
CarryForward_Never(codes) == codes

\* Unknown ones inherit the country before them, ...
CarryForward(codes) ==
    LET carried[i \in DOMAIN codes] ==
            IF codes[i] = Unknown /\ i - 1 \in DOMAIN codes THEN carried[i - 1] ELSE codes[i]
    IN  carried

\* ... leading ones take the first known country.
FirstKnown(codes) ==
    IF \E i \in DOMAIN codes : codes[i] # Unknown
    THEN codes[CHOOSE i \in DOMAIN codes :
                   /\ codes[i] # Unknown
                   /\ \A h \in DOMAIN codes : h < i => codes[h] = Unknown]
    ELSE Unknown

FillGaps(codes) ==
    LET carried == CarryForward(codes)
    IN  [i \in DOMAIN codes |-> IF carried[i] = Unknown THEN FirstKnown(carried) ELSE carried[i]]

\* The country of each point of the maneuver.
Codes(m) == FillGaps([i \in m.begin..m.end |-> raw[i]])

\* The points where the country changes, up to each point.
Changes(m, codes) ==
    LET cuts[i \in m.begin..m.end] ==
            IF i = m.begin THEN <<i>>
            ELSE IF codes[i] # codes[i - 1] THEN Append(cuts[i - 1], i) ELSE cuts[i - 1]
    IN  cuts

\* The points where the country changes, and both ends.
Boundaries(m, codes) == Append(Changes(m, codes)[m.end], m.end)

Parts(m) ==
    LET codes  == Codes(m)
        bounds == Boundaries(m, codes)
    IN  IF Len(bounds) = 2 THEN Whole(m, codes[m.begin])
        ELSE [b \in 1..(Len(bounds) - 1) |->
                 Part(m, codes[bounds[b]], bounds[b], bounds[b + 1])]

SplitManeuver(m) ==
    IF SinglePoint(m) \/ FastPath(m) THEN Whole(m, raw[m.begin]) ELSE Parts(m)

\* Each maneuver of the engine begins where the one before ended.
Here == IF maneuvers = <<>> THEN 0 ELSE Last(maneuvers).end

Split(m) ==
    /\ state = "split"
    /\ Len(maneuvers) < MaxManeuvers
    /\ m.begin = Here /\ m.end >= m.begin
    /\ Len(maneuvers) = MaxManeuvers - 1 => m.end = LastPoint
    /\ maneuvers' = Append(maneuvers, m)
    /\ parts' = parts \o SplitManeuver(m)
    /\ UNCHANGED <<raw, state>>

SplitDone ==
    /\ state = "split"
    /\ maneuvers # <<>>
    /\ Here = LastPoint
    /\ state' = "fill"
    /\ UNCHANGED <<raw, maneuvers, parts>>

-----------------------------------------------------------------------------
(* fillManeuverCountries does with the maneuvers what was done with the points. *)

Recolour(codes) == [k \in DOMAIN parts |-> [parts[k] EXCEPT !.country = codes[k]]]

\* Mistake: leading gaps are left.
Fill_ForwardOnly ==
    /\ state = "fill"
    /\ parts' = Recolour(CarryForward([k \in DOMAIN parts |-> parts[k].country]))
    /\ state' = "filled"
    /\ UNCHANGED <<raw, maneuvers>>

Fill ==
    /\ state = "fill"
    /\ parts' = Recolour(FillGaps([k \in DOMAIN parts |-> parts[k].country]))
    /\ state' = "filled"
    /\ UNCHANGED <<raw, maneuvers>>

Filled == state = "filled"

Next ==
    \/ \E m \in Maneuver : Split(m)
    \/ SplitDone
    \/ Fill
    \/ Filled /\ UNCHANGED vars

Spec == Init /\ [][Next]_vars

-----------------------------------------------------------------------------
(* Properties *)

\* The parts tile the leg: each begins where the one before ended and none runs
\* backwards.
Tiled ==
    parts # <<>> =>
        /\ parts[1].begin = 0
        /\ Last(parts).end = Here
        /\ \A k \in DOMAIN parts : parts[k].begin <= parts[k].end
        /\ \A k \in 1..(Len(parts) - 1) : parts[k].end = parts[k + 1].begin

\* Their lengths and times add up to those of the engine's maneuvers.
TotalLength(list) == SumFunctionOnSet([k \in DOMAIN list |-> list[k].length], DOMAIN list)
TotalTime(list)   == SumFunctionOnSet([k \in DOMAIN list |-> list[k].time], DOMAIN list)

NothingAddedOrLost ==
    /\ TotalLength(parts) = TotalLength(maneuvers)
    /\ TotalTime(parts) = TotalTime(maneuvers)

\* A part has the share of its maneuver's length and time that it has of the
\* shape: part : maneuver = distance : total distance.
InProportion ==
    \A n \in DOMAIN maneuvers, k \in DOMAIN parts :
        LET m == maneuvers[n]
            p == parts[k]
        IN  m.begin <= p.begin /\ p.begin < p.end /\ p.end <= m.end =>
                /\ p.length * ShapeDist(m.begin, m.end) = m.length * ShapeDist(p.begin, p.end)
                /\ p.time * ShapeDist(m.begin, m.end) = m.time * ShapeDist(p.begin, p.end)

\* The countries share the leg out among them: wherever the borders and the
\* gaps lie, what is summed per country is exactly the length and the time of
\* the leg, each stretch at its part of the shape (valhalla.go:649-690,
\* toll_test.go:414-419).
TilesTheLeg == Tiled /\ NothingAddedOrLost /\ InProportion

\* Where a country is known anywhere on the leg, no stretch is left without
\* one, and so none drops out of the tolls (valhalla.go:396-399).
NoCountryLost ==
    Filled /\ (\E k \in DOMAIN parts : parts[k].country # Unknown) =>
        \A k \in DOMAIN parts : parts[k].country # Unknown

\* The country a hop is charged to, from the points alone.  Within its
\* maneuver: the last country known at or before the hop, else the first known
\* behind it.  A short maneuver that begins and ends in one country is charged
\* to it entirely.
Known(m) == {i \in m.begin..m.end : raw[i] # Unknown}
Owner(m, i) ==
    IF raw[m.begin] # Unknown /\ raw[m.begin] = raw[m.end] /\ m.length < LongLength THEN raw[m.begin]
    ELSE LET before == {j \in Known(m) : j <= i}
         IN  IF before # {} THEN raw[Max(before)] ELSE raw[Min(Known(m))]

\* Every hop of a maneuver with any known point is charged to that country,
\* before and after the filling (valhalla.go:599-690).
ChargesTheOwner ==
    \A n \in DOMAIN maneuvers :
        LET m == maneuvers[n]
        IN  Known(m) # {} =>
                \A i \in m.begin..(m.end - 1) : \A k \in DOMAIN parts :
                    parts[k].begin <= i /\ i < parts[k].end =>
                        parts[k].country = Owner(m, i)

\* A maneuver with no known point takes the country of the stretch before it,
\* a leading one that of the first stretch that has one (valhalla.go:396-422).
Blank(k) == \A i \in parts[k].begin..parts[k].end : raw[i] = Unknown

InheritsTheNeighbour ==
    Filled =>
        \A k \in DOMAIN parts :
            LET known  == {h \in DOMAIN parts : ~Blank(h)}
                before == {h \in known : h < k}
            IN  Blank(k) /\ known # {} =>
                    parts[k].country = parts[IF before # {} THEN Max(before)
                                                            ELSE Min(known)].country

=============================================================================
