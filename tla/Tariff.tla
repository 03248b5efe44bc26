-------------------------------- MODULE Tariff --------------------------------
(***************************************************************************)
(* What TollCalculator.Calculate (internal/service/toll.go) charges for    *)
(* each maneuver: nothing unless its street names are those of a toll road *)
(* (TollRoads), else the rate of its region (RateTable).                   *)
(***************************************************************************)
EXTENDS RateTable, TollRoads, FiniteSets

CONSTANTS
    Streets,        \* region -> the streets of maneuvers in it
    MaxRegions      \* bound of the model: regions whose rate a route asks for

\* What the patterns tell apart; a road number has at most four digits.
Gaps    == {"none", "space", "slash"}
Numbers == 0..9999
Endings == {"none", "a", "A", "b", "B"}
Signs   == [letters : STRING, gap : Gaps, number : Numbers, suffix : Endings]

ASSUME StreetAssumption ==
    \A r \in Regions : Streets[r] \subseteq [signs : SUBSET Signs, words : SUBSET STRING]

VARIABLE maneuver   \* the maneuver at hand, with the rate it is charged

tariffVars == <<vars, maneuver>>

NoManeuver == [region |-> "none"]

TariffInit == Init /\ maneuver = NoManeuver

Charged(r, street, rate) == [region |-> r, street |-> street, rate |-> rate]

ChargeNothing(r, street) ==
    /\ maneuver = NoManeuver
    /\ ~IsTollRoad(r, street)
    /\ maneuver' = Charged(r, street, 0)
    /\ UNCHANGED vars

ChargeToll(r, street) ==
    /\ maneuver = NoManeuver
    /\ IsTollRoad(r, street)
    /\ RateForKnown(r) \/ (Cardinality(DOMAIN rateCache) < MaxRegions /\ RateForNew(r))
    /\ maneuver' = Charged(r, street, rateCache'[MemoKey(r)])

\* The rest of the iteration: TollWalk.
Walk ==
    /\ maneuver # NoManeuver
    /\ maneuver' = NoManeuver
    /\ UNCHANGED vars

TariffNext ==
    \/ \E r \in Regions : \E street \in Streets[r] :
           ChargeNothing(r, street) \/ ChargeToll(r, street)
    \/ Walk

TariffSpec == TariffInit /\ [][TariffNext]_tariffVars

-----------------------------------------------------------------------------
(* Properties *)

\* A sign with another gap and suffix.
With(s, gap, suffix) == [s EXCEPT !.gap = gap, !.suffix = suffix]

\* References that are written differently and still name the same road: with
\* or without a gap, the branch in either case.
Spellings(s) ==
    {With(s, g, b) :
        g \in IF s.gap = "slash" THEN {"slash"} ELSE {"none", "space"},
        b \in {b \in Endings : Upper(b) = Upper(s.suffix)}}

\* Dutch references and those of the Romanian DN are only known without a gap.
Written(region, s) ==
    \/ s.gap # "space"
    \/ ~(region = "NL" /\ s.letters # "E") /\ ~(region = "RO" /\ s.letters = "DN")

\* A maneuver is charged what it would be charged if its signs were written
\* another way: "A 3" and "A3" are one road (toll_roads.go:60-76; the test
\* toll_test.go:348 says "Both must match").  Where a spelling is not known it
\* counts for nothing: it neither makes a street a toll road nor frees it.
OneRoadHoweverSpelled ==
    maneuver # NoManeuver =>
        LET Tolled(signs) == IsTollRoad(maneuver.region, [maneuver.street EXCEPT !.signs = signs])
            here == maneuver.street.signs
            Known(s) == Written(maneuver.region, s)
        IN  \A s \in here :
                /\ \A t \in Spellings(s) :
                       Known(s) /\ Known(t) => (Tolled(here) <=> Tolled((here \ {s}) \cup {t}))
                /\ ~Known(s) => (Tolled(here) <=> Tolled(here \ {s}))

\* A sign as a list would write it: without its gap, in upper case.
Plain(sign) == [sign EXCEPT !.gap = IF @ = "space" THEN "none" ELSE @, !.suffix = Upper(@)]

\* The toll roads of a region by its lists: in France the A-roads not listed as free, in Germany every A and
\* B road, in the Netherlands the E routes besides the list.
Listed(region, sign) ==
    LET s == Plain(sign)
    IN  CASE region = "AT" -> s \in AT_TollRoads
          [] region = "BG" -> s \in BG_TollRoads
          [] region = "CZ" -> s \in CZ_TollDalnice \/ s \in CZ_TollClassI
          [] region = "DE" -> s.gap = "none" /\ s.letters \in DE_TollPrefixes
          [] region = "ES" -> s \in ES_TollRoads
          [] region = "FR" -> s.gap = "none" /\ s.letters = "A" /\ s \notin FR_FreeAutoroutes
          [] region = "HR" -> s \in HR_TollRoads
          [] region = "HU" -> s \in HU_TollRoads
          [] region = "IT" -> s \in IT_TollRoads
          [] region = "NL" -> \/ s \in nlTollRoads
                               \/ /\ s.letters = "E" /\ s.gap = "none"
                                  /\ s.number < 1000 /\ s.suffix = "none"
          [] region = "PL" ->
                 s \in PL_TollAutostrady \/ s \in PL_TollEkspresowe \/ s \in PL_TollDrogiKrajowe
          [] region = "PT" -> s \in PT_TollRoads
          [] region = "RO" -> s \in RO_TollAutostrazi \/ s \in RO_TollDN
          [] region = "SI" -> s \in SI_TollRoads
          [] region = "SK" -> s \in SK_TollRoads
          [] region \in BelgianRegions -> s \in BE_TollMotorways \/ s \in BE_TollNRoads
          [] OTHER -> FALSE

\* Keys of the lists no sign is ever compared with: the class I roads of
\* Slovakia and the branches of the free French roads.
Unreadable(region, s) ==
    \/ region = "SK" /\ s.gap = "slash"
    \/ region = "FR" /\ s.suffix # "none"

\* A street with a road on its country's list, and any street in Switzerland,
\* is charged the rate of the region, however the sign is written, and a street
\* without one is charged nothing (toll_roads.go:12-56 over internal/data/toll_roads_eu.go).
ListedRoadsAreTolled ==
    maneuver # NoManeuver =>
        LET r == maneuver.region
            street == maneuver.street
        IN  street.words = {} /\ (\A s \in street.signs : Written(r, s) /\ ~Unreadable(r, s)) =>
                maneuver.rate = IF r = "CH" \/ \E s \in street.signs : Listed(r, s)
                                THEN Lookup(r, vehicle) ELSE 0

=============================================================================
