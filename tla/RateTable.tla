------------------------------ MODULE RateTable ------------------------------
(***************************************************************************)
(* The rate lookup of TollCalculator.Calculate (internal/service/toll.go): *)
(* rateFor finds what a vehicle pays per kilometre in a region and keeps   *)
(* it in a memo for the rest of the route.                                 *)
(*                                                                         *)
(* Weights are in half tonnes, rates in ten-thousandths of a euro.         *)
(***************************************************************************)
EXTENDS Integers, SequencesExt

CONSTANTS
    Tables,         \* what loadRates may return: region -> configuration
    Regions,        \* country codes of maneuvers
    Weights,        \* gross weights of vehicles
    EuroClasses,
    CO2Classes,     \* 1 is the worst
    Vehicles        \* those of requests

\* A bracket is of weights from min up to, not including, max.  There may be
\* none, and weights between two of them.
Ordered(brackets) ==
    /\ brackets \in Seq(ToSet(brackets))
    /\ \A b \in ToSet(brackets) : b.min \in Nat /\ b.max \in Nat /\ b.min < b.max
    /\ \A i \in 2..Len(brackets) : brackets[i - 1].max <= brackets[i].min

\* A bracket need not have a rate for every class.
WeightClassRate(b) ==
    DOMAIN b.rates \subseteq EuroClasses /\ \A e \in DOMAIN b.rates : b.rates[e] \in Int
CO2WeightRate(b) == b.rate \in Int

Config(c) ==
    /\ c.minWeight \in Nat
    /\ Ordered(c.weightClasses) /\ \A b \in ToSet(c.weightClasses) : WeightClassRate(b)
    /\ \A k \in DOMAIN c.co2ClassRates :
           /\ Ordered(c.co2ClassRates[k])
           /\ \A b \in ToSet(c.co2ClassRates[k]) : CO2WeightRate(b)

\* The brackets begin where the toll does and leave no weight out.
Reaches(brackets, minWeight) ==
    /\ brackets # <<>> /\ brackets[1].min <= minWeight
    /\ \A i \in 2..Len(brackets) : brackets[i].min = brackets[i - 1].max

\* No weight and no Euro class without a rate; flat rates are not free.
Complete(c) ==
    /\ Reaches(c.weightClasses, c.minWeight)
    /\ \A i \in DOMAIN c.weightClasses : DOMAIN c.weightClasses[i].rates = EuroClasses
    /\ \A k \in DOMAIN c.co2ClassRates :
           /\ Reaches(c.co2ClassRates[k], c.minWeight)
           /\ \A i \in DOMAIN c.co2ClassRates[k] : c.co2ClassRates[k][i].rate > 0

\* No bracket is cheaper than a lighter one.
Rising(c) ==
    /\ \A i, j \in DOMAIN c.weightClasses : \A e \in EuroClasses :
           i < j => c.weightClasses[i].rates[e] <= c.weightClasses[j].rates[e]
    /\ \A k \in DOMAIN c.co2ClassRates : \A i, j \in DOMAIN c.co2ClassRates[k] :
           i < j => c.co2ClassRates[k][i].rate <= c.co2ClassRates[k][j].rate

ASSUME VehicleAssumption ==
    /\ Weights \subseteq Nat /\ CO2Classes \subseteq Nat
    /\ Vehicles \subseteq [weight : Weights, euro : EuroClasses, co2 : CO2Classes]
ASSUME TableAssumption == \A t \in Tables : \A r \in DOMAIN t : Config(t[r])

VARIABLES
    configs,    \* the table loaded
    vehicle,    \* its effective weight, Euro class and CO2 class
    rateCache,  \* region -> rate, for the regions met so far
    charged     \* every region asked for, with the rate returned

vars == <<configs, vehicle, rateCache, charged>>

\* loadRates falls back to defaultRates when the file cannot be read.
Init ==
    /\ configs \in Tables
    /\ vehicle \in Vehicles
    /\ rateCache = <<>>
    /\ charged = {}

-----------------------------------------------------------------------------
(* The lookup. *)

\* Mistake: a bracket does not include its lower bound.
Matches_Exclusive(b, weight) == b.min < weight /\ weight < b.max

Matches(b, weight) == b.min <= weight /\ weight < b.max

\* The first of the brackets found, or else the heaviest: none of an empty list.
Chosen(found, brackets) == IF found = {} THEN Len(brackets) ELSE Min(found)

\* A better CO2 class has flat rates in some countries.
FindCO2Rate(brackets, weight) ==
    LET i == Chosen({k \in DOMAIN brackets : Matches(brackets[k], weight)}, brackets)
    IN  IF i \in DOMAIN brackets THEN brackets[i].rate ELSE 0

\* A bracket without the class does not count.
FindWeightClassRate(brackets, weight, euro) ==
    LET has == {k \in DOMAIN brackets : euro \in DOMAIN brackets[k].rates}
        i == Chosen({k \in has : Matches(brackets[k], weight)}, brackets)
    IN  IF i \in has THEN brackets[i].rates[euro] ELSE 0

FlatRate(c, v) ==
    IF v.co2 > 1 /\ v.co2 \in DOMAIN c.co2ClassRates
    THEN FindCO2Rate(c.co2ClassRates[v.co2], v.weight) ELSE 0

\* 0 where the country is not configured or the vehicle is too light, and
\* never less.
Lookup(r, v) ==
    IF r \notin DOMAIN configs THEN 0
    ELSE LET c == configs[r]
             flat == FlatRate(c, v)
             rate == IF flat > 0 THEN flat
                     ELSE FindWeightClassRate(c.weightClasses, v.weight, v.euro)
         IN  IF v.weight < c.minWeight \/ rate < 0 THEN 0 ELSE rate

\* Mistake: the memo is kept per country, not per region.
MemoKey_Country(r) == IF r \in DOMAIN configs THEN configs[r].country ELSE r

MemoKey(r) == r

RateForKnown(r) ==
    /\ MemoKey(r) \in DOMAIN rateCache
    /\ charged' = charged \cup {[region |-> r, rate |-> rateCache[MemoKey(r)]]}
    /\ UNCHANGED <<configs, vehicle, rateCache>>

RateForNew(r) ==
    /\ MemoKey(r) \notin DOMAIN rateCache
    /\ rateCache' = [k \in DOMAIN rateCache \cup {MemoKey(r)} |->
                        IF k = MemoKey(r) THEN Lookup(r, vehicle) ELSE rateCache[k]]
    /\ charged' = charged \cup {[region |-> r, rate |-> Lookup(r, vehicle)]}
    /\ UNCHANGED <<configs, vehicle>>

-----------------------------------------------------------------------------
(* Properties *)

\* Wherever a route goes and however often it comes back, a region is charged
\* at one rate, from the region's own table: the flat rate of the vehicle's CO2
\* class when there is one, else the rate of its Euro class, in either case of the
\* bracket its weight lies in, or of the heaviest bracket when none has a rate for
\* it, and nothing when that has none either (toll.go:72-101, 299-329).
Weighed(brackets) == {b \in ToSet(brackets) : vehicle.weight \in b.min..(b.max - 1)}
Heaviest(brackets) == {brackets[i] : i \in {i \in DOMAIN brackets : i = Len(brackets)}}

Rates(brackets) == {b.rates[vehicle.euro] : b \in {b \in brackets : vehicle.euro \in DOMAIN b.rates}}
FlatRates(brackets) == {b.rate : b \in brackets}

\* The first of two sets that is not empty; no rate is one of nothing.
OrElse(S, T) == IF S # {} THEN S ELSE T
DueByClass(c) ==
    OrElse(OrElse(Rates(Weighed(c.weightClasses)), Rates(Heaviest(c.weightClasses))), {0})
DueByCO2(c) ==
    IF vehicle.co2 \in DOMAIN c.co2ClassRates \ {0, 1}
    THEN LET brackets == c.co2ClassRates[vehicle.co2]
         IN  OrElse(FlatRates(Weighed(brackets)), FlatRates(Heaviest(brackets)))
    ELSE {}

Due(r) ==
    IF r \notin DOMAIN configs THEN {0}
    ELSE IF vehicle.weight < configs[r].minWeight THEN {0}
    ELSE OrElse({rate \in DueByCO2(configs[r]) : rate > 0},
                {IF rate < 0 THEN 0 ELSE rate : rate \in DueByClass(configs[r])})

ChargesTheBracket == \A p \in charged : Due(p.region) = {p.rate}

\* Where a table is complete and rises, what is charged never falls with the
\* weight: no lighter vehicle of the same classes pays more, on either side of
\* every bracket and above the last (toll.go:299-329 over
\* internal/data/toll_rates.json).
HeavierPaysNoLess ==
    \A p \in charged :
        (p.region \in DOMAIN configs => Complete(configs[p.region]) /\ Rising(configs[p.region])) =>
            \A w \in {w \in Weights : w < vehicle.weight} :
                Lookup(p.region, [vehicle EXCEPT !.weight = w]) <= p.rate

=============================================================================
