----------------------------- MODULE TariffProofs -----------------------------
(***************************************************************************)
(* Proofs about what a maneuver is charged, for every table of rates       *)
(* (RateTable), whatever it leaves out, every set of regions, weights and  *)
(* classes, and every street.                                              *)
(***************************************************************************)
EXTENDS Tariff, Sums

-----------------------------------------------------------------------------
(* A sequence of brackets. *)

BracketSeq(b) ==
    /\ Len(b) \in Nat /\ DOMAIN b = 1..Len(b)
    /\ \A i \in DOMAIN b : b[i].min \in Nat /\ b[i].max \in Nat /\ b[i].min < b[i].max
    /\ \A i \in 2..Len(b) : b[i - 1].max <= b[i].min

LEMMA OrderedBrackets ==
    ASSUME NEW b, Ordered(b)
    PROVE  BracketSeq(b)
<1>1. Len(b) \in Nat /\ DOMAIN b = 1..Len(b)
  BY DEF Ordered
<1>2. \A i \in DOMAIN b : b[i] \in ToSet(b)
  BY DEF ToSet
<1> QED BY <1>1, <1>2 DEF Ordered, BracketSeq

\* A bracket ends before every later one begins.
LEMMA BracketsFollow ==
    ASSUME NEW b, BracketSeq(b), NEW i \in DOMAIN b, NEW j \in DOMAIN b, i < j
    PROVE  b[i].max <= b[j].min
<1> DEFINE Wrong == {k \in DOMAIN b : i < k /\ ~(b[i].max <= b[k].min)}
<1>1. SUFFICES ASSUME Wrong # {} PROVE FALSE
  OBVIOUS
<1>2. Wrong \in SUBSET Nat
  BY DEF BracketSeq
<1>3. PICK k \in Wrong : \A h \in Wrong : k <= h
  <2> HIDE DEF Wrong
  <2> QED BY <1>1, <1>2, SmallestNumber
<1> DEFINE h == k - 1
<1>4. /\ k \in 2..Len(b) /\ i <= h /\ h \in DOMAIN b /\ ~(k <= h)
      /\ i \in Nat /\ h \in Nat
  BY DEF BracketSeq
<1>5. b[h].max <= b[k].min /\ b[h].min < b[h].max
  BY <1>4 DEF BracketSeq
<1>6. CASE h = i
  BY <1>4, <1>5, <1>6 DEF BracketSeq
<1>7. CASE i < h
  <2>1. b[i].max <= b[h].min
    BY <1>3, <1>4, <1>7
  <2>2. /\ b[i].max \in Nat /\ b[h].min \in Nat /\ b[h].max \in Nat /\ b[k].min \in Nat
    BY <1>4 DEF BracketSeq
  <2> HIDE DEF h
  <2>3. b[i].max <= b[k].min
    BY <1>5, <2>1, <2>2
  <2> QED BY <2>3
<1> HIDE DEF h
<1> QED BY <1>4, <1>6, <1>7

\* A weight lies in one bracket at most.
LEMMA OneBracket ==
    ASSUME NEW b, BracketSeq(b), NEW w \in Nat,
           NEW i \in DOMAIN b, Matches(b[i], w), NEW j \in DOMAIN b, Matches(b[j], w)
    PROVE  i = j
<1>1. /\ i \in Nat /\ b[i].min \in Nat /\ b[i].max \in Nat /\ b[i].min <= w /\ w < b[i].max
      /\ j \in Nat /\ b[j].min \in Nat /\ b[j].max \in Nat /\ b[j].min <= w /\ w < b[j].max
  BY DEF BracketSeq, Matches
<1>2. ~(i < j)
  BY <1>1, BracketsFollow
<1>3. ~(j < i)
  BY <1>1, BracketsFollow
<1> QED BY <1>1, <1>2, <1>3

\* What is picked: the one bracket found, or the last.
LEMMA ChosenFacts ==
    ASSUME NEW b, BracketSeq(b), NEW w \in Nat,
           NEW found, found \subseteq {k \in DOMAIN b : Matches(b[k], w)}
    PROVE  /\ found = {} => Chosen(found, b) = Len(b)
           /\ \A i \in found : found = {i} /\ Chosen(found, b) = i
<1>1. found = {} => Chosen(found, b) = Len(b)
  BY DEF Chosen
<1>2. ASSUME NEW i \in found
      PROVE  found = {i} /\ Chosen(found, b) = i
  <2>0. \A j \in found : j = i
    <3> TAKE j \in found
    <3>1. /\ i \in DOMAIN b /\ Matches(b[i], w)
          /\ j \in DOMAIN b /\ Matches(b[j], w)
      BY <1>2
    <3> QED BY <3>1, OneBracket
  <2>1. i \in DOMAIN b /\ i \in Nat /\ found = {i}
    BY <1>2, <2>0 DEF BracketSeq
  <2>2. Min({i}) = i
    BY <2>1 DEF Min
  <2> QED BY <2>1, <2>2 DEF Chosen
<1> QED BY <1>1, <1>2

-----------------------------------------------------------------------------
(* The table loaded. *)

LEMMA ConfigFacts ==
    ASSUME configs \in Tables, NEW r \in DOMAIN configs
    PROVE  LET c == configs[r]
           IN  /\ c.minWeight \in Nat
               /\ BracketSeq(c.weightClasses)
               /\ \A i \in DOMAIN c.weightClasses : \A e \in DOMAIN c.weightClasses[i].rates :
                      c.weightClasses[i].rates[e] \in Int
               /\ \A k \in DOMAIN c.co2ClassRates :
                      LET b == c.co2ClassRates[k]
                      IN  BracketSeq(b) /\ \A i \in DOMAIN b : b[i].rate \in Int
<1> DEFINE c == configs[r]
<1>1. Config(c)
  BY TableAssumption
<1> HIDE DEF c
<1>2. \A b : \A i \in DOMAIN b : b[i] \in ToSet(b)
  BY DEF ToSet
<1>3. \A i \in DOMAIN c.weightClasses : \A e \in DOMAIN c.weightClasses[i].rates :
          c.weightClasses[i].rates[e] \in Int
  BY <1>1, <1>2 DEF Config, WeightClassRate
<1>4. \A k \in DOMAIN c.co2ClassRates :
          /\ BracketSeq(c.co2ClassRates[k])
          /\ \A i \in DOMAIN c.co2ClassRates[k] : c.co2ClassRates[k][i].rate \in Int
  BY <1>1, <1>2, OrderedBrackets DEF Config, CO2WeightRate
<1>5. c.minWeight \in Nat /\ BracketSeq(c.weightClasses)
  BY <1>1, OrderedBrackets DEF Config
<1> QED BY <1>3, <1>4, <1>5 DEF c

AnyVehicle == [weight : Weights, euro : EuroClasses, co2 : CO2Classes]

LEMMA VehicleFacts ==
    ASSUME NEW v \in AnyVehicle
    PROVE  v.weight \in Weights /\ v.weight \in Nat /\ v.euro \in EuroClasses /\ v.co2 \in Nat
BY VehicleAssumption DEF AnyVehicle

LEMMA RatesAreNumbers ==
    ASSUME configs \in Tables, NEW r \in DOMAIN configs, NEW v \in AnyVehicle
    PROVE  LET c == configs[r]
           IN  /\ FlatRate(c, v) \in Int
               /\ FindWeightClassRate(c.weightClasses, v.weight, v.euro) \in Int
<1> DEFINE c == configs[r]
<1>0. /\ \A i \in DOMAIN c.weightClasses : \A e \in DOMAIN c.weightClasses[i].rates :
             c.weightClasses[i].rates[e] \in Int
      /\ \A k \in DOMAIN c.co2ClassRates : \A i \in DOMAIN c.co2ClassRates[k] :
             c.co2ClassRates[k][i].rate \in Int
  BY ConfigFacts
<1> HIDE DEF c
<1>1. FlatRate(c, v) \in Int
  <2> DEFINE b == c.co2ClassRates[v.co2]
             i == Chosen({k \in DOMAIN b : Matches(b[k], v.weight)}, b)
  <2>1. FindCO2Rate(b, v.weight) = IF i \in DOMAIN b THEN b[i].rate ELSE 0
    BY DEF FindCO2Rate
  <2>2. v.co2 \in DOMAIN c.co2ClassRates => \A k \in DOMAIN b : b[k].rate \in Int
    BY <1>0
  <2>3. FlatRate(c, v) = IF v.co2 > 1 /\ v.co2 \in DOMAIN c.co2ClassRates
                         THEN FindCO2Rate(b, v.weight) ELSE 0
    BY DEF FlatRate
  <2> HIDE DEF b, i
  <2> QED BY <2>1, <2>2, <2>3
<1>2. FindWeightClassRate(c.weightClasses, v.weight, v.euro) \in Int
  <2> DEFINE b == c.weightClasses
             has == {k \in DOMAIN b : v.euro \in DOMAIN b[k].rates}
             i == Chosen({k \in has : Matches(b[k], v.weight)}, b)
  <2>1. FindWeightClassRate(b, v.weight, v.euro) = IF i \in has THEN b[i].rates[v.euro] ELSE 0
    BY DEF FindWeightClassRate
  <2>2. \A k \in has : b[k].rates[v.euro] \in Int
    BY <1>0
  <2> HIDE DEF b, has, i
  <2>3. FindWeightClassRate(b, v.weight, v.euro) \in Int
    BY <2>1, <2>2
  <2> QED BY <2>3 DEF b
<1> QED BY <1>1, <1>2 DEF c

\* What a vehicle pays in a region: nothing, a flat rate, or that of its class.
LEMMA LookupFacts ==
    ASSUME configs \in Tables, NEW r, NEW v \in AnyVehicle
    PROVE  LET c == configs[r]
               class == FindWeightClassRate(c.weightClasses, v.weight, v.euro)
           IN  /\ Lookup(r, v) \in Nat
               /\ r \notin DOMAIN configs => Lookup(r, v) = 0
               /\ r \in DOMAIN configs =>
                     Lookup(r, v) = IF v.weight < c.minWeight THEN 0
                                    ELSE IF FlatRate(c, v) > 0 THEN FlatRate(c, v)
                                    ELSE IF class < 0 THEN 0 ELSE class
<1> DEFINE c == configs[r]
           class == FindWeightClassRate(c.weightClasses, v.weight, v.euro)
           flat == FlatRate(c, v)
<1>1. CASE r \notin DOMAIN configs
  BY <1>1 DEF Lookup
<1>2. CASE r \in DOMAIN configs
  <2>1. flat \in Int /\ class \in Int
    BY <1>2, RatesAreNumbers
  <2>2. Lookup(r, v) = IF v.weight < c.minWeight \/ (IF flat > 0 THEN flat ELSE class) < 0
                       THEN 0 ELSE IF flat > 0 THEN flat ELSE class
    BY <1>2 DEF Lookup
  <2> HIDE DEF flat, class, c
  <2>3. /\ Lookup(r, v) \in Nat
        /\ Lookup(r, v) = IF v.weight < c.minWeight THEN 0
                          ELSE IF flat > 0 THEN flat
                          ELSE IF class < 0 THEN 0 ELSE class
    BY <2>1, <2>2
  <2> QED BY <1>2, <2>3 DEF flat, class, c
<1> QED BY <1>1, <1>2

-----------------------------------------------------------------------------
(***************************************************************************)
(* The inductive invariant: the memo holds what the lookup would yield,    *)
(* and so does everything charged from it.                                 *)
(***************************************************************************)
MemoIsTrue == \A k \in DOMAIN rateCache : rateCache[k] = Lookup(k, vehicle)

ChargedIsTrue == \A p \in charged : p.rate = Lookup(p.region, vehicle)

ManeuverIsTrue ==
    maneuver = NoManeuver
    \/ \E r \in Regions : \E street \in Streets[r] :
           maneuver = Charged(r, street, IF IsTollRoad(r, street) THEN Lookup(r, vehicle) ELSE 0)

TariffInv ==
    /\ configs \in Tables /\ vehicle \in Vehicles
    /\ MemoIsTrue /\ ChargedIsTrue /\ ManeuverIsTrue

LEMMA InitTariffInv == TariffInit => TariffInv
BY DEF TariffInit, Init, TariffInv, MemoIsTrue, ChargedIsTrue, ManeuverIsTrue

LEMMA LookupStays ==
    ASSUME UNCHANGED <<configs, vehicle>>, NEW r
    PROVE  Lookup(r, vehicle)' = Lookup(r, vehicle)
BY DEF Lookup

\* Either way the memo stays true and has the region asked for.
LEMMA RateForFacts ==
    ASSUME TariffInv, NEW r \in Regions, RateForKnown(r) \/ RateForNew(r)
    PROVE  /\ UNCHANGED <<configs, vehicle>>
           /\ MemoIsTrue' /\ ChargedIsTrue' /\ rateCache'[r] = Lookup(r, vehicle)
<1>1. /\ UNCHANGED <<configs, vehicle>> /\ r \in DOMAIN rateCache'
      /\ \A k \in DOMAIN rateCache' : rateCache'[k] = Lookup(k, vehicle)
      /\ charged' = charged \cup {[region |-> r, rate |-> Lookup(r, vehicle)]}
  <2>1. CASE RateForKnown(r)
    BY <2>1 DEF RateForKnown, MemoKey, TariffInv, MemoIsTrue
  <2>2. CASE RateForNew(r)
    BY <2>2 DEF RateForNew, MemoKey, TariffInv, MemoIsTrue
  <2> QED BY <2>1, <2>2
<1>2. \A k : Lookup(k, vehicle)' = Lookup(k, vehicle)
  BY <1>1, LookupStays
<1>3. MemoIsTrue'
  BY <1>1, <1>2 DEF MemoIsTrue
<1>4. ChargedIsTrue'
  BY <1>1, <1>2 DEF TariffInv, ChargedIsTrue
<1> QED BY <1>1, <1>3, <1>4

LEMMA TariffStep ==
    ASSUME TariffInv, [TariffNext]_tariffVars
    PROVE  TariffInv'
<1>1. ASSUME UNCHANGED vars PROVE MemoIsTrue' /\ ChargedIsTrue'
             /\ \A r : Lookup(r, vehicle)' = Lookup(r, vehicle)
  <2>1. UNCHANGED <<configs, vehicle, rateCache, charged>>
    BY <1>1 DEF vars
  <2>2. \A r : Lookup(r, vehicle)' = Lookup(r, vehicle)
    BY <2>1, LookupStays
  <2> QED BY <2>1, <2>2 DEF TariffInv, MemoIsTrue, ChargedIsTrue
<1>2. ASSUME NEW r \in Regions, NEW street \in Streets[r], ChargeNothing(r, street)
      PROVE  TariffInv'
  <2>1. UNCHANGED vars /\ ~IsTollRoad(r, street) /\ maneuver' = Charged(r, street, 0)
    BY <1>2 DEF ChargeNothing
  <2>2. ManeuverIsTrue'
    BY <2>1 DEF ManeuverIsTrue
  <2> QED BY <1>1, <2>1, <2>2 DEF TariffInv, vars
<1>3. ASSUME NEW r \in Regions, NEW street \in Streets[r], ChargeToll(r, street)
      PROVE  TariffInv'
  <2>1. /\ UNCHANGED <<configs, vehicle>> /\ MemoIsTrue' /\ ChargedIsTrue'
        /\ rateCache'[r] = Lookup(r, vehicle)
    BY <1>3, RateForFacts DEF ChargeToll
  <2>2. maneuver' = Charged(r, street, Lookup(r, vehicle)') /\ IsTollRoad(r, street)
    BY <1>3, <2>1, LookupStays DEF ChargeToll, MemoKey
  <2>3. ManeuverIsTrue'
    BY <2>2 DEF ManeuverIsTrue
  <2> QED BY <2>1, <2>3 DEF TariffInv
<1>4. CASE Walk
  <2>1. UNCHANGED vars /\ maneuver' = NoManeuver
    BY <1>4 DEF Walk
  <2> QED BY <1>1, <2>1 DEF TariffInv, ManeuverIsTrue, vars
<1>5. CASE UNCHANGED tariffVars
  <2>1. UNCHANGED vars /\ maneuver' = maneuver
    BY <1>5 DEF tariffVars
  <2> QED BY <1>1, <2>1 DEF TariffInv, ManeuverIsTrue, vars
<1> QED BY <1>2, <1>3, <1>4, <1>5 DEF TariffNext

LEMMA TariffInvariant == TariffSpec => []TariffInv
BY InitTariffInv, TariffStep, PTL DEF TariffSpec

-----------------------------------------------------------------------------
(* What is charged. *)

\* The brackets the vehicle's weight lies in, by their places.
LEMMA WeighedPlaces ==
    ASSUME NEW b, BracketSeq(b), vehicle.weight \in Nat
    PROVE  /\ Weighed(b) = {b[k] : k \in {k \in DOMAIN b : Matches(b[k], vehicle.weight)}}
           /\ Heaviest(b) = IF Len(b) = 0 THEN {} ELSE {b[Len(b)]}
           /\ Len(b) # 0 <=> Len(b) \in DOMAIN b
<1>1. \A k \in DOMAIN b : vehicle.weight \in b[k].min..(b[k].max - 1) <=> Matches(b[k], vehicle.weight)
  BY DEF BracketSeq, Matches
<1>2. Weighed(b) = {b[k] : k \in {k \in DOMAIN b : Matches(b[k], vehicle.weight)}}
  BY <1>1 DEF Weighed, ToSet
<1>3. Len(b) # 0 <=> Len(b) \in DOMAIN b
  BY DEF BracketSeq
<1>4. {i \in DOMAIN b : i = Len(b)} = IF Len(b) = 0 THEN {} ELSE {Len(b)}
  BY <1>3
<1>5. Heaviest(b) = IF Len(b) = 0 THEN {} ELSE {b[Len(b)]}
  BY <1>4 DEF Heaviest
<1> QED BY <1>2, <1>3, <1>5

LEMMA FlatIsDue ==
    ASSUME NEW b, BracketSeq(b), vehicle.weight \in Nat
    PROVE  /\ OrElse(FlatRates(Weighed(b)), FlatRates(Heaviest(b)))
                  = (IF Len(b) = 0 THEN {} ELSE {FindCO2Rate(b, vehicle.weight)})
           /\ Len(b) = 0 => FindCO2Rate(b, vehicle.weight) = 0
<1> DEFINE found == {k \in DOMAIN b : Matches(b[k], vehicle.weight)}
           i == Chosen(found, b)
<1>1. /\ Weighed(b) = {b[k] : k \in found} /\ Heaviest(b) = (IF Len(b) = 0 THEN {} ELSE {b[Len(b)]})
      /\ Len(b) # 0 <=> Len(b) \in DOMAIN b
  BY WeighedPlaces
<1>2. FindCO2Rate(b, vehicle.weight) = IF i \in DOMAIN b THEN b[i].rate ELSE 0
  BY DEF FindCO2Rate
<1>3. found \subseteq DOMAIN b /\ (Len(b) = 0 => DOMAIN b = {})
  BY DEF BracketSeq
<1>4. /\ found = {} => i = Len(b)
      /\ \A k \in found : found = {k} /\ i = k
  BY ChosenFacts
<1> HIDE DEF found, i
<1>5. CASE found = {}
  <2>1. Weighed(b) = {} /\ i = Len(b)
    BY <1>1, <1>4, <1>5
  <2>2. FlatRates(Weighed(b)) = {} /\ FlatRates(Heaviest(b)) =
            IF Len(b) = 0 THEN {} ELSE {b[Len(b)].rate}
    BY <1>1, <2>1 DEF FlatRates
  <2>3. CASE Len(b) = 0
    BY <1>1, <1>2, <2>1, <2>2, <2>3 DEF OrElse
  <2>4. CASE Len(b) # 0
    BY <1>1, <1>2, <2>1, <2>2, <2>4 DEF OrElse
  <2> QED BY <2>3, <2>4
<1>6. ASSUME NEW k \in found
      PROVE  OrElse(FlatRates(Weighed(b)), FlatRates(Heaviest(b))) = {FindCO2Rate(b, vehicle.weight)}
             /\ Len(b) # 0
  <2>1. found = {k} /\ i = k /\ k \in DOMAIN b
    BY <1>3, <1>4, <1>6
  <2>2. FlatRates(Weighed(b)) = {b[k].rate}
    BY <1>1, <2>1 DEF FlatRates
  <2> QED BY <1>2, <1>3, <2>1, <2>2 DEF OrElse
<1> QED BY <1>5, <1>6

LEMMA ClassIsDue ==
    ASSUME NEW c, BracketSeq(c.weightClasses), vehicle.weight \in Nat
    PROVE  DueByClass(c) = {FindWeightClassRate(c.weightClasses, vehicle.weight, vehicle.euro)}
<1> DEFINE b == c.weightClasses
           euro == vehicle.euro
           has == {k \in DOMAIN b : euro \in DOMAIN b[k].rates}
           found == {k \in has : Matches(b[k], vehicle.weight)}
           i == Chosen(found, b)
           rate == FindWeightClassRate(b, vehicle.weight, euro)
<1>1. /\ Weighed(b) = {b[k] : k \in {k \in DOMAIN b : Matches(b[k], vehicle.weight)}}
      /\ Heaviest(b) = (IF Len(b) = 0 THEN {} ELSE {b[Len(b)]})
      /\ Len(b) # 0 <=> Len(b) \in DOMAIN b
  BY WeighedPlaces
<1>2. rate = IF i \in has THEN b[i].rates[euro] ELSE 0
  BY DEF FindWeightClassRate
<1>3. /\ found = {} => i = Len(b)
      /\ \A k \in found : found = {k} /\ i = k
  BY ChosenFacts
<1>4. Rates(Weighed(b)) = {b[k].rates[euro] : k \in found}
  BY <1>1 DEF Rates
<1>5. Rates(Heaviest(b)) = IF Len(b) \in has THEN {b[Len(b)].rates[euro]} ELSE {}
  <2>1. CASE Len(b) = 0
    BY <1>1, <2>1 DEF Rates
  <2>2. CASE Len(b) # 0
    BY <1>1, <2>2 DEF Rates
  <2> QED BY <2>1, <2>2
<1>6. DueByClass(c) = OrElse(OrElse(Rates(Weighed(b)), Rates(Heaviest(b))), {0})
  BY DEF DueByClass
<1>7. found \subseteq has
  OBVIOUS
<1> HIDE DEF found, has, i, rate, b, euro
<1>8. CASE found = {}
  <2>1. Rates(Weighed(b)) = {} /\ i = Len(b)
    BY <1>3, <1>4, <1>8
  <2> QED BY <1>2, <1>5, <1>6, <2>1 DEF OrElse, rate, b, euro
<1>9. ASSUME NEW k \in found
      PROVE  DueByClass(c) = {rate}
  <2>1. found = {k} /\ i = k /\ k \in has
    BY <1>3, <1>7, <1>9
  <2>2. Rates(Weighed(b)) = {b[k].rates[euro]}
    BY <1>4, <2>1
  <2> QED BY <1>2, <1>6, <2>1, <2>2 DEF OrElse
<1> QED BY <1>8, <1>9 DEF rate, b, euro

LEMMA LookupIsDue ==
    ASSUME configs \in Tables, vehicle \in AnyVehicle, NEW r
    PROVE  Due(r) = {Lookup(r, vehicle)}
<1> DEFINE c == configs[r]
           class == FindWeightClassRate(c.weightClasses, vehicle.weight, vehicle.euro)
           flat == FlatRate(c, vehicle)
<1>1. vehicle.weight \in Nat /\ vehicle.co2 \in Nat
  BY VehicleFacts
<1>2. CASE r \notin DOMAIN configs
  BY <1>2, LookupFacts DEF Due
<1>3. CASE r \in DOMAIN configs /\ vehicle.weight < c.minWeight
  BY <1>3, LookupFacts DEF Due
<1>4. CASE r \in DOMAIN configs /\ ~(vehicle.weight < c.minWeight)
  <2>1. /\ BracketSeq(c.weightClasses)
        /\ \A k \in DOMAIN c.co2ClassRates : BracketSeq(c.co2ClassRates[k])
    BY <1>4, ConfigFacts
  <2>2. flat \in Int /\ class \in Int
    BY <1>4, RatesAreNumbers
  <2>3. Lookup(r, vehicle) = IF flat > 0 THEN flat ELSE IF class < 0 THEN 0 ELSE class
    BY <1>4, LookupFacts
  <2>4. Due(r) = OrElse({rate \in DueByCO2(c) : rate > 0},
                        {IF rate < 0 THEN 0 ELSE rate : rate \in DueByClass(c)})
    BY <1>4 DEF Due
  <2>5. DueByClass(c) = {class}
    BY <1>1, <2>1, ClassIsDue
  <2>6. DueByCO2(c) = {flat} \/ (DueByCO2(c) = {} /\ flat = 0)
    <3>1. vehicle.co2 \in DOMAIN c.co2ClassRates \ {0, 1} <=>
              vehicle.co2 > 1 /\ vehicle.co2 \in DOMAIN c.co2ClassRates
      BY <1>1
    <3>2. CASE vehicle.co2 > 1 /\ vehicle.co2 \in DOMAIN c.co2ClassRates
      <4> DEFINE b == c.co2ClassRates[vehicle.co2]
      <4>1. BracketSeq(b)
        BY <2>1, <3>2
      <4>2. flat = FindCO2Rate(b, vehicle.weight)
        BY <3>2 DEF FlatRate
      <4>3. DueByCO2(c) = OrElse(FlatRates(Weighed(b)), FlatRates(Heaviest(b)))
        BY <3>1, <3>2 DEF DueByCO2
      <4> HIDE DEF b, flat, c
      <4> QED BY <1>1, <4>1, <4>2, <4>3, FlatIsDue
    <3>3. CASE ~(vehicle.co2 > 1 /\ vehicle.co2 \in DOMAIN c.co2ClassRates)
      BY <3>1, <3>3 DEF DueByCO2, FlatRate
    <3> QED BY <3>2, <3>3
  <2> HIDE DEF flat, class, c
  <2>7. {IF rate < 0 THEN 0 ELSE rate : rate \in DueByClass(c)} = {IF class < 0 THEN 0 ELSE class}
    BY <2>5
  <2>8. {rate \in DueByCO2(c) : rate > 0} = IF flat > 0 THEN {flat} ELSE {}
    BY <2>2, <2>6
  <2>9. CASE flat > 0
    <3>1. Due(r) = {flat}
      BY <2>4, <2>8, <2>9 DEF OrElse
    <3> QED BY <2>3, <2>9, <3>1
  <2>10. CASE ~(flat > 0)
    <3>1. Due(r) = {IF class < 0 THEN 0 ELSE class}
      BY <2>4, <2>7, <2>8, <2>10 DEF OrElse
    <3> QED BY <2>3, <2>10, <3>1
  <2> QED BY <2>9, <2>10
<1> QED BY <1>2, <1>3, <1>4

\* Where a heavier weight finds its rate: at the same place or a later one.
Place(b, w) == Chosen({k \in DOMAIN b : Matches(b[k], w)}, b)

LEMMA PlaceIsOne ==
    ASSUME NEW b, BracketSeq(b), b # <<>>, NEW w \in Nat
    PROVE  Place(b, w) \in DOMAIN b
<1>1. Len(b) \in DOMAIN b
  BY DEF BracketSeq
<1> DEFINE found == {k \in DOMAIN b : Matches(b[k], w)}
<1>2. /\ found = {} => Chosen(found, b) = Len(b)
      /\ \A i \in found : Chosen(found, b) = i
  BY ChosenFacts
<1>3. found \subseteq DOMAIN b /\ Place(b, w) = Chosen(found, b)
  BY DEF Place
<1> HIDE DEF found
<1> QED BY <1>1, <1>2, <1>3

LEMMA PlaceRises ==
    ASSUME NEW b, BracketSeq(b), NEW from \in Nat, Reaches(b, from),
           NEW v \in Nat, NEW w \in Nat, from <= v, v < w
    PROVE  Place(b, v) = Place(b, w) \/ Place(b, v) < Place(b, w)
<1> DEFINE Found(x) == {k \in DOMAIN b : Matches(b[k], x)}
<1>0. Len(b) \in Nat /\ DOMAIN b = 1..Len(b) /\ b # <<>>
  BY DEF Reaches, BracketSeq
<1>a. Place(b, v) \in DOMAIN b
  BY <1>0, PlaceIsOne
<1>1. /\ Place(b, v) \in DOMAIN b /\ Place(b, v) \in Nat /\ Place(b, v) <= Len(b)
      /\ Len(b) \in Nat
  BY <1>0, <1>a
<1>2. CASE Found(w) = {}
  <2>1. Place(b, w) = Len(b)
    BY <1>2, ChosenFacts DEF Place
  <2> QED BY <1>1, <2>1
<1>3. ASSUME NEW j \in Found(w)
      PROVE  Place(b, v) = Place(b, w) \/ Place(b, v) < Place(b, w)
  <2>1. Place(b, w) = j
    BY <1>3, ChosenFacts DEF Place
  <2>2. j \in DOMAIN b /\ j \in Nat /\ b[j].max \in Nat /\ w < b[j].max
    BY <1>3 DEF BracketSeq, Matches
  <2> DEFINE Ahead == {k \in DOMAIN b : v < b[k].max}
  <2>3. j \in Ahead /\ Ahead \in SUBSET Nat
    BY <2>2 DEF BracketSeq
  <2>4. PICK i \in Ahead : \A k \in Ahead : i <= k
    <3> HIDE DEF Ahead
    <3> QED BY <2>3, SmallestNumber
  <2>5. /\ i \in DOMAIN b /\ i \in Nat /\ b[i].min \in Nat /\ b[i].max \in Nat
        /\ v < b[i].max /\ i <= j
    BY <2>3, <2>4 DEF BracketSeq
  <2>6. b[i].min <= v
    <3>1. CASE i = 1
      BY <2>5, <3>1 DEF Reaches
    <3>2. CASE i # 1
      <4>1. i - 1 \in DOMAIN b /\ ~(i <= i - 1) /\ i \in 2..Len(b)
        BY <2>5, <3>2 DEF BracketSeq
      <4>2. ~(v < b[i - 1].max) /\ b[i].min = b[i - 1].max
        BY <2>4, <4>1 DEF Reaches
      <4>3. b[i - 1].max \in Nat
        BY <4>1 DEF BracketSeq
      <4> QED BY <4>2, <4>3
    <3> QED BY <3>1, <3>2
  <2>7. i \in Found(v)
    BY <2>5, <2>6 DEF Matches
  <2>8. Place(b, v) = i
    BY <2>7, ChosenFacts DEF Place
  <2> QED BY <2>1, <2>2, <2>5, <2>8
<1> QED BY <1>2, <1>3

\* What the places hold where a table is complete.
LEMMA CompleteFacts ==
    ASSUME configs \in Tables, NEW r \in DOMAIN configs, Complete(configs[r]), NEW v \in AnyVehicle
    PROVE  LET c == configs[r]
               b == c.weightClasses
               f == c.co2ClassRates[v.co2]
           IN  /\ FindWeightClassRate(b, v.weight, v.euro) = b[Place(b, v.weight)].rates[v.euro]
               /\ v.co2 > 1 /\ v.co2 \in DOMAIN c.co2ClassRates =>
                      FlatRate(c, v) = f[Place(f, v.weight)].rate /\ FlatRate(c, v) > 0
               /\ ~(v.co2 > 1 /\ v.co2 \in DOMAIN c.co2ClassRates) => FlatRate(c, v) = 0
<1> DEFINE c == configs[r]
           b == c.weightClasses
           f == c.co2ClassRates[v.co2]
<1>1. v.weight \in Nat /\ v.euro \in EuroClasses
  BY VehicleFacts
<1>2. /\ BracketSeq(b)
      /\ \A k \in DOMAIN c.co2ClassRates :
             /\ BracketSeq(c.co2ClassRates[k])
             /\ \A i \in DOMAIN c.co2ClassRates[k] : c.co2ClassRates[k][i].rate \in Int
  BY ConfigFacts
<1>3. /\ b # <<>> /\ \A i \in DOMAIN b : DOMAIN b[i].rates = EuroClasses
      /\ \A k \in DOMAIN c.co2ClassRates :
             /\ c.co2ClassRates[k] # <<>>
             /\ \A i \in DOMAIN c.co2ClassRates[k] : c.co2ClassRates[k][i].rate > 0
  BY DEF Complete, Reaches
<1> HIDE DEF c
<1>4. FindWeightClassRate(b, v.weight, v.euro) = b[Place(b, v.weight)].rates[v.euro]
  <2>1. {k \in DOMAIN b : v.euro \in DOMAIN b[k].rates} = DOMAIN b
    BY <1>1, <1>3
  <2>2. Place(b, v.weight) \in DOMAIN b
    BY <1>1, <1>2, <1>3, PlaceIsOne
  <2> HIDE DEF b
  <2> QED BY <2>1, <2>2 DEF FindWeightClassRate, Place
<1>5. ASSUME v.co2 > 1, v.co2 \in DOMAIN c.co2ClassRates
      PROVE  FlatRate(c, v) = f[Place(f, v.weight)].rate /\ FlatRate(c, v) > 0
  <2>1. BracketSeq(f) /\ f # <<>> /\ \A i \in DOMAIN f : f[i].rate > 0
    BY <1>2, <1>3, <1>5
  <2>2. FlatRate(c, v) = FindCO2Rate(f, v.weight)
    BY <1>5 DEF FlatRate
  <2> HIDE DEF f
  <2>3. Place(f, v.weight) \in DOMAIN f
    BY <1>1, <2>1, PlaceIsOne
  <2> QED BY <2>1, <2>2, <2>3 DEF FindCO2Rate, Place
<1>6. ~(v.co2 > 1 /\ v.co2 \in DOMAIN c.co2ClassRates) => FlatRate(c, v) = 0
  BY DEF FlatRate
<1> QED BY <1>4, <1>5, <1>6 DEF c

\* A heavier vehicle's bracket is no cheaper, whichever list it is from: the
\* CO2 class, and with it the list, is the same.
LEMMA LookupRises ==
    ASSUME configs \in Tables, NEW r,
           r \in DOMAIN configs => Complete(configs[r]) /\ Rising(configs[r]),
           NEW v \in AnyVehicle, NEW w \in Weights, w < v.weight
    PROVE  Lookup(r, [v EXCEPT !.weight = w]) <= Lookup(r, v)
<1> DEFINE u == [v EXCEPT !.weight = w]
           c == configs[r]
           b == c.weightClasses
           f == c.co2ClassRates[v.co2]
<1>1. u \in AnyVehicle /\ u.weight = w /\ u.co2 = v.co2 /\ u.euro = v.euro
  BY DEF AnyVehicle
<1>2. /\ w \in Nat /\ v.weight \in Nat /\ v.euro \in EuroClasses
      /\ Lookup(r, u) \in Nat /\ Lookup(r, v) \in Nat
  BY <1>1, VehicleAssumption, VehicleFacts, LookupFacts
<1> HIDE DEF u
<1>3. CASE r \notin DOMAIN configs \/ u.weight < c.minWeight
  <2>1. Lookup(r, u) = 0
    BY <1>1, <1>3, LookupFacts
  <2> QED BY <1>2, <2>1 DEF u
<1>4. CASE r \in DOMAIN configs /\ ~(u.weight < c.minWeight)
  <2>1. /\ c.minWeight \in Nat /\ Rising(c) /\ Complete(c) /\ BracketSeq(b)
        /\ \A i \in DOMAIN b : \A e \in DOMAIN b[i].rates : b[i].rates[e] \in Int
    BY <1>4, ConfigFacts
  <2>2. c.minWeight <= w /\ ~(v.weight < c.minWeight)
    BY <1>1, <1>2, <1>4, <2>1
  <2>3. CASE v.co2 > 1 /\ v.co2 \in DOMAIN c.co2ClassRates
    <3>1. BracketSeq(f) /\ Reaches(f, c.minWeight) /\ f # <<>>
      BY <1>4, <2>1, <2>3, ConfigFacts DEF Complete, Reaches
    <3>2. Lookup(r, u) = f[Place(f, w)].rate
      BY <1>1, <1>4, <2>1, <2>3, CompleteFacts, LookupFacts
    <3>3. Lookup(r, v) = f[Place(f, v.weight)].rate
      BY <1>4, <2>1, <2>2, <2>3, CompleteFacts, LookupFacts
    <3>4. /\ Place(f, w) \in DOMAIN f /\ Place(f, v.weight) \in DOMAIN f
          /\ Place(f, w) = Place(f, v.weight) \/ Place(f, w) < Place(f, v.weight)
      BY <1>2, <2>1, <2>2, <3>1, PlaceIsOne, PlaceRises
    <3>5. \A i, j \in DOMAIN f : i < j => f[i].rate <= f[j].rate
      BY <2>1, <2>3 DEF Rising
    <3>6. Lookup(r, u) <= Lookup(r, v)
      <4>1. CASE Place(f, w) = Place(f, v.weight)
        <5>1. Lookup(r, u) = Lookup(r, v)
          BY <3>2, <3>3, <4>1
        <5> QED BY <1>2, <5>1
      <4>2. CASE Place(f, w) < Place(f, v.weight)
        BY <3>2, <3>3, <3>4, <3>5, <4>2
      <4> QED BY <3>4, <4>1, <4>2
    <3> QED BY <3>6 DEF u
  <2>4. CASE ~(v.co2 > 1 /\ v.co2 \in DOMAIN c.co2ClassRates)
    <3> DEFINE low == b[Place(b, w)].rates[v.euro]
               high == b[Place(b, v.weight)].rates[v.euro]
    <3>1. Reaches(b, c.minWeight) /\ b # <<>> /\ \A i \in DOMAIN b : DOMAIN b[i].rates = EuroClasses
      BY <2>1 DEF Complete, Reaches
    <3>2. Lookup(r, u) = IF low < 0 THEN 0 ELSE low
      BY <1>1, <1>4, <2>1, <2>4, CompleteFacts, LookupFacts
    <3>3. Lookup(r, v) = IF high < 0 THEN 0 ELSE high
      BY <1>4, <2>1, <2>2, <2>4, CompleteFacts, LookupFacts
    <3>4. /\ Place(b, w) \in DOMAIN b /\ Place(b, v.weight) \in DOMAIN b
          /\ Place(b, w) = Place(b, v.weight) \/ Place(b, w) < Place(b, v.weight)
      BY <1>2, <2>1, <2>2, <3>1, PlaceIsOne, PlaceRises
    <3>5. low \in Int /\ high \in Int
      BY <1>2, <2>1, <3>1, <3>4
    <3>6. \A i, j \in DOMAIN b : i < j => b[i].rates[v.euro] <= b[j].rates[v.euro]
      BY <1>2, <2>1 DEF Rising
    <3>7. low = high \/ low <= high
      BY <3>4, <3>6
    <3> HIDE DEF low, high
    <3> QED BY <3>2, <3>3, <3>5, <3>7 DEF u
  <2> QED BY <2>3, <2>4
<1> QED BY <1>3, <1>4 DEF u

\* Whatever the order in which a route meets the regions, and however often it
\* comes back to one, it is charged the rate of the one bracket of that region's
\* table its weight lies in, or what the table falls back to (toll.go:72-101).
THEOREM TheBracketIsCharged == TariffSpec => []ChargesTheBracket
<1>1. TariffInv => ChargesTheBracket
  BY VehicleAssumption, LookupIsDue DEF TariffInv, ChargedIsTrue, ChargesTheBracket, AnyVehicle
<1> QED BY <1>1, TariffInvariant, PTL

\* Where a table is complete and rises, what is charged never falls with the
\* weight (toll.go:299-329).
THEOREM TheHeavierPayNoLess == TariffSpec => []HeavierPaysNoLess
<1>1. TariffInv => HeavierPaysNoLess
  BY VehicleAssumption, LookupRises DEF TariffInv, ChargedIsTrue, HeavierPaysNoLess, AnyVehicle
<1> QED BY <1>1, TariffInvariant, PTL

-----------------------------------------------------------------------------
(* Signs, however they are written. *)

LEMMA SignFacts ==
    ASSUME NEW s \in Signs
    PROVE  s.number < 10000 /\ s.gap \in Gaps /\ s.suffix \in Endings
<1>1. s.number \in Numbers /\ s.gap \in Gaps /\ s.suffix \in Endings
  BY DEF Signs
<1>2. \A n \in Numbers : n < 10000
  BY DEF Numbers
<1> QED BY <1>1, <1>2

LEMMA UpperFacts ==
    ASSUME NEW x \in Endings
    PROVE  /\ Upper(x) \in {"none", "A", "B"} /\ Upper(x) \in Endings
           /\ Upper(Upper(x)) = Upper(x) /\ (Upper(x) = "none" <=> x = "none")
BY DEF Upper, Endings

LEMMA SameSign ==
    ASSUME NEW s \in Signs, NEW t \in Signs,
           s.letters = t.letters, s.gap = t.gap, s.number = t.number, s.suffix = t.suffix
    PROVE  s = t
BY DEF Signs

LEMMA Rewritten ==
    ASSUME NEW s \in Signs, NEW g \in Gaps, NEW b \in Endings
    PROVE  /\ With(s, g, b) \in Signs
           /\ With(s, g, b).letters = s.letters /\ With(s, g, b).number = s.number
           /\ With(s, g, b).gap = g /\ With(s, g, b).suffix = b
BY DEF With, Signs

LEMMA PlainFacts ==
    ASSUME NEW s \in Signs
    PROVE  /\ Plain(s) \in Signs
           /\ Plain(s).letters = s.letters /\ Plain(s).number = s.number
           /\ Plain(s).gap = (IF s.gap = "space" THEN "none" ELSE s.gap)
           /\ Plain(s).suffix = Upper(s.suffix)
<1> DEFINE g == IF s.gap = "space" THEN "none" ELSE s.gap
           b == Upper(s.suffix)
<1>1. s.suffix \in Endings /\ s.gap \in Gaps
  BY DEF Signs
<1>2. g \in Gaps /\ b \in Endings
  BY <1>1, UpperFacts DEF Gaps
<1>3. Plain(s) = With(s, g, b)
  BY DEF Plain, With
<1> HIDE DEF g, b
<1>4. /\ Plain(s) \in Signs /\ Plain(s).letters = s.letters /\ Plain(s).number = s.number
      /\ Plain(s).gap = g /\ Plain(s).suffix = b
  BY <1>2, <1>3, Rewritten
<1> QED BY <1>4 DEF g, b

LEMMA RefFacts ==
    ASSUME NEW s \in Signs
    PROVE  /\ Ref(s) \in Signs
           /\ Ref(s).letters = s.letters /\ Ref(s).number = s.number
           /\ Ref(s).gap = "none" /\ Ref(s).suffix = Upper(s.suffix)
<1>1. "none" \in Gaps /\ Upper(s.suffix) \in Endings
  BY UpperFacts DEF Gaps, Signs
<1>2. Ref(s) = With(s, "none", Upper(s.suffix))
  BY DEF Ref, With
<1> QED BY <1>1, <1>2, Rewritten

\* A sign without a slash is read as it is listed.
LEMMA RefIsPlain ==
    ASSUME NEW s \in Signs, s.gap # "slash"
    PROVE  Ref(s) = Plain(s)
<1>1. s.gap \in {"none", "space"}
  BY DEF Signs, Gaps
<1>2. Ref(s).gap = Plain(s).gap
  BY <1>1, PlainFacts, RefFacts
<1> QED BY <1>2, PlainFacts, RefFacts, SameSign

LEMMA ReadSigns ==
    ASSUME NEW signs, signs \subseteq Signs
    PROVE  extractRoadRefs(signs) = {Ref(s) : s \in {t \in signs : t.gap # "slash"}}
<1>1. \A s \in signs : s.number < 10000 /\ (s.gap \in {"none", "space"} <=> s.gap # "slash")
  <2> TAKE s \in signs
  <2>1. s.number < 10000 /\ s.gap \in Gaps
    BY SignFacts
  <2>2. \A g \in Gaps : g \in {"none", "space"} <=> g # "slash"
    BY DEF Gaps
  <2> QED BY <2>1, <2>2
<1>2. {t \in signs : t.gap \in {"none", "space"} /\ t.number < 10000} = {t \in signs : t.gap # "slash"}
  BY <1>1
<1> QED BY <1>2 DEF extractRoadRefs

\* A list is matched by one of the signs.
LEMMA MatchedBySign ==
    ASSUME NEW street, street.signs \subseteq Signs, NEW list
    PROVE  matchesExactList(street, list) <=>
               \E s \in street.signs : s.gap # "slash" /\ Plain(s) \in list
<1>1. \A s \in street.signs : s.gap # "slash" => Ref(s) = Plain(s)
  BY RefIsPlain
<1> QED BY <1>1, ReadSigns DEF matchesExactList

-----------------------------------------------------------------------------
(* One sign, or one word, decides. *)

Route(s) == s.letters = "E" /\ s.gap \in {"none", "space"} /\ s.number < 1000 /\ s.suffix = "none"

Found(s, letters, gap, bound) ==
    s.letters = letters /\ s.gap = gap /\ s.number < bound /\ s.suffix = "none"

InList(s, list) == s.gap # "slash" /\ Plain(s) \in list

\* What each country asks of a sign.
TolledNL(s) == \/ \E l \in {"A", "N"} : Found(s, l, "none", 1000) /\ s \in nlTollRoads
               \/ Route(s)
TolledDE(s) == s.gap # "slash" /\ s.letters \in DE_TollPrefixes
TolledFR(s) == s.gap # "slash" /\ s.letters = "A" /\ Plain(s) \notin FR_FreeAutoroutes
TolledBE(s) == \/ InList(s, BE_TollMotorways) \/ InList(s, BE_TollNRoads)
               \/ Route(s) /\ [s EXCEPT !.gap = "none"] \in BE_TollMotorways
TolledPL(s) == \/ InList(s, PL_TollAutostrady) \/ InList(s, PL_TollEkspresowe)
               \/ InList(s, PL_TollDrogiKrajowe)
               \/ Found(s, "DK", "none", 1000) /\ s \in PL_TollDrogiKrajowe
TolledCZ(s) == \/ InList(s, CZ_TollDalnice)
               \/ Found(s, "I", "slash", 100) /\ s \in CZ_TollClassI
TolledRO(s) == \/ InList(s, RO_TollAutostrazi)
               \/ /\ s.letters = "DN" /\ s.gap = "none" /\ s.number < 1000
                  /\ [s EXCEPT !.suffix = Upper(@)] \in RO_TollDN

TolledBy(r, s) ==
    \/ r = "NL" /\ TolledNL(s)
    \/ r = "DE" /\ TolledDE(s)
    \/ r = "FR" /\ TolledFR(s)
    \/ r \in BelgianRegions /\ TolledBE(s)
    \/ r = "PL" /\ TolledPL(s)
    \/ r = "CZ" /\ TolledCZ(s)
    \/ r = "RO" /\ TolledRO(s)
    \/ r \in DOMAIN ExactLists /\ InList(s, ExactLists[r])

NamedIn(r, words) ==
    \/ r = "CH"
    \/ r = "NL" /\ words \cap nlMunicipalTollNames # {}
    \/ r \in DOMAIN BridgeNames /\ words \cap BridgeNames[r] # {}

LEMMA OneSignDecides ==
    ASSUME NEW r, NEW street, street.signs \subseteq Signs
    PROVE  IsTollRoad(r, street) <=>
               NamedIn(r, street.words) \/ \E s \in street.signs : TolledBy(r, s)
<1> DEFINE S == street.signs
<1>1. \A list : matchesExactList(street, list) <=> \E s \in S : InList(s, list)
  BY MatchedBySign DEF InList
<1>2. /\ \A letters, gap, bound :
             Patterns(S, letters, {gap}, bound) = {s \in S : Found(s, letters, gap, bound)}
      /\ EuropeanRoutes(S) = {s \in S : Route(s)}
  BY DEF Patterns, EuropeanRoutes, Found, Route
<1>3. IsNLTollRoad(street) <=>
          street.words \cap nlMunicipalTollNames # {} \/ \E s \in S : TolledNL(s)
  BY <1>2 DEF IsNLTollRoad, TolledNL
<1>4. \A s \in S : s.gap # "slash" =>
          Ref(s) = Plain(s) /\ Ref(s).letters = s.letters /\ Ref(s).gap = "none"
  BY RefIsPlain, RefFacts
<1>5. matchesDEPrefixes(street) <=> \E s \in S : TolledDE(s)
  BY <1>4, ReadSigns DEF matchesDEPrefixes, TolledDE
<1>6. matchesFrance(street) <=> \E s \in S : TolledFR(s)
  BY <1>4, ReadSigns DEF matchesFrance, TolledFR
<1>7. matchesBelgium(street) <=> \E s \in S : TolledBE(s)
  BY <1>1, <1>2 DEF matchesBelgium, TolledBE
<1>8. matchesPoland(street) <=> \E s \in S : TolledPL(s)
  BY <1>1, <1>2 DEF matchesPoland, TolledPL
<1>9. matchesCzechia(street) <=> \E s \in S : TolledCZ(s)
  BY <1>1, <1>2 DEF matchesCzechia, TolledCZ
<1>10. matchesRomania(street) <=> \E s \in S : TolledRO(s)
  <2> DEFINE Up(s) == [s EXCEPT !.suffix = Upper(@)]
  <2>1. \A s \in S : /\ Up(s).letters = s.letters /\ Up(s).gap = s.gap
                     /\ Up(s).number = s.number
    <3> TAKE s \in S
    <3>1. s \in Signs /\ s.gap \in Gaps /\ Upper(s.suffix) \in Endings
      BY SignFacts, UpperFacts
    <3>2. Up(s) = With(s, s.gap, Upper(s.suffix))
      BY <3>1 DEF With, Signs
    <3> QED BY <3>1, <3>2, Rewritten
  <2> HIDE DEF Up
  <2>2. {x \in {Up(s) : s \in S} : x.letters = "DN" /\ x.gap = "none" /\ x.number < 1000}
          = {Up(s) : s \in {y \in S : y.letters = "DN" /\ y.gap = "none" /\ y.number < 1000}}
    BY <2>1
  <2>3. Uppercase(S) = {Up(s) : s \in S}
    BY DEF Uppercase, Up
  <2>4. \A s : TolledRO(s) <=>
            \/ InList(s, RO_TollAutostrazi)
            \/ /\ s.letters = "DN" /\ s.gap = "none" /\ s.number < 1000
               /\ Up(s) \in RO_TollDN
    BY DEF TolledRO, Up
  <2> QED BY <1>1, <2>2, <2>3, <2>4 DEF matchesRomania
<1> QED BY <1>1, <1>3, <1>5, <1>6, <1>7, <1>8, <1>9, <1>10
        DEF IsTollRoad, TolledBy, NamedIn, matchesBridgeNames

-----------------------------------------------------------------------------
(* Two spellings of one sign. *)

LEMMA SpellingFacts ==
    ASSUME NEW s \in Signs, NEW t \in Spellings(s)
    PROVE  /\ t \in Signs
           /\ t.letters = s.letters /\ t.number = s.number
           /\ Upper(t.suffix) = Upper(s.suffix) /\ (t.suffix = "none" <=> s.suffix = "none")
           /\ t.gap = "slash" <=> s.gap = "slash"
<1> DEFINE G == IF s.gap = "slash" THEN {"slash"} ELSE {"none", "space"}
           B == {b \in Endings : Upper(b) = Upper(s.suffix)}
<1>1. \E g \in G, b \in B : t = With(s, g, b)
  BY DEF Spellings
<1>2. \A g \in G : g \in Gaps /\ (g = "slash" <=> s.gap = "slash")
  BY DEF Gaps
<1> HIDE DEF G
<1>3. PICK g \in G, b \in B : t = With(s, g, b)
  BY <1>1
<1>4. b \in Endings /\ Upper(b) = Upper(s.suffix) /\ s.suffix \in Endings
  BY SignFacts
<1> HIDE DEF B
<1>5. /\ t \in Signs /\ t.letters = s.letters /\ t.number = s.number
      /\ t.gap = g /\ t.suffix = b
  BY <1>2, <1>3, <1>4, Rewritten
<1>6. t.suffix = "none" <=> s.suffix = "none"
  BY <1>4, <1>5, UpperFacts
<1> QED BY <1>2, <1>4, <1>5, <1>6

\* Read the same, unless the gap is looked at.
LEMMA SamePlain ==
    ASSUME NEW s \in Signs, NEW t \in Spellings(s)
    PROVE  Plain(t) = Plain(s)
<1>1. /\ t \in Signs /\ t.letters = s.letters /\ t.number = s.number
      /\ Upper(t.suffix) = Upper(s.suffix) /\ (t.gap = "slash" <=> s.gap = "slash")
  BY SpellingFacts
<1>2. \A g, h \in Gaps : (g = "slash" <=> h = "slash") =>
          (IF g = "space" THEN "none" ELSE g) = (IF h = "space" THEN "none" ELSE h)
  BY DEF Gaps
<1>3. Plain(s).gap = Plain(t).gap
  BY <1>1, <1>2, PlainFacts, SignFacts
<1> QED BY <1>1, <1>3, PlainFacts, SameSign

LEMMA SameGap ==
    ASSUME NEW s \in Signs, NEW t \in Spellings(s), s.gap # "space", t.gap # "space"
    PROVE  s.gap = t.gap
<1>1. /\ s.gap \in Gaps /\ t.gap \in Gaps /\ (t.gap = "slash" <=> s.gap = "slash")
  BY SpellingFacts, SignFacts
<1> QED BY <1>1 DEF Gaps

\* A European route without its gap is the key of a list.
LEMMA BareRoute ==
    ASSUME NEW s \in Signs, Route(s)
    PROVE  [s EXCEPT !.gap = "none"] = Plain(s)
<1>1. s.suffix = "none" /\ s.gap \in {"none", "space"} /\ Upper(s.suffix) = "none"
  BY DEF Route, Upper
<1>2. [s EXCEPT !.gap = "none"] = With(s, "none", "none")
  BY <1>1 DEF With, Signs
<1>3. Plain(s) = With(s, "none", "none")
  BY <1>1 DEF Plain, With
<1> QED BY <1>2, <1>3

\* So is a reference without gap and suffix.
LEMMA FoundIsPlain ==
    ASSUME NEW s \in Signs, s.gap # "space", s.suffix = "none"
    PROVE  Plain(s) = s
<1>1. Upper(s.suffix) = "none"
  BY DEF Upper
<1> QED BY <1>1, PlainFacts, SameSign

LEMMA UpIsPlain ==
    ASSUME NEW s \in Signs, s.gap # "space"
    PROVE  [s EXCEPT !.suffix = Upper(@)] = Plain(s)
<1>1. s.gap \in Gaps /\ Upper(s.suffix) \in Endings
  BY SignFacts, UpperFacts
<1>2. [s EXCEPT !.suffix = Upper(@)] = With(s, s.gap, Upper(s.suffix))
  BY <1>1 DEF With, Signs
<1> QED BY <1>1, <1>2, Rewritten, PlainFacts, SameSign

\* What a country asks of a sign is asked of how it is listed, and of its gap
\* and suffix only where no spelling can change them.
LEMMA TolledByPlain ==
    ASSUME NEW r, NEW s \in Signs, Written(r, s)
    PROVE  TolledBy(r, s) <=>
        \/ /\ r = "NL"
           /\ \/ /\ s.letters \in {"A", "N"} /\ s.gap # "slash" /\ s.number < 1000
                 /\ s.suffix = "none" /\ Plain(s) \in nlTollRoads
              \/ Route(s)
        \/ r = "DE" /\ TolledDE(s)
        \/ r = "FR" /\ TolledFR(s)
        \/ r \in BelgianRegions /\ (InList(s, BE_TollMotorways) \/ InList(s, BE_TollNRoads))
        \/ r = "PL" /\ (\/ InList(s, PL_TollAutostrady) \/ InList(s, PL_TollEkspresowe)
                        \/ InList(s, PL_TollDrogiKrajowe))
        \/ r = "CZ" /\ (\/ InList(s, CZ_TollDalnice)
                        \/ Found(s, "I", "slash", 100) /\ Plain(s) \in CZ_TollClassI)
        \/ r = "RO" /\ (\/ InList(s, RO_TollAutostrazi)
                        \/ /\ s.letters = "DN" /\ s.number < 1000
                           /\ InList(s, RO_TollDN))
        \/ r \in DOMAIN ExactLists /\ InList(s, ExactLists[r])
<1>1. s.gap \in Gaps
  BY SignFacts
<1>2. s.gap = "none" <=> s.gap # "slash" /\ s.gap # "space"
  BY <1>1 DEF Gaps
<1>3. r = "NL" => (TolledNL(s) <=>
          \/ /\ s.letters \in {"A", "N"} /\ s.gap # "slash" /\ s.number < 1000
             /\ s.suffix = "none" /\ Plain(s) \in nlTollRoads
          \/ Route(s))
  <2>1. r = "NL" => s.gap # "space" \/ s.letters = "E"
    BY DEF Written
  <2>2. s.letters \in {"A", "N"} => s.letters # "E"
    OBVIOUS
  <2> QED BY <1>2, <2>1, <2>2, FoundIsPlain DEF TolledNL, Found
<1>4. TolledBE(s) <=> InList(s, BE_TollMotorways) \/ InList(s, BE_TollNRoads)
  BY BareRoute DEF TolledBE, InList, Route
<1>5. TolledPL(s) <=> \/ InList(s, PL_TollAutostrady) \/ InList(s, PL_TollEkspresowe)
                      \/ InList(s, PL_TollDrogiKrajowe)
  BY <1>2, FoundIsPlain DEF TolledPL, InList, Found
<1>6. TolledCZ(s) <=> \/ InList(s, CZ_TollDalnice)
                      \/ Found(s, "I", "slash", 100) /\ Plain(s) \in CZ_TollClassI
  BY FoundIsPlain DEF TolledCZ, Found
<1>7. r = "RO" => (TolledRO(s) <=>
          \/ InList(s, RO_TollAutostrazi)
          \/ s.letters = "DN" /\ s.number < 1000 /\ InList(s, RO_TollDN))
  <2>1. r = "RO" => s.gap # "space" \/ s.letters # "DN"
    BY DEF Written
  <2> QED BY <1>2, <2>1, UpIsPlain DEF TolledRO, InList
<1> QED BY <1>3, <1>4, <1>5, <1>6, <1>7 DEF TolledBy

LEMMA SpellingDecidesNothing ==
    ASSUME NEW r, NEW s \in Signs, NEW t \in Spellings(s), Written(r, s), Written(r, t)
    PROVE  TolledBy(r, s) <=> TolledBy(r, t)
<1>1. /\ t \in Signs /\ t.letters = s.letters /\ t.number = s.number
      /\ (t.suffix = "none" <=> s.suffix = "none")
      /\ (t.gap = "slash" <=> s.gap = "slash") /\ Plain(t) = Plain(s)
  BY SpellingFacts, SamePlain
<1>2. \A list : InList(s, list) <=> InList(t, list)
  BY <1>1 DEF InList
<1>3. Route(s) <=> Route(t)
  <2>1. \A g \in Gaps : g \in {"none", "space"} <=> g # "slash"
    BY DEF Gaps
  <2> QED BY <1>1, <2>1, SignFacts DEF Route
<1>4. (TolledDE(s) <=> TolledDE(t)) /\ (TolledFR(s) <=> TolledFR(t))
  BY <1>1 DEF TolledDE, TolledFR
<1>5. Found(s, "I", "slash", 100) <=> Found(t, "I", "slash", 100)
  BY <1>1 DEF Found
<1> QED BY <1>1, <1>2, <1>3, <1>4, <1>5, TolledByPlain

LEMMA ManeuverFacts ==
    ASSUME TariffInv, maneuver # NoManeuver
    PROVE  /\ maneuver.street \in [signs : SUBSET Signs, words : SUBSET STRING]
           /\ maneuver.rate = IF IsTollRoad(maneuver.region, maneuver.street)
                              THEN Lookup(maneuver.region, vehicle) ELSE 0
<1>1. PICK r \in Regions : \E street \in Streets[r] :
          maneuver = Charged(r, street, IF IsTollRoad(r, street) THEN Lookup(r, vehicle) ELSE 0)
  BY DEF TariffInv, ManeuverIsTrue
<1>2. PICK street \in Streets[r] :
          maneuver = Charged(r, street, IF IsTollRoad(r, street) THEN Lookup(r, vehicle) ELSE 0)
  BY <1>1
<1>3. /\ maneuver.region = r /\ maneuver.street = street
      /\ maneuver.rate = IF IsTollRoad(r, street) THEN Lookup(r, vehicle) ELSE 0
  BY <1>2 DEF Charged
<1> QED BY <1>3, StreetAssumption

LEMMA RoadKeys ==
    ASSUME NEW letters, NEW numbers, NEW x \in Roads(letters, numbers)
    PROVE  x.letters = letters /\ x.gap = "none" /\ x.number \in numbers /\ x.suffix = "none"
BY DEF Roads

\* A spelling that is not known counts for nothing.
LEMMA UnknownSpelling ==
    ASSUME NEW r, NEW s \in Signs, ~Written(r, s)
    PROVE  ~TolledBy(r, s)
<1>1. s.gap = "space" /\ ((r = "NL" /\ s.letters # "E") \/ (r = "RO" /\ s.letters = "DN"))
  BY DEF Written
<1>2. CASE r = "NL" /\ s.letters # "E"
  <2>1. ~TolledNL(s)
    BY <1>1, <1>2 DEF TolledNL, Found, Route
  <2> QED BY <1>2, <2>1 DEF TolledBy, BelgianRegions, ExactLists
<1>3. CASE r = "RO" /\ s.letters = "DN"
  <2>1. Plain(s).letters = "DN"
    BY <1>3, PlainFacts
  <2>2. Plain(s) \notin RO_TollAutostrazi
    BY <2>1, RoadKeys DEF RO_TollAutostrazi
  <2>3. ~TolledRO(s)
    BY <1>1, <2>2 DEF TolledRO, InList
  <2> QED BY <1>3, <2>3 DEF TolledBy, BelgianRegions, ExactLists
<1> QED BY <1>1, <1>2, <1>3

\* A maneuver is charged the same whichever known way its signs are written,
\* with or without a gap, the branch in either case; a Dutch A or N road or a
\* Romanian DN written with a gap is charged as if it had no sign
\* (toll_roads.go:60-76).
THEOREM SpellingMakesNoDifference == TariffSpec => []OneRoadHoweverSpelled
<1> DEFINE Tolled(signs) == IsTollRoad(maneuver.region, [maneuver.street EXCEPT !.signs = signs])
           here == maneuver.street.signs
           r == maneuver.region
<1>1. ASSUME TariffInv, maneuver # NoManeuver
      PROVE  /\ here \subseteq Signs
             /\ \A signs \in SUBSET Signs :
                    Tolled(signs) <=> NamedIn(r, maneuver.street.words)
                                      \/ \E s \in signs : TolledBy(r, s)
  <2>1. maneuver.street \in [signs : SUBSET Signs, words : SUBSET STRING]
    BY <1>1, ManeuverFacts
  <2>2. ASSUME NEW signs \in SUBSET Signs
        PROVE  Tolled(signs) <=> NamedIn(r, maneuver.street.words) \/ \E s \in signs : TolledBy(r, s)
    <3> DEFINE street == [maneuver.street EXCEPT !.signs = signs]
    <3>1. street.signs = signs /\ street.words = maneuver.street.words
      BY <2>1
    <3> HIDE DEF street
    <3>2. IsTollRoad(r, street) <=> NamedIn(r, maneuver.street.words) \/ \E s \in signs : TolledBy(r, s)
      BY <2>2, <3>1, OneSignDecides
    <3> QED BY <3>2 DEF street
  <2> QED BY <2>1, <2>2
<1>2. ASSUME TariffInv, maneuver # NoManeuver, NEW s \in here,
             NEW t \in Spellings(s), Written(r, s), Written(r, t)
      PROVE  Tolled(here) <=> Tolled((here \ {s}) \cup {t})
  <2>1. s \in Signs /\ t \in Signs /\ (TolledBy(r, s) <=> TolledBy(r, t))
    BY <1>1, <1>2, SpellingFacts, SpellingDecidesNothing
  <2>2. (\E x \in here : TolledBy(r, x)) <=> (\E x \in (here \ {s}) \cup {t} : TolledBy(r, x))
    BY <1>2, <2>1
  <2>3. here \in SUBSET Signs /\ (here \ {s}) \cup {t} \in SUBSET Signs
    BY <1>1, <1>2, <2>1
  <2> HIDE DEF Tolled
  <2> QED BY <1>1, <1>2, <2>2, <2>3
<1>3. ASSUME TariffInv, maneuver # NoManeuver, NEW s \in here, ~Written(r, s)
      PROVE  Tolled(here) <=> Tolled(here \ {s})
  <2>1. ~TolledBy(r, s)
    BY <1>1, <1>3, UnknownSpelling
  <2>2. (\E x \in here : TolledBy(r, x)) <=> (\E x \in here \ {s} : TolledBy(r, x))
    BY <2>1
  <2>3. here \in SUBSET Signs /\ here \ {s} \in SUBSET Signs
    BY <1>1, <1>3
  <2> HIDE DEF Tolled
  <2> QED BY <1>1, <1>3, <2>2, <2>3
<1>4. TariffInv => OneRoadHoweverSpelled
  BY <1>2, <1>3 DEF OneRoadHoweverSpelled
<1> QED BY <1>4, TariffInvariant, PTL

-----------------------------------------------------------------------------
(* The keys of the lists. *)

LEMMA ClassIKeys ==
    ASSUME NEW numbers, NEW x \in ClassI(numbers)
    PROVE  x.letters = "I" /\ x.gap = "slash" /\ x.number \in numbers /\ x.suffix = "none"
BY DEF Roads, ClassI

LEMMA BranchKeys ==
    ASSUME NEW letters, NEW numbers, NEW suffix, NEW x \in Branches(letters, numbers, suffix)
    PROVE  x.letters = letters /\ x.gap = "none" /\ x.number \in numbers /\ x.suffix = suffix
BY DEF Roads, Branches

\* No list but those of class I has a key with a slash.
LEMMA NoSlash ==
    ASSUME NEW x, x.gap = "slash"
    PROVE  /\ x \notin AT_TollRoads /\ x \notin BG_TollRoads /\ x \notin CZ_TollDalnice
           /\ x \notin ES_TollRoads /\ x \notin HR_TollRoads /\ x \notin HU_TollRoads
           /\ x \notin IT_TollRoads /\ x \notin nlTollRoads /\ x \notin PL_TollAutostrady
           /\ x \notin PL_TollEkspresowe /\ x \notin PL_TollDrogiKrajowe
           /\ x \notin PT_TollRoads /\ x \notin RO_TollAutostrazi /\ x \notin RO_TollDN
           /\ x \notin SI_TollRoads /\ x \notin BE_TollMotorways /\ x \notin BE_TollNRoads
<1>1. \A l, S : x \notin Roads(l, S)
  BY RoadKeys
<1>2. \A l, S, b : x \notin Branches(l, S, b)
  BY BranchKeys
<1>3. /\ x \notin AT_TollRoads
      /\ x \notin BG_TollRoads
      /\ x \notin CZ_TollDalnice
      /\ x \notin ES_TollRoads
      /\ x \notin HR_TollRoads
      /\ x \notin HU_TollRoads
  BY <1>1, <1>2 DEF AT_TollRoads, BG_TollRoads, CZ_TollDalnice, ES_TollRoads, HR_TollRoads, HU_TollRoads
<1>4. /\ x \notin IT_TollRoads
      /\ x \notin nlTollRoads
      /\ x \notin PL_TollAutostrady
      /\ x \notin PL_TollEkspresowe
      /\ x \notin PL_TollDrogiKrajowe
  BY <1>1, <1>2 DEF IT_TollRoads, nlTollRoads, PL_TollAutostrady, PL_TollEkspresowe, PL_TollDrogiKrajowe
<1>5. /\ x \notin PT_TollRoads
      /\ x \notin RO_TollAutostrazi
      /\ x \notin RO_TollDN
      /\ x \notin SI_TollRoads
      /\ x \notin BE_TollMotorways
      /\ x \notin BE_TollNRoads
  BY <1>1, <1>2 DEF PT_TollRoads, RO_TollAutostrazi, RO_TollDN, SI_TollRoads, BE_TollMotorways, BE_TollNRoads
<1> QED BY <1>3, <1>4, <1>5

LEMMA KeysNL ==
    ASSUME NEW x \in nlTollRoads
    PROVE  x.letters \in {"A", "N"} /\ x.number < 1000 /\ x.suffix = "none"
BY RoadKeys DEF nlTollRoads

LEMMA KeysCZ ==
    ASSUME NEW x \in CZ_TollClassI
    PROVE  x.letters = "I" /\ x.gap = "slash" /\ x.number < 100 /\ x.suffix = "none"
BY ClassIKeys DEF CZ_TollClassI

LEMMA KeysRO ==
    ASSUME NEW x \in RO_TollDN
    PROVE  x.letters = "DN" /\ x.number < 1000
BY RoadKeys, BranchKeys DEF RO_TollDN

\* A country tolls exactly the signs of its lists.
LEMMA ListedIsTolled ==
    ASSUME NEW r, NEW s \in Signs, Written(r, s), ~Unreadable(r, s)
    PROVE  TolledBy(r, s) <=> Listed(r, s)
<1> DEFINE p == Plain(s)
<1>1. /\ p.letters = s.letters /\ p.number = s.number /\ p.suffix = Upper(s.suffix)
      /\ p.suffix = "none" <=> s.suffix = "none"
  BY PlainFacts, UpperFacts, SignFacts
<1>2. (p.gap = "slash" <=> s.gap = "slash") /\ (p.gap = "none" <=> s.gap # "slash")
  <2>1. \A g \in Gaps : LET h == IF g = "space" THEN "none" ELSE g
                        IN  (h = "slash" <=> g = "slash") /\ (h = "none" <=> g # "slash")
    BY DEF Gaps
  <2> QED BY <2>1, PlainFacts, SignFacts
<1> HIDE DEF p
<1>3. \A list : InList(s, list) <=> s.gap # "slash" /\ p \in list
  BY DEF InList, p
<1>4. s.gap = "slash" =>
           /\ p \notin AT_TollRoads /\ p \notin BG_TollRoads /\ p \notin CZ_TollDalnice
           /\ p \notin ES_TollRoads /\ p \notin HR_TollRoads /\ p \notin HU_TollRoads
           /\ p \notin IT_TollRoads /\ p \notin nlTollRoads /\ p \notin PL_TollAutostrady
           /\ p \notin PL_TollEkspresowe /\ p \notin PL_TollDrogiKrajowe
           /\ p \notin PT_TollRoads /\ p \notin RO_TollAutostrazi /\ p \notin RO_TollDN
           /\ p \notin SI_TollRoads /\ p \notin BE_TollMotorways /\ p \notin BE_TollNRoads
  BY <1>2, NoSlash
<1>5. CASE r = "NL"
  <2>1. TolledBy(r, s) <=>
            \/ /\ s.letters \in {"A", "N"} /\ s.gap # "slash" /\ s.number < 1000
               /\ s.suffix = "none" /\ p \in nlTollRoads
            \/ Route(s)
    BY <1>5, TolledByPlain DEF p, BelgianRegions, ExactLists
  <2>2. Route(s) <=> p.letters = "E" /\ p.gap = "none" /\ p.number < 1000 /\ p.suffix = "none"
    <3>1. \A g \in Gaps : g \in {"none", "space"} <=> g # "slash"
      BY DEF Gaps
    <3> QED BY <1>1, <1>2, <3>1, SignFacts DEF Route
  <2>3. Listed(r, s) <=>
            \/ p \in nlTollRoads
            \/ p.letters = "E" /\ p.gap = "none" /\ p.number < 1000 /\ p.suffix = "none"
    BY <1>5 DEF Listed, p, BelgianRegions
  <2> QED BY <1>1, <1>4, <2>1, <2>2, <2>3, KeysNL
<1>6. CASE r = "CZ"
  <2>1. TolledBy(r, s) <=> \/ InList(s, CZ_TollDalnice)
                           \/ Found(s, "I", "slash", 100) /\ p \in CZ_TollClassI
    BY <1>6, TolledByPlain DEF p, BelgianRegions, ExactLists
  <2>2. Listed(r, s) <=> p \in CZ_TollDalnice \/ p \in CZ_TollClassI
    BY <1>6 DEF Listed, p, BelgianRegions
  <2> QED BY <1>1, <1>2, <1>3, <1>4, <2>1, <2>2, KeysCZ DEF Found
<1>7. CASE r = "RO"
  <2>1. TolledBy(r, s) <=> \/ InList(s, RO_TollAutostrazi)
                           \/ s.letters = "DN" /\ s.number < 1000 /\ InList(s, RO_TollDN)
    BY <1>7, TolledByPlain DEF BelgianRegions, ExactLists
  <2>2. Listed(r, s) <=> p \in RO_TollAutostrazi \/ p \in RO_TollDN
    BY <1>7 DEF Listed, p, BelgianRegions
  <2> QED BY <1>1, <1>3, <1>4, <2>1, <2>2, KeysRO
<1>8. CASE r = "PL"
  <2>1. TolledBy(r, s) <=> \/ InList(s, PL_TollAutostrady) \/ InList(s, PL_TollEkspresowe)
                           \/ InList(s, PL_TollDrogiKrajowe)
    BY <1>8, TolledByPlain DEF BelgianRegions, ExactLists
  <2>2. Listed(r, s) <=>
            p \in PL_TollAutostrady \/ p \in PL_TollEkspresowe \/ p \in PL_TollDrogiKrajowe
    BY <1>8 DEF Listed, p, BelgianRegions
  <2> QED BY <1>3, <1>4, <2>1, <2>2
<1>9. CASE r = "DE"
  <2>1. TolledBy(r, s) <=> TolledDE(s)
    BY <1>9, TolledByPlain DEF BelgianRegions, ExactLists
  <2>2. Listed(r, s) <=> p.gap = "none" /\ p.letters \in DE_TollPrefixes
    BY <1>9 DEF Listed, p, BelgianRegions
  <2> QED BY <1>1, <1>2, <2>1, <2>2 DEF TolledDE
<1>10. CASE r = "FR"
  <2>1. TolledBy(r, s) <=> TolledFR(s)
    BY <1>10, TolledByPlain DEF BelgianRegions, ExactLists
  <2>2. Listed(r, s) <=> p.gap = "none" /\ p.letters = "A" /\ p \notin FR_FreeAutoroutes
    BY <1>10 DEF Listed, p, BelgianRegions
  <2> QED BY <1>1, <1>2, <2>1, <2>2 DEF TolledFR, p
<1>11. CASE r \in BelgianRegions
  <2>1. TolledBy(r, s) <=> InList(s, BE_TollMotorways) \/ InList(s, BE_TollNRoads)
    BY <1>11, TolledByPlain DEF BelgianRegions, ExactLists
  <2>2. Listed(r, s) <=> p \in BE_TollMotorways \/ p \in BE_TollNRoads
    BY <1>11 DEF Listed, p, BelgianRegions
  <2> QED BY <1>3, <1>4, <2>1, <2>2
<1>12. CASE r \in DOMAIN ExactLists
  <2>1. r \in {"AT", "IT", "ES", "HU", "SK", "SI", "PT", "BG", "HR"}
    BY <1>12 DEF ExactLists
  <2>2. TolledBy(r, s) <=> InList(s, ExactLists[r])
    BY <1>12, <2>1, TolledByPlain DEF BelgianRegions
  <2>3. Listed(r, s) <=> p \in ExactLists[r]
    BY <2>1 DEF Listed, p, ExactLists, BelgianRegions
  <2>4. s.gap = "slash" => p \notin ExactLists[r]
    <3>1. r = "SK" => s.gap # "slash"
      BY DEF Unreadable
    <3> QED BY <1>4, <2>1, <3>1 DEF ExactLists
  <2> QED BY <1>3, <2>2, <2>3, <2>4
<1>13. CASE /\ r \notin {"NL", "CZ", "RO", "PL", "DE", "FR"}
            /\ r \notin BelgianRegions /\ r \notin DOMAIN ExactLists
  <2>1. ~TolledBy(r, s)
    BY <1>13 DEF TolledBy
  <2>2. ~Listed(r, s)
    BY <1>13 DEF Listed, ExactLists
  <2> QED BY <2>1, <2>2
<1> QED BY <1>5, <1>6, <1>7, <1>8, <1>9, <1>10, <1>11, <1>12, <1>13

\* A street is charged the rate of its region exactly when one of its signs is
\* on the country's list, however it is written, or the country tolls every
\* street (toll_roads.go:12-56 over internal/data/toll_roads_eu.go).
THEOREM ListsDecide == TariffSpec => []ListedRoadsAreTolled
<1>1. ASSUME TariffInv, maneuver # NoManeuver, maneuver.street.words = {},
             \A s \in maneuver.street.signs :
                 Written(maneuver.region, s) /\ ~Unreadable(maneuver.region, s)
      PROVE  maneuver.rate =
                 IF maneuver.region = "CH" \/ \E s \in maneuver.street.signs : Listed(maneuver.region, s)
                 THEN Lookup(maneuver.region, vehicle) ELSE 0
  <2> DEFINE r == maneuver.region
             street == maneuver.street
  <2>1. street.signs \subseteq Signs
    BY <1>1, ManeuverFacts
  <2>2. NamedIn(r, street.words) <=> r = "CH"
    BY <1>1 DEF NamedIn
  <2>3. \A s \in street.signs : TolledBy(r, s) <=> Listed(r, s)
    BY <1>1, <2>1, ListedIsTolled
  <2>4. IsTollRoad(r, street) <=> r = "CH" \/ \E s \in street.signs : Listed(r, s)
    BY <2>1, <2>2, <2>3, OneSignDecides
  <2> QED BY <1>1, <2>4, ManeuverFacts
<1>2. TariffInv => ListedRoadsAreTolled
  BY <1>1 DEF ListedRoadsAreTolled
<1> QED BY <1>2, TariffInvariant, PTL

=============================================================================
