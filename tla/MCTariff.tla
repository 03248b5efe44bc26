------------------------------- MODULE MCTariff -------------------------------
(***************************************************************************)
(* The figures of internal/data/toll_rates.json for eight countries and    *)
(* two regions of Belgium, and those of defaultRates, for two Euro         *)
(* classes, and a file that leaves out classes, weights and brackets;      *)
(* every road the Netherlands, Flanders, France, Czechia, Slovakia and     *)
(* Romania list, in every spelling, beside roads that belong to others.    *)
(***************************************************************************)
EXTENDS Tariff

Top == 19998

ByClass(zero, six) == [e \in EuroClasses |-> IF e = "EURO_0" THEN zero ELSE six]

\* A sequence of brackets from its lower bounds.
Brackets(bounds, Of(_)) ==
    [i \in DOMAIN bounds |->
        [min |-> bounds[i], max |-> IF i < Len(bounds) THEN bounds[i + 1] ELSE Top] @@ Of(i)]

Euro(bounds, rates) == Brackets(bounds, LAMBDA i : [rates |-> rates[i]])

CO2(rates) == Brackets(<<7, 24, 36, 64>>, LAMBDA i : [rate |-> rates[i]])

Country(c, minWeight, classes, co2) ==
    [country |-> c, minWeight |-> minWeight, weightClasses |-> classes, co2ClassRates |-> co2]

\* Most countries have one bracket up to twelve tonnes and one above.
Twelve(c, zero, six, heavyZero, heavySix) ==
    Country(c, 7, Euro(<<7, 24>>, <<ByClass(zero, six), ByClass(heavyZero, heavySix)>>), <<>>)

MCFile ==
    [r \in Regions |->
        CASE r = "NL" ->
              Country("NL", 7,
                      Euro(<<7, 24, 36, 64>>,
                           <<ByClass(2780, 1140), ByClass(4000, 1600),
                             ByClass(4410, 1830), ByClass(4970, 2010)>>),
                      [k \in 2..5 |-> CASE k = 2 -> CO2(<<1030, 1450, 1660, 1830>>)
                                        [] k = 3 -> CO2(<<920, 1300, 1490, 1650>>)
                                        [] k = 4 -> CO2(<<630, 880, 1000, 1110>>)
                                        [] k = 5 -> CO2(<<250, 330, 360, 380>>)])
          [] r = "BE-VLG" ->
              Country("BE", 7,
                      Euro(<<7, 24, 64>>,
                           <<ByClass(1580, 600), ByClass(2680, 1710), ByClass(3010, 2040)>>), <<>>)
          [] r = "BE-WAL" ->
              Country("BE", 7,
                      Euro(<<7, 24, 64>>,
                           <<ByClass(1130, 560), ByClass(2200, 1630), ByClass(2510, 1940)>>), <<>>)
          [] r = "DE" ->
              Country("DE", 15,
                      Euro(<<15, 24, 36>>,
                           <<ByClass(2760, 1770), ByClass(3460, 2380), ByClass(5120, 3550)>>), <<>>)
          [] r = "CH" ->
              Country("CH", 7, Euro(<<7, 36>>, <<ByClass(321, 228), ByClass(321, 228)>>), <<>>)
          [] r = "FR" -> Twelve("FR", 1400, 1400, 2200, 2000)
          [] r = "CZ" -> Twelve("CZ", 1760, 1070, 2520, 1550)
          [] r = "PL" -> Twelve("PL", 1620, 1170, 2320, 1680)
          [] r = "RO" -> Twelve("RO", 900, 530, 1300, 760)
          [] r = "SK" -> Twelve("SK", 1500, 850, 2130, 1200)]

Flat(country, minWeight, rate) ==
    Country(country, minWeight, Euro(<<minWeight>>, <<ByClass(rate, rate)>>), <<>>)

MCDefault ==
    [r \in {"NL", "BE-VLG", "BE-WAL", "DE", "FR"} |->
        CASE r = "NL" -> Flat("NL", 7, 2010)
          [] r = "BE-VLG" -> Flat("BE", 7, 2040)
          [] r = "BE-WAL" -> Flat("BE", 7, 1940)
          [] r = "DE" -> Flat("DE", 15, 3480)
          [] r = "FR" -> Flat("FR", 7, 2000)]

\* What a file may leave out: brackets for some weights, between others and
\* above them, a class in the first, the last or every bracket, the flat rates
\* of a CO2 class, and a price that is one.
Six(rate) == [e \in {"EURO_VI"} |-> rate]
Bracket(min, max, rates) == [min |-> min, max |-> max, rates |-> rates]
FlatBracket(min, max, rate) == [min |-> min, max |-> max, rate |-> rate]

MCPartial ==
    [r \in {"NL", "BE-VLG", "BE-WAL", "DE", "FR"} |->
        CASE r = "NL" ->
              Country("NL", 7, <<Bracket(7, 24, Six(1140)), Bracket(24, 36, ByClass(4000, 1600))>>,
                      [k \in {1, 2, 3, 5} |->
                          CASE k = 1 -> <<FlatBracket(7, Top, 9990)>>
                            [] k = 2 -> <<FlatBracket(7, 24, 1030), FlatBracket(24, 36, 1450)>>
                            [] k = 3 -> <<FlatBracket(7, 36, 0)>>
                            [] k = 5 -> <<>>])
          [] r = "BE-VLG" -> Country("BE", 0, <<>>, <<>>)
          [] r = "BE-WAL" ->
              Country("BE", 7, <<Bracket(7, 24, ByClass(1130, 560)), Bracket(36, 64, Six(1630))>>, <<>>)
          [] r = "DE" ->
              Country("DE", 0, <<Bracket(7, 24, Six(1770)), Bracket(24, 36, <<>>)>>,
                      [k \in {4} |-> <<FlatBracket(7, 24, 1580)>>])
          [] r = "FR" -> Flat("FR", 7, -1)]

MCTables == {MCFile, MCDefault, MCPartial}

\* Neither of the first two leaves anything out.
ASSUME FiguresAssumption ==
    \A t \in {MCFile, MCDefault} : \A r \in DOMAIN t : Complete(t[r]) /\ Rising(t[r])

Vehicle(weight, euro, co2) == [weight |-> weight, euro |-> euro, co2 |-> co2]

\* At, between and above the bounds of brackets.
MCVehicles ==
    {Vehicle(7, "EURO_VI", 1), Vehicle(23, "EURO_0", 1), Vehicle(24, "EURO_0", 1),
     Vehicle(24, "EURO_VI", 3), Vehicle(36, "EURO_VI", 2), Vehicle(36, "EURO_0", 4),
     Vehicle(64, "EURO_0", 1), Vehicle(64, "EURO_VI", 5)}

-----------------------------------------------------------------------------
(* Streets *)

Spelled(roads) == UNION {Spellings(r) : r \in roads}

\* Roads met in every country, wherever they belong.
Others == Roads("A", {3, 84}) \cup Roads("B", {43}) \cup Roads("E", {19, 40})
          \cup Roads("N", {629}) \cup Branches("DN", {1}, "a") \cup ClassI({35, 99})

OfRegion(r) ==
    CASE r = "NL" -> nlTollRoads
      [] r = "BE-VLG" -> BE_TollMotorways \cup BE_TollNRoads
      [] r = "FR" -> FR_FreeAutoroutes \cup Roads("A", {20})
      [] r = "CZ" -> CZ_TollDalnice \cup CZ_TollClassI
      [] r = "SK" -> SK_TollRoads
      [] r = "PL" -> PL_TollAutostrady \cup Roads("DK", {1, 21, 77, 94, 95})
      [] r = "RO" -> RO_TollAutostrazi \cup RO_TollDN
      [] OTHER -> {}

Named(word) == [signs |-> {}, words |-> {word}]

Signed(signs) == [signs |-> signs, words |-> {}]

MCStreets ==
    [r \in Regions |->
        {Signed({s}) : s \in Spelled(OfRegion(r) \cup Others)}
        \cup {Signed({s, t}) : s \in Roads("A", {84}), t \in Others}
        \cup {Named(w) : w \in {"o/resund", "waterlinieweg"}} \cup {Signed({})}]
=============================================================================
