------------------------------ MODULE TollRoads ------------------------------
(***************************************************************************)
(* IsTollRoad (internal/service/toll_roads.go, toll_roads_nl.go): whether  *)
(* the names of a street name a toll road of a country, by the lists of    *)
(* internal/data/toll_roads_eu.go.                                         *)
(*                                                                         *)
(* A street carries signs, [letters, gap, number, suffix], and words.      *)
(* "A 3" has gap "space", "I/35" gap "slash", "DN1a" suffix "a"; where     *)
(* there is nothing, gap and suffix are "none".  A word is a listed name   *)
(* that occurs in a street name; o: is written for o-umlaut, o/ for        *)
(* o-slash and ae/ for the ligature.                                       *)
(***************************************************************************)
EXTENDS Integers

\* The keys of a list: letters with each of the numbers.
Roads(letters, numbers) ==
    {[letters |-> letters, gap |-> "none", number |-> n, suffix |-> "none"] : n \in numbers}

ClassI(numbers) == {[r EXCEPT !.gap = "slash"] : r \in Roads("I", numbers)}

Branches(letters, numbers, suffix) ==
    {[r EXCEPT !.suffix = suffix] : r \in Roads(letters, numbers)}

-----------------------------------------------------------------------------
(* The lists. *)

DE_TollPrefixes == {"A", "B"}

AT_TollRoads == Roads("A", (1..14) \cup {21, 22, 23, 25, 26})
                \cup Roads("S", (1..6) \cup {10, 16, 31, 33, 35, 36, 37})

FR_FreeAutoroutes ==
    Roads("A", {16, 25, 34, 35, 36, 55, 75, 82, 84, 500, 507, 520, 570, 620, 621,
                624, 630, 660, 680})
    \cup Branches("A", {11, 26, 28, 84}, "b")

BE_TollMotorways ==
    Roads("E", {17, 19, 25, 34, 40, 42, 313, 314, 403, 411})
    \cup Roads("A", (1..4) \cup {7, 8, 10} \cup (12..15) \cup {17, 19, 21} \cup (25..28)
                    \cup {54, 501, 503, 601, 602, 604})
    \cup Roads("R", (0..6) \cup {8, 9})

BE_TollNRoads ==
    Roads("N", (3..9) \cup {20, 25, 29, 36, 49, 54, 58, 60, 62, 63, 80, 82, 83, 89, 90,
                            97, 171, 184, 257, 271, 280, 320, 329, 350, 368, 382, 391, 602})

IT_TollRoads == Roads("A", (1..16) \cup {18} \cup (20..35))

ES_TollRoads == Roads("AP", {1, 2, 4, 6, 7, 8, 9, 15, 36, 41, 46, 51, 53, 61, 66, 68, 71})
                \cup Roads("C", 31..33)

PL_TollAutostrady == Roads("A", {1, 2, 4, 6, 8, 18})

PL_TollEkspresowe == Roads("S", (1..3) \cup (5..8) \cup (10..12) \cup
                                {14, 16, 17, 19, 22, 51, 52, 61, 69, 74, 79, 86})

PL_TollDrogiKrajowe ==
    Roads("DK", (1..12) \cup (14..20) \cup (77..79) \cup
                {22, 25, 28, 32, 36, 44, 46, 50, 61, 63, 73, 74, 81, 86, 88, 91, 92, 94})

CZ_TollDalnice == Roads("D", (0..8) \cup {10, 11, 35, 46, 48, 52, 55, 56})

CZ_TollClassI ==
    ClassI((6..9) \cup (33..38) \cup (48..50) \cup (55..58) \cup (67..69) \cup
           {3, 11, 13, 14, 16, 20, 21, 23, 25, 27, 43, 44, 46, 52, 53})

HU_TollRoads == Roads("M", (0..9) \cup {15, 19, 25, 30, 31, 35, 43, 44, 60, 70, 85, 86})

SK_TollRoads == Roads("D", 1..4) \cup Roads("R", 1..7)
                \cup ClassI({2, 9, 11, 18, 50, 51, 59, 61, 63, 65, 66, 68, 75})

SI_TollRoads == Roads("A", 1..5) \cup Roads("H", 2..7)

PT_TollRoads == Roads("A", (1..17) \cup (22..25) \cup (27..29) \cup {32, 33} \cup (41..44))

BG_TollRoads == Roads("A", 1..6) \cup Roads("I", (1..6) \cup {8, 9})

RO_TollAutostrazi == Roads("A", (0..4) \cup {7, 10, 11})

RO_TollDN == Roads("DN", (1..3) \cup (5..7) \cup (13..15) \cup (65..69) \cup {17, 28, 39, 73})
             \cup Branches("DN", {1, 2}, "A")

HR_TollRoads == Roads("A", 1..11)

SE_TollBridges == {"o:resundsbron", "oresundsbron", "o/resund", "svinesundsbron", "svinesund",
                   "sundsvallsbron", "sundsvall", "motalastro:m", "motala"}

DK_TollBridges == {"storebae/lt", "storebaelt", "great belt", "o/resund", "oresund", "o:resund"}

nlTollRoads ==
    Roads("A", {1, 2, 12, 13, 20, 22, 32, 35, 37, 38, 44, 50, 58, 59, 65, 67, 73, 74, 76, 77,
                200, 205, 208, 256, 325, 326, 348, 838}
               \cup (4..10) \cup (15..18) \cup (27..30))
    \cup Roads("N", {2, 11, 44, 50, 65, 79, 201, 207, 209, 212, 214, 221, 225, 230, 235, 237,
                     244, 246, 247, 260, 263, 268, 285, 401, 470, 640, 641, 781}
                    \cup (278..282) \cup (321..325))

nlMunicipalTollNames == {"parallelroute", "waterlinieweg", "vlijmenseweg", "noorderbrug"}

-----------------------------------------------------------------------------
(* Matching the names of a street. *)

\* strings.ToUpper.
Upper(suffix) == CASE suffix = "a" -> "A" [] suffix = "b" -> "B" [] OTHER -> suffix

Uppercase(signs) == {[s EXCEPT !.suffix = Upper(@)] : s \in signs}

\* Mistake: the gap is taken into the reference.
Ref_Spaced(s) == [s EXCEPT !.suffix = Upper(@)]

\* A sign as a reference: upper case, without the gap.
Ref(s) == [s EXCEPT !.gap = "none", !.suffix = Upper(@)]

extractRoadRefs(signs) ==
    {Ref(s) : s \in {t \in signs : t.gap \in {"none", "space"} /\ t.number < 10000}}

\* The signs a pattern of its own finds: letters, gaps allowed, numbers below
\* a bound, no suffix.
Patterns(signs, letters, gaps, bound) ==
    {s \in signs : s.letters = letters /\ s.gap \in gaps /\ s.number < bound /\ s.suffix = "none"}

EuropeanRoutes(signs) == Patterns(signs, "E", {"none", "space"}, 1000)

matchesExactList(street, list) == extractRoadRefs(street.signs) \cap list # {}

\* The reference goes on with a digit after the prefix.
matchesDEPrefixes(street) ==
    \E r \in extractRoadRefs(street.signs) : r.letters \in DE_TollPrefixes /\ r.gap = "none"

matchesFrance(street) ==
    \E r \in extractRoadRefs(street.signs) :
        r.letters = "A" /\ r.gap = "none" /\ r \notin FR_FreeAutoroutes

matchesBelgium(street) ==
    \/ matchesExactList(street, BE_TollMotorways) \/ matchesExactList(street, BE_TollNRoads)
    \/ {[s EXCEPT !.gap = "none"] : s \in EuropeanRoutes(street.signs)} \cap BE_TollMotorways # {}

matchesPoland(street) ==
    \/ \E list \in {PL_TollAutostrady, PL_TollEkspresowe, PL_TollDrogiKrajowe} :
           matchesExactList(street, list)
    \/ Patterns(street.signs, "DK", {"none"}, 1000) \cap PL_TollDrogiKrajowe # {}

\* Mistake: class I roads have one digit.
matchesCzechia_OneDigit(street) ==
    \/ matchesExactList(street, CZ_TollDalnice)
    \/ Patterns(street.signs, "I", {"slash"}, 10) \cap CZ_TollClassI # {}

matchesCzechia(street) ==
    \/ matchesExactList(street, CZ_TollDalnice)
    \/ Patterns(street.signs, "I", {"slash"}, 100) \cap CZ_TollClassI # {}

\* A DN reference may end in a letter, and has no gap.
matchesRomania(street) ==
    \/ matchesExactList(street, RO_TollAutostrazi)
    \/ {s \in Uppercase(street.signs) : s.letters = "DN" /\ s.gap = "none" /\ s.number < 1000}
       \cap RO_TollDN # {}

matchesBridgeNames(street, names) == street.words \cap names # {}

IsNLTollRoad(street) ==
    \/ \E l \in {"A", "N"} : Patterns(street.signs, l, {"none"}, 1000) \cap nlTollRoads # {}
    \/ EuropeanRoutes(street.signs) # {}
    \/ street.words \cap nlMunicipalTollNames # {}

\* The countries whose streets are looked up in one list.
ExactLists ==
    [AT |-> AT_TollRoads, IT |-> IT_TollRoads, ES |-> ES_TollRoads, HU |-> HU_TollRoads,
     SK |-> SK_TollRoads, SI |-> SI_TollRoads, PT |-> PT_TollRoads, BG |-> BG_TollRoads,
     HR |-> HR_TollRoads]

BridgeNames == [SE |-> SE_TollBridges, DK |-> DK_TollBridges]

\* The regions Belgium is priced by.
BelgianRegions == {"BE", "BE-VLG", "BE-WAL", "BE-BRU"}

IsTollRoad(country, street) ==
    \/ country = "CH"
    \/ country = "NL" /\ IsNLTollRoad(street)
    \/ country = "DE" /\ matchesDEPrefixes(street)
    \/ country = "FR" /\ matchesFrance(street)
    \/ country \in BelgianRegions /\ matchesBelgium(street)
    \/ country = "PL" /\ matchesPoland(street)
    \/ country = "CZ" /\ matchesCzechia(street)
    \/ country = "RO" /\ matchesRomania(street)
    \/ country \in DOMAIN ExactLists /\ matchesExactList(street, ExactLists[country])
    \/ country \in DOMAIN BridgeNames /\ matchesBridgeNames(street, BridgeNames[country])

=============================================================================
