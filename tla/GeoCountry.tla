------------------------------ MODULE GeoCountry ------------------------------
(***************************************************************************)
(* countryFromCoord of internal/service/countries.go: the first polygon in *)
(* order of priority that holds the point, by ray casting; the loop of     *)
(* pointInPolygon goes over one side of a polygon per step.                *)
(*                                                                         *)
(* Coordinates are integers, <<lat, lon>>, and the comparison with the     *)
(* crossing is multiplied out; rounding of floating point is left out.     *)
(***************************************************************************)
EXTENDS Integers, SequencesExt

CONSTANTS
    Maps,       \* lists of polygons, one for each country, by priority
    Places      \* points looked up

ASSUME MapAssumption == \A m \in Maps : m \in Seq(Seq(Int \X Int))
ASSUME PlaceAssumption == Places \subseteq Int \X Int

VARIABLES
    polygons,   \* the polygons of the countries: countryPolygons
    place,      \* the point looked up
    country,    \* which polygon is being tested,
    side,       \* which of its sides,
    inside,     \* and what is known by now
    found       \* the answer: a position in polygons, or 0 for none

lookupVars == <<polygons, place, country, side, inside, found>>

Looking == -1
None    == 0

LookupInit ==
    /\ polygons \in Maps
    /\ place \in Places
    /\ country = 1
    /\ side = 1
    /\ inside = FALSE
    /\ found = Looking

-----------------------------------------------------------------------------
(* pointInPolygon *)

Polygon == polygons[country]

\* With fewer than three corners there is nothing to cross.
SideCount == IF Len(Polygon) < 3 THEN 0 ELSE Len(Polygon)

\* Mistake: a side that only touches the line of the point crosses it.
Straddles_Touching(p, q) == (p[1] >= place[1]) # (q[1] > place[1])

\* One end of the side is above the point, the other is not.
Straddles(p, q) == (p[1] > place[1]) # (q[1] > place[1])

\* The side crosses the ray: the point is left of where it does.
Crossed(p, q) ==
    /\ Straddles(p, q)
    /\ LET height == q[1] - p[1]
           left   == (place[2] - p[2]) * height
           at     == (place[1] - p[1]) * (q[2] - p[2])
       IN  IF height > 0 THEN left < at ELSE left > at

\* The side from the corner before to this one.
TestSide ==
    /\ found = Looking
    /\ side <= SideCount
    /\ LET p == Polygon[side]
           q == Polygon[IF side = 1 THEN Len(Polygon) ELSE side - 1]
       IN  inside' = (inside # Crossed(p, q))
    /\ side' = side + 1
    /\ UNCHANGED <<polygons, place, country, found>>

-----------------------------------------------------------------------------
(* countryFromCoord *)

Inside ==
    /\ found = Looking
    /\ side > SideCount
    /\ inside
    /\ found' = country
    /\ UNCHANGED <<polygons, place, country, side, inside>>

Outside ==
    /\ found = Looking
    /\ side > SideCount
    /\ ~inside
    /\ country' = country + 1
    /\ IF country < Len(polygons) THEN side' = 1 /\ UNCHANGED found
                                  ELSE found' = None /\ UNCHANGED side
    /\ UNCHANGED <<polygons, place, inside>>

Lookup == TestSide \/ Inside \/ Outside

LookupSpec == LookupInit /\ [][Lookup]_lookupVars

=============================================================================
