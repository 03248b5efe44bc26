---------------------------- MODULE ShapeCountries ----------------------------
(***************************************************************************)
(* How parseResponse learns the countries along a leg                      *)
(* (internal/service/valhalla.go): the shape of the leg is decoded         *)
(* (Polyline), then each of its points is looked up on the map of polygons *)
(* (GeoCountry).  The engine is taken to encode as encodePolyline does.    *)
(***************************************************************************)
EXTENDS Polyline, GeoCountry

\* Positive when q lies to the left of the line from o to p.
Cross(o, p, q) == (p[1] - o[1]) * (q[2] - o[2]) - (p[2] - o[2]) * (q[1] - o[1])

\* The simplest maps with a border: two triangles that go round
\* counter-clockwise, on both sides of a common side.
ASSUME TriangleAssumption ==
    \A m \in Maps :
        /\ Len(m) = 2
        /\ \A k \in 1..2 : Len(m[k]) = 3 /\ Cross(m[k][1], m[k][2], m[k][3]) > 0
        /\ m[1][2] = m[2][3] /\ m[1][3] = m[2][2]

VARIABLE located    \* the answers for the points looked up

shapeVars == <<codecVars, lookupVars, located>>

ShapeInit ==
    /\ CodecInit
    /\ polygons \in Maps
    /\ place = Origin /\ country = 1 /\ side = 1 /\ inside = FALSE /\ found = None
    /\ located = <<>>

DecodeShape == Decode /\ UNCHANGED <<lookupVars, located>>

\* The loop of splitManeuverByCountry turns to the next point of the shape.
NextPoint ==
    /\ Finished
    /\ found # Looking
    /\ Len(located) < Len(decoded)
    /\ place' = decoded[Len(located) + 1]
    /\ country' = 1 /\ side' = 1 /\ inside' = FALSE /\ found' = Looking
    /\ UNCHANGED <<codecVars, polygons, located>>

LookUp ==
    /\ Lookup
    /\ located' = IF found' = Looking THEN located ELSE Append(located, found')
    /\ UNCHANGED codecVars

Done == Finished /\ Len(located) = Len(points)

ShapeNext == DecodeShape \/ NextPoint \/ LookUp \/ (Done /\ UNCHANGED shapeVars)

ShapeSpec == ShapeInit /\ [][ShapeNext]_shapeVars

-----------------------------------------------------------------------------
(* Properties *)

\* Where a point lies with respect to a triangle: strictly to the left of every
\* side, or strictly to the right of one.
Within(t, p) ==
    Cross(t[1], t[2], p) > 0 /\ Cross(t[2], t[3], p) > 0 /\ Cross(t[3], t[1], p) > 0
Beyond(t, p) ==
    Cross(t[1], t[2], p) < 0 \/ Cross(t[2], t[3], p) < 0 \/ Cross(t[3], t[1], p) < 0

\* On the side two triangles share, its ends excepted.
Between(b, d, p) ==
    /\ Cross(b, d, p) = 0
    /\ (p[1] - b[1]) * (p[1] - d[1]) + (p[2] - b[2]) * (p[2] - d[2]) < 0

\* Every point of the line that was encoded is found in the country it lies in,
\* and a point beyond both countries in none, also when it is level with a
\* corner or a whole side; and their common border loses no point
\* (valhalla.go:564-584, countries.go:555-594).
FindsTheCountry ==
    \A i \in DOMAIN located :
        /\ \A k \in DOMAIN polygons : Within(polygons[k], points[i]) => located[i] = k
        /\ located[i] # None => ~Beyond(polygons[located[i]], points[i])
        /\ Between(polygons[1][2], polygons[1][3], points[i]) => located[i] # None

=============================================================================
