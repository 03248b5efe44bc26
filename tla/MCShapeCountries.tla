--------------------------- MODULE MCShapeCountries ---------------------------
(***************************************************************************)
(* Maps of two countries that share a border, the two halves of a          *)
(* quadrilateral cut along its diagonal, in either order; lines of up to   *)
(* two points that cross them from inside, level with corners and sides,   *)
(* or outside, with differences of one to three groups of five bits.       *)
(***************************************************************************)
EXTENDS ShapeCountries

Corners == {0, 16, 32} \X {0, 16, 32}

Cut(a, b, c, d) == <<<<a, b, d>>, <<c, d, b>>>>

\* Counter-clockwise quadrilaterals.
Convex(a, b, c, d) ==
    Cross(a, b, c) > 0 /\ Cross(b, c, d) > 0 /\ Cross(c, d, a) > 0 /\ Cross(d, a, b) > 0

MCMaps == {Cut(q[1], q[2], q[3], q[4]) :
              q \in {q \in Corners \X Corners \X Corners \X Corners :
                        Convex(q[1], q[2], q[3], q[4])}}

Grid == {0, 8, 16, 24, 32} \X {0, 8, 16, 24, 32}

MCLines == {<<>>} \cup {<<p, q>> : p \in {<<-1, 600>>, <<16, 15>>}, q \in Grid}
=============================================================================
