---------------------------- MODULE MCCountrySplit ----------------------------
(* A leg of six points, two of them one place, for TLC: hops of 1, 2, 0, 4   *)
(* and 8, so that a distance tells which hops it is the distance of.         *)
EXTENDS CountrySplit

MCHop == [i \in 0..(LastPoint - 1) |-> <<1, 2, 0, 4, 8>>[i + 1]]
=============================================================================
