------------------------------- MODULE MCEurope -------------------------------
(* Places a quarter of a degree apart in and around Slovenia.                *)
EXTENDS Europe

MCPlaces == {<<lat, lon>> : lat \in {4525 + 25 * i : i \in 0..6},
                            lon \in {1325 + 25 * i : i \in 0..12}}
=============================================================================
