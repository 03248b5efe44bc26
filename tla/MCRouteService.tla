---------------------------- MODULE MCRouteService ----------------------------
(* A few concurrent requests for TLC: enough for two of them to miss the     *)
(* cache together and a third to hit it, be evicted or find it expired.      *)
EXTENDS RouteService

\* The calls are interchangeable; used by the runs without liveness only.
Interchangeable == Permutations(Calls)
=============================================================================
