------------------------------ MODULE MCCache ------------------------------
(* A small cache for TLC: more keys than places, and time enough for one   *)
(* entry to expire while others are still alive.                           *)
EXTENDS CacheHistory

\* Keys are interchangeable, and so are bodies; no property of this
\* configuration is a liveness property.
Interchangeable == Permutations(Keys) \cup Permutations(Bodies)
=============================================================================
