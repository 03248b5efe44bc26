------------------------------ MODULE MCTollWalk ------------------------------
(* Two regions of one country with different rates, and a second country.    *)
EXTENDS TollWalk

MCRegions   == {"BE-VLG", "BE-WAL", "DE"}
MCCountries == {"BE", "DE"}
MCIso       == [r \in MCRegions |-> IF r = "DE" THEN "DE" ELSE "BE"]
MCRate      == [r \in MCRegions |->
                   CASE r = "BE-VLG" -> 2 [] r = "BE-WAL" -> 3 [] r = "DE" -> 1]
=============================================================================
