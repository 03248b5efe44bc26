---------------------------- MODULE ExpiringStore ----------------------------
(***************************************************************************)
(* What a caller of the response cache may rely on, without its list, its  *)
(* map and its evictions: a lookup answers either "nothing" or exactly     *)
(* what was stored last under that key, and never after its time to live.  *)
(* That it may forget at any time is what makes it a cache.                *)
(***************************************************************************)
EXTENDS Integers

CONSTANTS Keys, Bodies, TTL

VARIABLES
    clock,      \* the time
    latest,     \* key -> [body, expires], what was stored last under it
    reply       \* the answer of the last lookup

storeVars == <<clock, latest, reply>>

NoReply   == [asked |-> FALSE]
Miss(k)   == [asked |-> TRUE, key |-> k, hit |-> FALSE]
Hit(k, b) == [asked |-> TRUE, key |-> k, hit |-> TRUE, body |-> b]

Init ==
    /\ clock = 0
    /\ latest = [k \in {} |-> {}]
    /\ reply = NoReply

LookupMiss(k) ==
    /\ reply' = Miss(k)
    /\ UNCHANGED <<clock, latest>>

LookupHit(k) ==
    /\ k \in DOMAIN latest
    /\ clock <= latest[k].expires
    /\ reply' = Hit(k, latest[k].body)
    /\ UNCHANGED <<clock, latest>>

Store(k, b) ==
    /\ latest' = [j \in DOMAIN latest \cup {k} |->
                      IF j = k THEN [body |-> b, expires |-> clock + TTL]
                               ELSE latest[j]]
    /\ reply' = NoReply
    /\ UNCHANGED clock

Advance ==
    /\ clock' = clock + 1
    /\ reply' = NoReply
    /\ UNCHANGED latest

Wipe ==
    /\ latest' = [k \in {} |-> {}]
    /\ reply' = NoReply
    /\ UNCHANGED clock

Next ==
    \/ \E k \in Keys : LookupMiss(k) \/ LookupHit(k)
    \/ \E k \in Keys, b \in Bodies : Store(k, b)
    \/ Advance
    \/ Wipe

Spec == Init /\ [][Next]_storeVars

=============================================================================
