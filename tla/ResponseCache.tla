---------------------------- MODULE ResponseCache ----------------------------
(***************************************************************************)
(* The in-memory response cache of internal/handler/cache.go: a map from   *)
(* keys to entries and a doubly linked recency list, both under one mutex, *)
(* so that Get and Set are each one atomic step.                           *)
(*                                                                         *)
(* A key stands for endpoint ":" sha256(body), an entry's body for the     *)
(* marshalled response.  `order` is the list, front (most recently used)   *)
(* first.  The list elements hold the entries in the code and the map      *)
(* points at them; here the map holds the entries and the list the keys.   *)
(***************************************************************************)
EXTENDS Integers, SequencesExt

CONSTANTS
    Keys,       \* request identities
    Bodies,     \* marshalled responses
    MaxSize,    \* maxSize: 256 in NewRouteHandler
    TTL,        \* ttl: 15 minutes in NewRouteHandler
    MaxClock    \* bound of the model: the clock stops there

ASSUME SizeAssumption  == MaxSize \in Nat \ {0}
ASSUME TTLAssumption   == TTL \in Nat
ASSUME ClockAssumption == MaxClock \in Nat

VARIABLES
    clock,      \* what time.Now() returns
    entries,    \* key -> entry, for the keys cached
    order       \* the keys cached, most recently used first

cacheVars == <<clock, entries, order>>

Entry == [body : Bodies, expires : Nat]

Cached(k) == k \in DOMAIN entries

Position(k) == CHOOSE i \in DOMAIN order : order[i] = k

MoveToFront(k) == <<k>> \o RemoveAt(order, Position(k))

\* time.Now().After(entry.expires): an entry is still served at the very
\* instant it expires.
Expired(k) == clock > entries[k].expires

NewEntry(b) == [body |-> b, expires |-> clock + TTL]

NoEntries == [k \in {} |-> {}]

CacheInit ==
    /\ clock = 0
    /\ entries = NoEntries
    /\ order = <<>>

\* Get of an absent key.
GetAbsent(k) ==
    /\ ~Cached(k)
    /\ UNCHANGED cacheVars

\* Get of an expired entry: removed from the list and the map, reported
\* absent.
GetExpired(k) ==
    /\ Cached(k)
    /\ Expired(k)
    /\ order' = RemoveAt(order, Position(k))
    /\ entries' = [j \in DOMAIN entries \ {k} |-> entries[j]]
    /\ UNCHANGED clock

\* Mistake: the element stays where it is on the list.
GetHit_NoMove(k) ==
    /\ Cached(k)
    /\ ~Expired(k)
    /\ UNCHANGED cacheVars

\* Mistake: the expiry is not looked at.
GetHit_Stale(k) ==
    /\ Cached(k)
    /\ order' = MoveToFront(k)
    /\ UNCHANGED <<clock, entries>>

\* Get of a live entry: the caller receives entries[k].body.
GetHit(k) ==
    /\ Cached(k)
    /\ ~Expired(k)
    /\ order' = MoveToFront(k)
    /\ UNCHANGED <<clock, entries>>

\* Mistake: the overwritten entry keeps its old expiry.
SetExisting_KeepsExpiry(k, b) ==
    /\ Cached(k)
    /\ entries' = [entries EXCEPT ![k].body = b]
    /\ order' = MoveToFront(k)
    /\ UNCHANGED clock

\* Set of a key the cache holds, expired or not.
SetExisting(k, b) ==
    /\ Cached(k)
    /\ entries' = [entries EXCEPT ![k] = NewEntry(b)]
    /\ order' = MoveToFront(k)
    /\ UNCHANGED clock

\* Mistake: one entry too many is evicted.
Retained_OneLess == SubSeq(order, 1, IF Len(order) < MaxSize - 1 THEN Len(order)
                                                              ELSE MaxSize - 2)

\* What the loop at the top of an insertion leaves: while the map holds
\* MaxSize entries or more, the back of the list goes.
Retained == SubSeq(order, 1, IF Len(order) < MaxSize THEN Len(order)
                                                     ELSE MaxSize - 1)
Evicted  == {order[i] : i \in {i \in DOMAIN order : i > Len(Retained)}}

\* Mistake: the evicted key is not deleted from the map.
SetNew_LeavesEvicted(k, b) ==
    /\ ~Cached(k)
    /\ order' = <<k>> \o Retained
    /\ entries' = [j \in DOMAIN entries \cup {k} |->
                       IF j = k THEN NewEntry(b) ELSE entries[j]]
    /\ UNCHANGED clock

SetNew(k, b) ==
    /\ ~Cached(k)
    /\ order' = <<k>> \o Retained
    /\ entries' = [j \in (DOMAIN entries \ Evicted) \cup {k} |->
                       IF j = k THEN NewEntry(b) ELSE entries[j]]
    /\ UNCHANGED clock

Get(k) == GetAbsent(k) \/ GetExpired(k) \/ GetHit(k)

Set(k, b) == SetExisting(k, b) \/ SetNew(k, b)

\* Time passes between two holders of the mutex.
Tick ==
    /\ clock < MaxClock
    /\ clock' = clock + 1
    /\ UNCHANGED <<entries, order>>

\* A deploy or a crash replaces the instance, which starts empty.
Restart ==
    /\ entries' = NoEntries
    /\ order' = <<>>
    /\ UNCHANGED clock

CacheNext ==
    \/ \E k \in Keys : Get(k)
    \/ \E k \in Keys, b \in Bodies : Set(k, b)
    \/ Tick
    \/ Restart

CacheSpec == CacheInit /\ [][CacheNext]_cacheVars

-----------------------------------------------------------------------------
(* Properties *)

\* Type invariant: the clock, the map and the list hold what the Go types say.
CacheTypeOK ==
    /\ clock \in Nat
    /\ DOMAIN entries \subseteq Keys
    /\ entries \in [DOMAIN entries -> Entry]
    /\ order \in Seq(Keys)

\* The map and the list agree: every cached key is on the list exactly once
\* and nothing else is, so that the element evicted from the back of the list
\* (cache.go:79-84) is the element whose key is deleted from the map.
Listed == {order[i] : i \in DOMAIN order} = DOMAIN entries

NoDuplicates == \A i, j \in DOMAIN order : i # j => order[i] # order[j]

\* The cache never exceeds its capacity (cache.go:79), whatever mix of
\* overwrites, insertions and expiries came before.
WithinCapacity == Len(order) <= MaxSize

Coherent == Listed /\ NoDuplicates /\ WithinCapacity

=============================================================================
