----------------------------- MODULE CacheHistory -----------------------------
(***************************************************************************)
(* The response cache together with what its callers remember of it: what  *)
(* they stored last under each key, which other keys were used since a key *)
(* was used itself, and what the last Get answered.  The extra variables   *)
(* observe the cache and never guard it.                                   *)
(***************************************************************************)
EXTENDS ResponseCache, FiniteSets

VARIABLES
    latest,     \* key -> entry, what was Set last since the instance started
    crowd,      \* key -> the other keys hit or Set since it was hit or Set
    reply       \* the answer of the last Get

vars == <<clock, entries, order, latest, crowd, reply>>

Abstract == INSTANCE ExpiringStore

Stored(k) == k \in DOMAIN latest

\* k becomes the most recently used key: nothing has been used since, and
\* every other key remembers that k was.
Use(k) == [j \in DOMAIN crowd \cup {k} |-> IF j = k THEN {} ELSE crowd[j] \cup {k}]

Init ==
    /\ CacheInit
    /\ latest = NoEntries
    /\ crowd = NoEntries
    /\ reply = Abstract!NoReply

LookupAbsent(k) ==
    /\ GetAbsent(k)
    /\ reply' = Abstract!Miss(k)
    /\ UNCHANGED <<latest, crowd>>

LookupExpired(k) ==
    /\ GetExpired(k)
    /\ reply' = Abstract!Miss(k)
    /\ UNCHANGED <<latest, crowd>>

\* Mistake: the entry is returned instead of its body.
LookupHit_Entry(k) ==
    /\ GetHit(k)
    /\ reply' = Abstract!Hit(k, entries[k])
    /\ crowd' = Use(k)
    /\ UNCHANGED latest

LookupHit(k) ==
    /\ GetHit(k)
    /\ reply' = Abstract!Hit(k, entries[k].body)
    /\ crowd' = Use(k)
    /\ UNCHANGED latest

Store(k, b) ==
    /\ Set(k, b)
    /\ latest' = [j \in DOMAIN latest \cup {k} |->
                      IF j = k THEN NewEntry(b) ELSE latest[j]]
    /\ crowd' = Use(k)
    /\ reply' = Abstract!NoReply

Wait ==
    /\ Tick
    /\ reply' = Abstract!NoReply
    /\ UNCHANGED <<latest, crowd>>

Replace ==
    /\ Restart
    /\ latest' = NoEntries
    /\ crowd' = NoEntries
    /\ reply' = Abstract!NoReply

Next ==
    \/ \E k \in Keys : LookupAbsent(k) \/ LookupExpired(k) \/ LookupHit(k)
    \/ \E k \in Keys, b \in Bodies : Store(k, b)
    \/ Wait
    \/ Replace

Spec == Init /\ [][Next]_vars

-----------------------------------------------------------------------------
(* Properties *)

\* Type invariant of the observers.
HistoryTypeOK ==
    /\ DOMAIN latest \subseteq Keys
    /\ latest \in [DOMAIN latest -> Entry]
    /\ DOMAIN crowd = DOMAIN latest
    /\ crowd \in [DOMAIN crowd -> {C \in SUBSET Keys : IsFiniteSet(C)}]
    /\ reply \in {Abstract!NoReply}
                 \cup {Abstract!Miss(k) : k \in Keys}
                 \cup {Abstract!Hit(k, b) : k \in Keys, b \in Bodies}

\* An entry that survives in the cache is exactly the last one Set under its
\* key, time to live included: no overwrite, eviction or move confuses two
\* keys (cache.go:71-93).
Agrees == \A k \in DOMAIN entries : Stored(k) /\ entries[k] = latest[k]

\* Everything in front of a key on the list was used after it: the list is in
\* order of recency, which is why evicting from the back evicts the least
\* recently used key (cache.go:63, 75, 80).
InFront(i) == {order[j] : j \in {j \in DOMAIN order : j < i}}
RecencyOrder == \A i \in DOMAIN order : InFront(i) \subseteq crowd[order[i]]

\* The promise of a least-recently-used cache: a stored response that is not
\* yet expired is missing only when at least MaxSize other keys were used
\* since it was.
RetainsRecent ==
    \A k \in DOMAIN latest :
        clock <= latest[k].expires /\ ~Cached(k) => Cardinality(crowd[k]) >= MaxSize

\* The cache implements the expiring store: a hit returns the latest response
\* stored under the very key asked for, never past its expiry.
ImplementsStore == Abstract!Spec

=============================================================================
