------------------------------ MODULE QueryStore ------------------------------
(***************************************************************************)
(* internal/handler/querystore.go: concurrent Put goroutines that share    *)
(* one lazily created storage client, guarded by a sync.Once, and each     *)
(* write one object to the bucket (external) under a timeout of their own. *)
(* CapturingService starts them from its handlers.                         *)
(***************************************************************************)
EXTENDS Integers, FiniteSets

CONSTANTS
    Puts,           \* the calls of Put
    Timeout,        \* 10 seconds, from when a Put has its client
    MaxClock        \* bound of the model: the clock stops there

VARIABLES
    clock,
    pc,         \* per Put, where it is
    once,       \* the sync.Once: "fresh", "running" or "done"
    client,     \* what clientOnce caches: "none", "ready" or "failed"
    inits,      \* how many times storage.NewClient was called
    since,      \* per Put, when its timeout began
    bucket,     \* the Puts whose object is in the bucket
    logged      \* the Puts that logged a failure

vars == <<clock, pc, once, client, inits, since, bucket, logged>>

Goto(p, l) == pc' = [pc EXCEPT ![p] = l]

\* Every failure is logged and swallowed: the goroutine just ends.
Swallow(p) == Goto(p, "ended") /\ logged' = logged \cup {p}

Init ==
    /\ clock = 0
    /\ pc = [p \in Puts |-> "unborn"]
    /\ once = "fresh"
    /\ client = "none"
    /\ inits = 0
    /\ since = [p \in Puts |-> 0]
    /\ bucket = {}
    /\ logged = {}

\* go h.queryStore.Put(...), up to clientOnce: the record is marshalled.
Start(p) ==
    /\ pc[p] = "unborn"
    /\ Goto(p, "once")
    /\ UNCHANGED <<clock, once, client, inits, since, bucket, logged>>

\* A record JSON cannot express ends its Put there.
MarshalFails(p) ==
    /\ pc[p] = "unborn"
    /\ Swallow(p)
    /\ UNCHANGED <<clock, once, client, inits, since, bucket>>

\* Mistake: a plain nil check instead of the sync.Once.
EnterOnce_NilCheck(p) ==
    /\ pc[p] = "once"
    /\ client = "none"
    /\ once' = "running"
    /\ inits' = inits + 1
    /\ Goto(p, "creating")
    /\ UNCHANGED <<clock, client, since, bucket, logged>>

\* Mistake: a failed initialisation is tried again.
EnterOnce_Retries(p) ==
    /\ pc[p] = "once"
    /\ once = "fresh" \/ client = "failed"
    /\ once' = "running"
    /\ client' = "none"
    /\ inits' = inits + 1
    /\ Goto(p, "creating")
    /\ UNCHANGED <<clock, since, bucket, logged>>

\* once.Do: the first to come runs storage.NewClient.
EnterOnce(p) ==
    /\ pc[p] = "once"
    /\ once = "fresh"
    /\ once' = "running"
    /\ inits' = inits + 1
    /\ Goto(p, "creating")
    /\ UNCHANGED <<clock, client, since, bucket, logged>>

\* Mistake: a failure leaves the others waiting.
ClientCreated_KeepsLock(p, outcome) ==
    /\ pc[p] = "creating"
    /\ client' = outcome
    /\ once' = IF outcome = "failed" THEN "running" ELSE "done"
    /\ Goto(p, "once")
    /\ UNCHANGED <<clock, inits, since, bucket, logged>>

\* storage.NewClient returns.  Its context is the background context.
ClientCreated(p, outcome) ==
    /\ pc[p] = "creating"
    /\ client' = outcome
    /\ once' = "done"
    /\ Goto(p, "once")
    /\ UNCHANGED <<clock, inits, since, bucket, logged>>

\* Mistake: whoever is not first does not wait for the first.
GotClient_NoWait(p) ==
    /\ pc[p] = "once"
    /\ once # "fresh"
    /\ client # "failed"
    /\ since' = [since EXCEPT ![p] = clock]
    /\ Goto(p, "writing")
    /\ UNCHANGED <<clock, once, client, inits, bucket, logged>>

\* once.Do returns at once to whoever comes when the client is there, and to
\* those it held back; the ten seconds begin.
GotClient(p) ==
    /\ pc[p] = "once"
    /\ once = "done"
    /\ client = "ready"
    /\ since' = [since EXCEPT ![p] = clock]
    /\ Goto(p, "writing")
    /\ UNCHANGED <<clock, once, client, inits, bucket, logged>>

\* Mistake: the error is not logged.
GotError_Silent(p) ==
    /\ pc[p] = "once"
    /\ once = "done"
    /\ client = "failed"
    /\ Goto(p, "ended")
    /\ UNCHANGED <<clock, once, client, inits, since, bucket, logged>>

\* The cached initialisation error, for this Put and every later one.
GotError(p) ==
    /\ pc[p] = "once"
    /\ once = "done"
    /\ client = "failed"
    /\ Swallow(p)
    /\ UNCHANGED <<clock, once, client, inits, since, bucket>>

Written(p) ==
    /\ pc[p] = "writing"
    /\ Goto(p, "closing")
    /\ UNCHANGED <<clock, once, client, inits, since, bucket, logged>>

\* A failed Write closes the writer: what reached the bucket, if anything,
\* nobody learns.
WriteFails(p) ==
    /\ pc[p] = "writing"
    /\ Swallow(p)
    /\ bucket' \in {bucket, bucket \cup {p}}
    /\ UNCHANGED <<clock, once, client, inits, since>>

Closed(p) ==
    /\ pc[p] = "closing"
    /\ Goto(p, "ended")
    /\ bucket' = bucket \cup {p}
    /\ UNCHANGED <<clock, once, client, inits, since, logged>>

\* A failed Close, the timeout's among them, may come after the object is in.
CloseFails(p) ==
    /\ pc[p] = "closing"
    /\ Swallow(p)
    /\ bucket' \in {bucket, bucket \cup {p}}
    /\ UNCHANGED <<clock, once, client, inits, since>>

\* Time passes, but no upload outlives its timeout.
Uploads == {"writing", "closing"}

Tick ==
    /\ clock < MaxClock
    /\ \A p \in Puts : pc[p] \in Uploads => clock - since[p] < Timeout
    /\ clock' = clock + 1
    /\ UNCHANGED <<pc, once, client, inits, since, bucket, logged>>

\* The instance is replaced: its client and its goroutines are gone, an object
\* being finished may have reached the bucket.
Restart ==
    /\ pc' = [p \in Puts |-> IF pc[p] \in {"unborn", "ended"} THEN pc[p] ELSE "lost"]
    /\ once' = "fresh"
    /\ client' = "none"
    /\ inits' = 0
    /\ since' = [p \in Puts |-> 0]
    /\ \E landed \in SUBSET {p \in Puts : pc[p] = "closing"} : bucket' = bucket \cup landed
    /\ UNCHANGED <<clock, logged>>

\* What the goroutine of a Put does by itself, and the return it waits for.
Step(p) ==
    \/ EnterOnce(p)
    \/ GotClient(p) \/ GotError(p)
    \/ Written(p) \/ WriteFails(p)
    \/ Closed(p) \/ CloseFails(p)

Create(p) == \E outcome \in {"ready", "failed"} : ClientCreated(p, outcome)

Next ==
    \/ \E p \in Puts : Start(p) \/ MarshalFails(p) \/ Create(p) \/ Step(p)
    \/ Restart
    \/ Tick

Spec == Init /\ [][Next]_vars

-----------------------------------------------------------------------------
(* Properties *)

\* Type invariant.
TypeOK ==
    /\ clock \in 0..MaxClock
    /\ pc \in [Puts -> {"unborn", "once", "creating", "writing", "closing", "ended", "lost"}]
    /\ once \in {"fresh", "running", "done"}
    /\ client \in {"none", "ready", "failed"}
    /\ inits \in 0..1
    /\ since \in [Puts -> 0..MaxClock]
    /\ bucket \subseteq Puts
    /\ logged \subseteq Puts

\* However many Puts race for the first client of an instance, one is created,
\* and none uses it before it is there (querystore.go:55-60).
ClientIsShared ==
    /\ inits = Cardinality({p \in Puts : pc[p] = "creating"}) + (IF once = "done" THEN 1 ELSE 0)
    /\ \A p \in Puts : pc[p] \in Uploads => client = "ready" /\ once = "done"

\* A first initialisation that failed turns capture off for as long as the
\* instance lives: no later Put retries, uploads or is left waiting
\* (querystore.go:55-60, 89-93).
FailureIsSticky ==
    [][once = "done" /\ client = "failed" /\ once' # "fresh" =>
          client' = "failed" /\ inits' = inits /\ bucket' = bucket]_vars

=============================================================================
