---------------------------- MODULE EdgeEnrichment ----------------------------
(***************************************************************************)
(* enrichLeg of internal/service/valhalla.go: the handler starts one       *)
(* goroutine per chunk of the leg, each takes one of Slots places of a     *)
(* semaphore, asks /trace_attributes (external) and writes its own cell of *)
(* `traces`; the handler waits for all of them on a WaitGroup, stitches    *)
(* the matched chunks together and replaces the leg's points and           *)
(* maneuvers, or leaves them as they are.  A leg of a single point has no  *)
(* chunks; it is left as it is at once.                                    *)
(*                                                                         *)
(* A trace is given by its number n of shape points, which the model       *)
(* numbers 0..n-1, with one edge between each two of them.                 *)
(***************************************************************************)
EXTENDS Integers, SequencesExt

CONSTANTS
    N,          \* chunks of the leg: len(chunks)
    Slots,      \* capacity of the semaphore: 8
    MaxPoints   \* the most shape points of one trace

ASSUME ChunkAssumption == N \in Nat \ {0} /\ Slots \in Nat \ {0} /\ MaxPoints \in Nat

Chunks == 1..N

VARIABLES
    main,       \* the handler: "short" on a leg of a single point, or
                \* "spawn", "wait", "stitch"; then "returned"
    spawned,    \* goroutines started
    worker,     \* per chunk, where its goroutine is
    semaphore,  \* places taken
    running,    \* the WaitGroup's counter
    traces,     \* per chunk, the trace received, Nil before and on failure
    asked,      \* per chunk, whether the engine's reply is in
    leg,        \* leg.Points and leg.Maneuvers
    result      \* what enrichLeg returned

vars == <<main, spawned, worker, semaphore, running, traces, asked, leg, result>>

Nil    == 0
Coarse == [edges |-> "maneuvers"]

Init ==
    /\ main \in {"short", "spawn"}
    /\ spawned = 0
    /\ worker = [i \in Chunks |-> "unborn"]
    /\ semaphore = 0
    /\ running = 0
    /\ traces = [i \in Chunks |-> Nil]
    /\ asked = [i \in Chunks |-> FALSE]
    /\ leg = Coarse
    /\ result = "none"

-----------------------------------------------------------------------------
(* The goroutine of a chunk. *)

Goto(i, l) == worker' = [worker EXCEPT ![i] = l]

\* Mistake: the channel has no capacity limit.
Acquire_Unbounded(i) ==
    /\ worker[i] = "ready"
    /\ semaphore' = semaphore + 1
    /\ Goto(i, "tracing")
    /\ UNCHANGED <<main, spawned, running, traces, asked, leg, result>>

\* semaphore <- struct{}{}: blocks while all places are taken.
Acquire(i) ==
    /\ worker[i] = "ready"
    /\ semaphore < Slots
    /\ semaphore' = semaphore + 1
    /\ Goto(i, "tracing")
    /\ UNCHANGED <<main, spawned, running, traces, asked, leg, result>>

\* Mistake: a failed trace returns before the place is given back.
Trace_Leaks(i, n) ==
    /\ worker[i] = "tracing"
    /\ traces' = [traces EXCEPT ![i] = n]
    /\ asked' = [asked EXCEPT ![i] = TRUE]
    /\ Goto(i, IF n = Nil THEN "released" ELSE "leaving")
    /\ UNCHANGED <<main, spawned, semaphore, running, leg, result>>

\* traceChunk returns: a failure of any kind leaves the cell nil.  The edges
\* are never empty, the shape may be a single point.
Trace(i, n) ==
    /\ worker[i] = "tracing"
    /\ traces' = [traces EXCEPT ![i] = n]
    /\ asked' = [asked EXCEPT ![i] = TRUE]
    /\ Goto(i, "leaving")
    /\ UNCHANGED <<main, spawned, semaphore, running, leg, result>>

\* The deferred calls run last in, first out: the place, then wg.Done.
Release(i) ==
    /\ worker[i] = "leaving"
    /\ semaphore' = semaphore - 1
    /\ Goto(i, "released")
    /\ UNCHANGED <<main, spawned, running, traces, asked, leg, result>>

Done(i) ==
    /\ worker[i] = "released"
    /\ running' = running - 1
    /\ Goto(i, "done")
    /\ UNCHANGED <<main, spawned, semaphore, traces, asked, leg, result>>

-----------------------------------------------------------------------------
(* The handler. *)

\* The early return: fewer than two points.
TooShort ==
    /\ main = "short"
    /\ result' = "false"
    /\ main' = "returned"
    /\ UNCHANGED <<spawned, worker, semaphore, running, traces, asked, leg>>

\* Mistake: wg.Add is forgotten for the first goroutine.
Spawn_NoAdd ==
    /\ main = "spawn"
    /\ spawned < N
    /\ spawned' = spawned + 1
    /\ running' = IF spawned = 0 THEN running ELSE running + 1
    /\ Goto(spawned + 1, "ready")
    /\ UNCHANGED <<main, semaphore, traces, asked, leg, result>>

\* wg.Add(1), go func: one chunk after the other.
Spawn ==
    /\ main = "spawn"
    /\ spawned < N
    /\ spawned' = spawned + 1
    /\ running' = running + 1
    /\ Goto(spawned + 1, "ready")
    /\ UNCHANGED <<main, semaphore, traces, asked, leg, result>>

Spawned ==
    /\ main = "spawn"
    /\ spawned = N
    /\ main' = "wait"
    /\ UNCHANGED <<spawned, worker, semaphore, running, traces, asked, leg, result>>

\* Mistake: the handler waits for the first goroutine only.
Wait_ForFirst ==
    /\ main = "wait"
    /\ worker[1] = "done"
    /\ main' = "stitch"
    /\ UNCHANGED <<spawned, worker, semaphore, running, traces, asked, leg, result>>

\* wg.Wait returns.
Wait ==
    /\ main = "wait"
    /\ running = 0
    /\ main' = "stitch"
    /\ UNCHANGED <<spawned, worker, semaphore, running, traces, asked, leg, result>>

\* The loop over the traces: the points of the first, then those of each next
\* one without its first, and the edges moved by the offset where the trace's
\* point 0 lies.
NoStitch == [points |-> <<>>, edges |-> <<>>]

\* Mistake: the shared point of two chunks is counted twice.
Offset_OnePast(points) == Len(points)

Offset(points) == IF points = <<>> THEN 0 ELSE Len(points) - 1

Stitch(acc, i) ==
    LET n     == traces[i]
        new   == [j \in 1..n |-> <<i, j - 1>>]
        first == IF acc.points = <<>> THEN 1 ELSE 2
    IN  [points |-> acc.points \o SubSeq(new, first, n),
         edges  |-> acc.edges \o
                    [j \in 1..(n - 1) |-> [from |-> Offset(acc.points) + j - 1,
                                           to   |-> Offset(acc.points) + j,
                                           chunk |-> i, edge |-> j - 1]]]

Stitched ==
    LET upTo[i \in 0..N] == IF i = 0 THEN NoStitch ELSE Stitch(upTo[i - 1], i)
    IN  upTo[N]

\* A trace missing, or of less than two points.
Unusable == \E i \in Chunks : traces[i] < 2

StitchFails ==
    /\ main = "stitch"
    /\ Unusable
    /\ result' = "false"
    /\ main' = "returned"
    /\ UNCHANGED <<spawned, worker, semaphore, running, traces, asked, leg>>

StitchSucceeds ==
    /\ main = "stitch"
    /\ ~Unusable
    /\ leg' = Stitched
    /\ result' = "true"
    /\ main' = "returned"
    /\ UNCHANGED <<spawned, worker, semaphore, running, traces, asked>>

-----------------------------------------------------------------------------
Worker(i) ==
    \/ Acquire(i)
    \/ \E n \in 0..MaxPoints : Trace(i, n)
    \/ Release(i)
    \/ Done(i)

Main == TooShort \/ Spawn \/ Spawned \/ Wait \/ StitchFails \/ StitchSucceeds

Returned == main = "returned" /\ UNCHANGED vars

Next == Main \/ (\E i \in Chunks : Worker(i)) \/ Returned

\* Every runnable goroutine runs, and every trace ends: the call to the engine
\* with the HTTP client's timeout, the call for the token before it, which has
\* none, when the platform's request timeout cancels the context.
Fairness == WF_vars(Main) /\ \A i \in Chunks : WF_vars(Worker(i))

Spec == Init /\ [][Next]_vars /\ Fairness

-----------------------------------------------------------------------------
(* Properties *)

\* Type invariant.
TypeOK ==
    /\ main \in {"short", "spawn", "wait", "stitch", "returned"}
    /\ spawned \in 0..N
    /\ worker \in [Chunks -> {"unborn", "ready", "tracing", "leaving", "released", "done"}]
    /\ semaphore \in 0..Slots
    /\ running \in 0..N
    /\ traces \in [Chunks -> 0..MaxPoints]
    /\ asked \in [Chunks -> BOOLEAN]
    /\ result \in {"none", "true", "false"}

\* The engine never sees more than Slots traces of a leg at a time
\* (valhalla.go:202-208), and the places taken are exactly those of the
\* goroutines between their send and their receive: none is leaked or given
\* back twice.
Holds == {i \in Chunks : worker[i] \in {"tracing", "leaving"}}
BoundedTraces == semaphore = Cardinality(Holds) /\ semaphore <= Slots

\* The handler goes past wg.Wait only when no goroutine can touch a trace or
\* read the leg any more (valhalla.go:215): this is what makes the unlocked
\* writes to `traces` and the replacement of leg.Points safe.
Alive == {i \in Chunks : worker[i] \notin {"unborn", "done"}}
WaitGroupCounts == running = Cardinality(Alive)
NoReaderLeft == main \in {"stitch", "returned"} => Alive = {}

\* The leg as EnrichedLeg describes it: its points and edges by position.
ByPosition ==
    IF leg = Coarse THEN Coarse
    ELSE [edges |-> {leg.edges[k] : k \in DOMAIN leg.edges},
          shape |-> {[at |-> k - 1, chunk |-> leg.points[k][1], point |-> leg.points[k][2]] :
                        k \in DOMAIN leg.points}]

\* A leg of a single point has nothing to match from the start.
Short == main = "short" \/ (main = "returned" /\ spawned = 0)

Replies == [i \in Chunks |-> IF asked[i] THEN traces[i] ELSE IF Short THEN Nil ELSE -1]

Promise == INSTANCE EnrichedLeg WITH
               reply <- Replies,
               leg <- ByPosition

\* The concurrent enrichment implements the atomic one: all or nothing, in the
\* order of the road whatever the order of the replies, and it ends.
ImplementsEnrichedLeg == Promise!Spec

=============================================================================
