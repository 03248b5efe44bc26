----------------------------- MODULE RouteService -----------------------------
(***************************************************************************)
(* The request handlers of internal/handler/route.go, as the concurrent    *)
(* goroutines net/http runs them in, over the response cache they share    *)
(* (ResponseCache), the routing engine they call (external: it answers,    *)
(* fails or times out) and the query captures they leave behind, where the  *)
(* deployment has a query store.                                           *)
(*                                                                         *)
(* A handler passes through                                                *)
(*    lookup -> fetch -> trace -> compute -> write -> answered             *)
(* where fetch and trace wait for Valhalla, so that other handlers, the    *)
(* clock and a restart interleave there and between any two steps.         *)
(***************************************************************************)
EXTENDS Integers, SequencesExt

CONSTANTS
    Calls,          \* HTTP requests made during the run
    Endpoints,      \* those they are made to
    Payloads,       \* distinct request bodies
    Valid,          \* those parseAndValidate accepts
    Standstill,     \* valid ones with cargo whose route has length zero
    MaxSize, TTL,   \* of the response cache
    RequestTimeout, \* the platform's: it cancels a request that waits longer
    StoreQueries,   \* whether a deployment captures queries: those considered
    MaxClock        \* bound of the model: the clock stops there

ASSUME EndpointAssumption == Endpoints \subseteq {"route", "toll", "co2"}
ASSUME PayloadAssumption == Standstill \subseteq Valid /\ Valid \subseteq Payloads
ASSUME TimeoutAssumption == RequestTimeout \in Nat
ASSUME StoreAssumption == StoreQueries \subseteq BOOLEAN
ASSUME CacheAssumption == MaxSize \in Nat \ {0} /\ TTL \in Nat /\ MaxClock \in Nat

RequestKeys == Endpoints \X Payloads

\* A marshalled response: what it answers, when its route was read from the
\* tiles, and whether edge-level data replaced the maneuvers.
Responses == [endpoint : Endpoints, payload : Payloads, read : Nat, edges : BOOLEAN]

VARIABLES
    clock, entries, order,  \* the response cache
    pc,         \* per call, where its handler is
    request,    \* per call, endpoint and body
    since,      \* per call, when its handler began to wait for Valhalla
    route,      \* per call, the result of GetRoute
    answer,     \* per call, what the client got
    capture,    \* per call, the goroutine of its queryStore.Put
    queryStore  \* whether the handler has a query store, or nil

Cache == INSTANCE ResponseCache WITH Keys <- RequestKeys, Bodies <- Responses

callVars == <<pc, request, since, route, answer, capture, queryStore>>
vars     == <<clock, entries, order, callVars>>

NoRequest == [endpoint |-> "none"]
NoRoute   == [read |-> 0, edges |-> FALSE]

Waiting   == [status |-> "waiting"]
Reply(s)  == [status |-> s]
\* 400 or 405, 502 and 500.
Failures  == {"rejected", "bad_gateway", "internal"}
OK(b, h)  == [status |-> "ok", body |-> b, hit |-> h, at |-> clock]

Waits  == {"fetch", "trace"}
Busy   == {"lookup", "compute", "write"}
Active == Waits \cup Busy

Goto(c, l) == pc' = [pc EXCEPT ![c] = l]

\* The handler returns; its local variables are gone.
Finish(c, a) ==
    /\ Goto(c, "answered")
    /\ answer' = [answer EXCEPT ![c] = a]
    /\ since' = [since EXCEPT ![c] = 0]
    /\ route' = [route EXCEPT ![c] = NoRoute]

-----------------------------------------------------------------------------
Init ==
    /\ Cache!CacheInit
    /\ pc = [c \in Calls |-> "idle"]
    /\ request = [c \in Calls |-> NoRequest]
    /\ since = [c \in Calls |-> 0]
    /\ route = [c \in Calls |-> NoRoute]
    /\ answer = [c \in Calls |-> Waiting]
    /\ capture = [c \in Calls |-> "none"]
    /\ queryStore \in StoreQueries

\* Dispatch, then parseAndValidate: a body it rejects is answered at once.
Receive(c, e, p) ==
    /\ pc[c] = "idle"
    /\ request' = [request EXCEPT ![c] = [endpoint |-> e, payload |-> p]]
    /\ IF p \in Valid THEN Goto(c, "lookup") /\ UNCHANGED <<answer, since, route>>
                      ELSE Finish(c, Reply("rejected"))
    /\ UNCHANGED <<clock, entries, order, capture, queryStore>>

\* Preflight, health and unknown paths touch nothing.
ReceiveOther(c) ==
    /\ pc[c] = "idle"
    /\ Finish(c, Reply("other"))
    /\ UNCHANGED <<clock, entries, order, request, capture, queryStore>>

\* Mistake: the key of the cache is the body alone.
Key_BodyOnly(c) == <<"route", request[c].payload>>

Key(c) == <<request[c].endpoint, request[c].payload>>

\* Mistake: an expired entry is served.
ServeCached_Expired(c) ==
    /\ pc[c] = "lookup"
    /\ Cache!Cached(Key(c))
    /\ order' = Cache!MoveToFront(Key(c))
    /\ UNCHANGED <<clock, entries>>
    /\ Finish(c, OK(entries[Key(c)].body, TRUE))
    /\ UNCHANGED <<request, capture, queryStore>>

\* serveCached, the entry being there and alive.
ServeCached(c) ==
    /\ pc[c] = "lookup"
    /\ Cache!GetHit(Key(c))
    /\ Finish(c, OK(entries[Key(c)].body, TRUE))
    /\ UNCHANGED <<request, capture, queryStore>>

\* Mistake: the query is captured on the miss, before there is a route.
Miss_Captures(c) ==
    /\ pc[c] = "lookup"
    /\ Cache!GetAbsent(Key(c)) \/ Cache!GetExpired(Key(c))
    /\ Goto(c, "fetch")
    /\ since' = [since EXCEPT ![c] = clock]
    /\ capture' = IF queryStore /\ request[c].endpoint = "route"
                  THEN [capture EXCEPT ![c] = "running"]
                  ELSE capture
    /\ UNCHANGED <<request, route, answer, queryStore>>

\* serveCached, absent or expired: on to getRoute.
Miss(c) ==
    /\ pc[c] = "lookup"
    /\ Cache!GetAbsent(Key(c)) \/ Cache!GetExpired(Key(c))
    /\ Goto(c, "fetch")
    /\ since' = [since EXCEPT ![c] = clock]
    /\ UNCHANGED <<request, route, answer, capture, queryStore>>

\* getRoute, the engine's answer received: GetRoute goes on to the traces.
\* The engine read its tiles at some moment since it was asked.
RouteArrives(c) ==
    /\ pc[c] = "fetch"
    /\ \E t \in since[c]..clock : route' = [route EXCEPT ![c].read = t]
    /\ Goto(c, "trace")
    /\ UNCHANGED <<clock, entries, order, request, since, answer, capture, queryStore>>

\* getRoute: an error of the engine, a timeout or a client that went away is
\* answered 502 and nothing is cached.
RouteFails(c) ==
    /\ pc[c] = "fetch"
    /\ Finish(c, Reply("bad_gateway"))
    /\ UNCHANGED <<clock, entries, order, request, capture, queryStore>>

\* The traces end.  When any of them failed, timed out or was cancelled with
\* its client, the maneuver-level data remains, and the request goes on.
TracesEnd(c, enriched) ==
    /\ pc[c] = "trace"
    /\ route' = [route EXCEPT ![c].edges = enriched]
    /\ Goto(c, "compute")
    /\ UNCHANGED <<clock, entries, order, request, since, answer, capture, queryStore>>

\* Toll and CO2 are computed; for /route a capture is started where queries
\* are captured, in a goroutine of its own, before the response is marshalled.
Compute(c) ==
    /\ pc[c] = "compute"
    /\ capture' = IF queryStore /\ request[c].endpoint = "route"
                  THEN [capture EXCEPT ![c] = "running"]
                  ELSE capture
    /\ Goto(c, "write")
    /\ UNCHANGED <<clock, entries, order, request, since, route, answer, queryStore>>

\* CO2 per tonne-kilometre over zero kilometres is not a number, which JSON
\* cannot express; /toll does not compute it.
Marshals(c) == request[c].endpoint = "toll" \/ request[c].payload \notin Standstill

Body(c) == [endpoint |-> request[c].endpoint, payload |-> request[c].payload,
            read |-> route[c].read, edges |-> route[c].edges]

\* Mistake: Put is called without a goroutine of its own.
Write_AwaitsCapture(c) ==
    /\ pc[c] = "write"
    /\ capture[c] # "running"
    /\ Marshals(c)
    /\ Cache!Set(Key(c), Body(c))
    /\ Finish(c, OK(Body(c), FALSE))
    /\ UNCHANGED <<request, capture, queryStore>>

\* writeAndCache: cache.Set, then the response.
Write(c) ==
    /\ pc[c] = "write"
    /\ Marshals(c)
    /\ Cache!Set(Key(c), Body(c))
    /\ Finish(c, OK(Body(c), FALSE))
    /\ UNCHANGED <<request, capture, queryStore>>

MarshalFails(c) ==
    /\ pc[c] = "write"
    /\ ~Marshals(c)
    /\ Finish(c, Reply("internal"))
    /\ UNCHANGED <<clock, entries, order, request, capture, queryStore>>

\* queryStore.Put returns, having written its record or swallowed an error.
\* Nothing makes it return.
CaptureEnds(c) ==
    /\ capture[c] = "running"
    /\ capture' = [capture EXCEPT ![c] = "ended"]
    /\ UNCHANGED <<clock, entries, order, pc, request, since, route, answer, queryStore>>

\* A deploy or a crash: the cache is empty again, the handlers and captures
\* under way are gone.
Restart ==
    /\ \E c \in Calls : pc[c] # "idle"
    /\ Cache!Restart
    /\ pc' = [c \in Calls |-> IF pc[c] \in Active THEN "lost" ELSE pc[c]]
    /\ since' = [c \in Calls |-> 0]
    /\ route' = [c \in Calls |-> NoRoute]
    /\ capture' = [c \in Calls |-> IF capture[c] = "running" THEN "lost" ELSE capture[c]]
    /\ UNCHANGED <<request, answer, queryStore>>

\* Time passes while every active handler waits for Valhalla, or for the token
\* it shows there, and none has waited longer than the platform lets a request
\* take: what a handler does by itself takes no time.
Tick ==
    /\ \A c \in Calls : /\ pc[c] \notin Busy
                        /\ pc[c] \in Waits => clock - since[c] < RequestTimeout
    /\ Cache!Tick
    /\ UNCHANGED callVars

Step(c) ==
    \/ ServeCached(c) \/ Miss(c)
    \/ RouteArrives(c) \/ RouteFails(c)
    \/ \E enriched \in BOOLEAN : TracesEnd(c, enriched)
    \/ Compute(c)
    \/ Write(c) \/ MarshalFails(c)

Next ==
    \/ \E c \in Calls, e \in Endpoints, p \in Payloads : Receive(c, e, p)
    \/ \E c \in Calls : ReceiveOther(c) \/ Step(c) \/ CaptureEnds(c)
    \/ Restart
    \/ Tick

\* The Go scheduler runs every runnable goroutine, and the platform's timeout
\* cancels the context of a request, which ends every wait of its handler; the
\* HTTP client's own covers the calls to Valhalla, not those for their tokens.
\* Nothing is assumed of a capture.
Fairness == \A c \in Calls : WF_vars(Step(c))

Spec == Init /\ [][Next]_vars
FairSpec == Spec /\ Fairness

-----------------------------------------------------------------------------
(* Properties *)

\* Type invariant: every handler is somewhere, with data of the right shape.
TypeOK ==
    /\ Cache!CacheTypeOK
    /\ pc \in [Calls -> Active \cup {"idle", "answered", "lost"}]
    /\ request \in [Calls -> [endpoint : Endpoints, payload : Payloads] \cup {NoRequest}]
    /\ since \in [Calls -> 0..MaxClock]
    /\ route \in [Calls -> [read : 0..MaxClock, edges : BOOLEAN]]
    /\ \A c \in Calls :
          \/ answer[c] \in {Waiting} \cup {Reply(s) : s \in Failures \cup {"other"}}
          \/ /\ answer[c].status = "ok"
             /\ answer[c].body \in Responses
             /\ answer[c].hit \in BOOLEAN
             /\ answer[c].at \in 0..MaxClock
    /\ capture \in [Calls -> {"none", "running", "ended", "lost"}]
    /\ queryStore \in StoreQueries

Answered(c) == answer[c].status = "ok"

\* A response served from the cache repeats, byte for byte, what an earlier
\* call to the same endpoint with the same body was answered at most TTL ago
\* (route.go:96-118): nothing half computed, failed or expired is served.
HitRepeatsAnswer ==
    \A c \in Calls : Answered(c) /\ answer[c].hit =>
        \E d \in Calls :
            /\ Answered(d) /\ ~answer[d].hit
            /\ request[d] = request[c]
            /\ answer[d].body = answer[c].body
            /\ answer[c].at - answer[d].at \in 0..TTL

\* The handler got as far as marshalling a response of its own.
Computed(c) ==
    \/ Answered(c) /\ ~answer[c].hit
    \/ answer[c].status = "internal"

\* Where capture is enabled, a query is captured for the benchmark when this
\* service computed a full route for it, were it one that then cannot be
\* marshalled, and never for a rejected body, a cache hit, a failure of the
\* engine or another endpoint (route.go:187-191).
CapturesComputedRoutes ==
    \A c \in Calls :
        /\ capture[c] # "none" => /\ queryStore
                                  /\ request[c].endpoint = "route"
                                  /\ pc[c] \in {"write", "lost"} \/ Computed(c)
        /\ queryStore /\ Computed(c) /\ request[c].endpoint = "route" =>
               capture[c] # "none"

\* What a client is told, in the terms of AnswerService.
ToClient(c) ==
    IF pc[c] = "lost" THEN [status |-> "lost"]
    ELSE IF Answered(c) THEN [status   |-> "ok",
                              endpoint |-> answer[c].body.endpoint,
                              payload  |-> answer[c].body.payload,
                              read     |-> answer[c].body.read]
    ELSE IF answer[c].status \in Failures THEN Reply("error")
    ELSE answer[c]

Promise == INSTANCE AnswerService WITH
               answer <- [c \in Calls |-> ToClient(c)],
               MaxAge <- TTL + RequestTimeout

\* Whatever the handlers share and however they interleave, each client gets
\* at most one answer, to its own request, from road data no older than the
\* time to live of the cache and the longest wait for Valhalla together.
ImplementsAnswerService == Promise!Spec

\* Every request received is answered, or lost with its instance, although a
\* capture may never end (route.go:187-191, "never blocking the response").
EveryCallEnds ==
    \A c \in Calls : pc[c] \in Active ~> pc[c] \in {"answered", "lost"}

\* What route.go:152 says of the handler: POST /api/v1/route gives the full
\* response, once its route, toll and CO2 are computed.
ComputedRouteIsServed ==
    \A c \in Calls :
        pc[c] = "answered" /\ capture[c] # "none" => Answered(c)

=============================================================================
