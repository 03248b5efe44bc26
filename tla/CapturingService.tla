--------------------------- MODULE CapturingService ---------------------------
(***************************************************************************)
(* The request handlers (RouteService) together with the query captures    *)
(* they start (QueryStore): the capture of a call, which RouteService      *)
(* takes for one step, here is the Put goroutine that shares its           *)
(* instance's storage client with the other captures, and dies with it.    *)
(***************************************************************************)
EXTENDS RouteService

CONSTANT PutTimeout     \* the timeout of an upload

ASSUME PutAssumption == PutTimeout \in Nat

VARIABLES
    putPc, once, client, inits, putSince, bucket, logged    \* QueryStore

Store == INSTANCE QueryStore WITH
             Puts <- Calls, pc <- putPc, since <- putSince, Timeout <- PutTimeout

putVars       == <<putPc, once, client, inits, putSince, bucket, logged>>
capturingVars == <<vars, putVars>>

CapturingInit == Init /\ Store!Init

Arrive(c) ==
    /\ (\E e \in Endpoints, p \in Payloads : Receive(c, e, p)) \/ ReceiveOther(c)
    /\ UNCHANGED putVars

Handle(c) == Step(c) /\ UNCHANGED putVars

\* A step of the Put goroutine of a call, if it has one: go h.queryStore.Put.
PutStep(c, A) ==
    /\ capture[c] = "running"
    /\ A
    /\ capture' = [capture EXCEPT ![c] = IF putPc'[c] = "ended" THEN "ended" ELSE "running"]
    /\ UNCHANGED <<clock, entries, order, pc, request, since, route, answer, queryStore>>

Put(c)    == PutStep(c, Store!Start(c) \/ Store!MarshalFails(c) \/ Store!Step(c))
Create(c) == PutStep(c, Store!Create(c))

\* The instance is replaced, with handlers, captures and client.
Replace == Restart /\ Store!Restart

TimePasses == Tick /\ Store!Tick

CapturingNext ==
    \/ \E c \in Calls : Arrive(c) \/ Handle(c) \/ Put(c) \/ Create(c)
    \/ Replace
    \/ TimePasses

\* The Go scheduler runs every runnable goroutine; requests and uploads have
\* timeouts.  Nothing is assumed of storage.NewClient: it may never return.
CapturingFairness ==
    \A c \in Calls : WF_capturingVars(Handle(c)) /\ WF_capturingVars(Put(c))

CapturingSpec     == CapturingInit /\ [][CapturingNext]_capturingVars
FairCapturingSpec == CapturingSpec /\ CapturingFairness

-----------------------------------------------------------------------------
(* Properties.  HitRepeatsAnswer, CapturesComputedRoutes, EveryCallEnds and *)
(* the others of RouteService are properties of this module, too.           *)

\* Type invariant.
CapturingTypeOK == TypeOK /\ Store!TypeOK

\* One client per instance, used only once it is there, also when instances are
\* replaced while captures race (querystore.go:55-60).
ClientIsShared == Store!ClientIsShared

\* An instance whose first client could not be created captures nothing any
\* more; only its replacement does (querystore.go:55-60, 89-93).
FailureIsSticky == Store!FailureIsSticky

\* Every full route computed is accounted for: its record is in the bucket, its
\* loss was logged, its capture is under way or died with the instance
\* (route.go:187-191, querystore.go:83-112).
NoSilentLoss ==
    \A c \in Calls :
        capture[c] = "ended" => c \in bucket \cup logged

\* The only thing that can hold a capture up for ever is a storage.NewClient
\* that never returns (querystore.go:55-57): every other wait has an end.
PutsEnd ==
    \/ \A c \in Calls : capture[c] = "running" ~> capture[c] # "running"
    \/ <>[](\E c \in Calls : putPc[c] = "creating")

=============================================================================
