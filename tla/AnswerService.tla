---------------------------- MODULE AnswerService ----------------------------
(***************************************************************************)
(* What a client of the routing service may rely on, without its cache,    *)
(* its calls to Valhalla and its goroutines: a request gets at most one    *)
(* answer; a successful answer is about the very request made, and what it *)
(* says about the road network was read at most MaxAge ago.                *)
(***************************************************************************)
EXTENDS Integers

CONSTANTS Calls, Endpoints, Payloads, MaxAge

VARIABLES
    clock,      \* the time
    request,    \* per call, what was asked
    answer      \* per call, how it was answered

answerVars == <<clock, request, answer>>

NoRequest == [endpoint |-> "none"]
Request   == [endpoint : Endpoints, payload : Payloads]

Waiting  == [status |-> "waiting"]
Lost     == [status |-> "lost"]
Error    == [status |-> "error"]
Other    == [status |-> "other"]        \* preflight, health, unknown path

OK(r, t) == [status |-> "ok", endpoint |-> r.endpoint, payload |-> r.payload, read |-> t]

Init ==
    /\ clock = 0
    /\ request = [c \in Calls |-> NoRequest]
    /\ answer = [c \in Calls |-> Waiting]

Fresh(c) == request[c] = NoRequest /\ answer[c] = Waiting

Pending(c) == request[c] # NoRequest /\ answer[c] = Waiting

Ask(c, r) ==
    /\ Fresh(c)
    /\ request' = [request EXCEPT ![c] = r]
    /\ answer' \in {answer, [answer EXCEPT ![c] = Error]}
    /\ UNCHANGED clock

AskOther(c) ==
    /\ Fresh(c)
    /\ answer' = [answer EXCEPT ![c] = Other]
    /\ UNCHANGED <<clock, request>>

Fail(c) ==
    /\ Pending(c)
    /\ answer' = [answer EXCEPT ![c] = Error]
    /\ UNCHANGED <<clock, request>>

Answer(c) ==
    /\ Pending(c)
    /\ \E t \in 0..clock :
           /\ clock - t <= MaxAge
           /\ answer' = [answer EXCEPT ![c] = OK(request[c], t)]
    /\ UNCHANGED <<clock, request>>

\* The instance is replaced: whoever waits gets nothing.
Crash ==
    /\ answer' = [c \in Calls |-> IF Pending(c) THEN Lost ELSE answer[c]]
    /\ UNCHANGED <<clock, request>>

Advance ==
    /\ clock' = clock + 1
    /\ UNCHANGED <<request, answer>>

Next ==
    \/ \E c \in Calls, r \in Request : Ask(c, r)
    \/ \E c \in Calls : AskOther(c) \/ Fail(c) \/ Answer(c)
    \/ Crash
    \/ Advance

Spec == Init /\ [][Next]_answerVars

=============================================================================
