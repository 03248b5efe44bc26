---------------------------- MODULE ServiceProofs ----------------------------
(***************************************************************************)
(* Proofs about the request handlers, alone (RouteService) and together    *)
(* with their captures (CapturingService), for every set of calls,         *)
(* endpoints and bodies, every size and time to live of the cache and      *)
(* every timeout.                                                          *)
(***************************************************************************)
EXTENDS CapturingService, FiniteSetTheorems, TLAPS

\* The proofs cited are of the map and the list alone: what CacheHistory adds
\* to them stands for nothing here.
CacheProofs == INSTANCE CacheHistoryProofs WITH
                   Keys <- RequestKeys, Bodies <- Responses,
                   latest <- entries, crowd <- entries, reply <- entries

(***************************************************************************)
(* What the handlers rely on of the cache.                                 *)
(***************************************************************************)
CacheInv == CacheProofs!CacheInv

LEMMA CacheInvFacts ==
    ASSUME CacheInv
    PROVE  /\ Cache!CacheTypeOK
           /\ clock \in Nat
           /\ DOMAIN entries \subseteq RequestKeys
           /\ \A k \in DOMAIN entries : entries[k].body \in Responses /\ entries[k].expires \in Nat
<1>1. Cache!CacheTypeOK
  BY DEF CacheInv, CacheProofs!CacheInv, CacheProofs!CacheTypeOK, CacheProofs!Entry,
         Cache!CacheTypeOK, Cache!Entry
<1> QED BY <1>1 DEF Cache!CacheTypeOK, Cache!Entry

LEMMA CacheStepKeepsInv ==
    ASSUME CacheInv, [Cache!CacheNext]_(Cache!cacheVars)
    PROVE  CacheInv'
<1>1. CASE Cache!CacheNext
  <2>1. \A k : /\ Cache!Expired(k) = CacheProofs!Expired(k)
               /\ Cache!Cached(k) = CacheProofs!Cached(k)
               /\ Cache!RemoveAt(order, Cache!Position(k))
                      = CacheProofs!RemoveAt(order, CacheProofs!Position(k))
               /\ Cache!MoveToFront(k) = CacheProofs!MoveToFront(k)
    BY DEF Cache!Expired, CacheProofs!Expired, Cache!Cached, CacheProofs!Cached,
           Cache!Position, CacheProofs!Position, Cache!RemoveAt, CacheProofs!RemoveAt,
           Cache!MoveToFront, CacheProofs!MoveToFront
  <2>2. ASSUME NEW k \in RequestKeys, Cache!Get(k) PROVE CacheProofs!Get(k)
    BY <2>1, <2>2 DEF Cache!Get, Cache!GetAbsent, Cache!GetExpired, Cache!GetHit, Cache!cacheVars,
           CacheProofs!Get, CacheProofs!GetAbsent, CacheProofs!GetExpired, CacheProofs!GetHit,
           CacheProofs!cacheVars
  <2>3. ASSUME NEW k \in RequestKeys, NEW b \in Responses, Cache!Set(k, b)
        PROVE  CacheProofs!Set(k, b)
    <3>1. /\ Cache!Retained = CacheProofs!Retained
          /\ Cache!NewEntry(b) = CacheProofs!NewEntry(b)
      BY DEF Cache!Retained, CacheProofs!Retained, Cache!NewEntry, CacheProofs!NewEntry
    <3>2. Cache!Evicted = CacheProofs!Evicted
      BY <3>1 DEF Cache!Evicted, CacheProofs!Evicted
    <3> QED BY <2>1, <2>3, <3>1, <3>2 DEF Cache!Set, Cache!SetExisting, Cache!SetNew,
                CacheProofs!Set, CacheProofs!SetExisting, CacheProofs!SetNew
  <2>4. Cache!Tick => CacheProofs!Tick
    BY DEF Cache!Tick, CacheProofs!Tick
  <2>5. Cache!Restart => CacheProofs!Restart
    BY DEF Cache!Restart, CacheProofs!Restart, Cache!NoEntries, CacheProofs!NoEntries
  <2>6. CacheProofs!CacheNext
    BY <1>1, <2>2, <2>3, <2>4, <2>5 DEF Cache!CacheNext, CacheProofs!CacheNext
  <2> QED BY <2>6, CacheProofs!CacheNextInv, CacheAssumption DEF CacheInv
<1>2. CASE UNCHANGED Cache!cacheVars
  BY <1>2, CacheProofs!CacheNextInv, CacheAssumption
  DEF CacheInv, Cache!cacheVars, CacheProofs!cacheVars
<1> QED BY <1>1, <1>2

\* A lookup changes no entry: at most it takes an expired one away.
LEMMA GetFacts ==
    ASSUME CacheInv, NEW k \in RequestKeys, Cache!Get(k)
    PROVE  /\ CacheInv'
           /\ clock' = clock
           /\ DOMAIN entries' \subseteq DOMAIN entries
           /\ \A j \in DOMAIN entries' : entries'[j] = entries[j]
<1>1. CacheInv'
  BY CacheStepKeepsInv DEF Cache!CacheNext
<1> QED BY <1>1 DEF Cache!Get, Cache!GetAbsent, Cache!GetExpired, Cache!GetHit, Cache!cacheVars

\* A store changes the entry of its key and adds no other.
LEMMA SetFacts ==
    ASSUME CacheInv, NEW k \in RequestKeys, NEW b \in Responses, Cache!Set(k, b)
    PROVE  /\ CacheInv'
           /\ clock' = clock
           /\ entries'[k] = [body |-> b, expires |-> clock + TTL]
           /\ \A j \in DOMAIN entries' \ {k} : j \in DOMAIN entries /\ entries'[j] = entries[j]
<1>1. CacheInv'
  BY CacheStepKeepsInv DEF Cache!CacheNext
<1>2. k \in DOMAIN entries => entries = [j \in DOMAIN entries |-> entries[j]]
  BY CacheInvFacts DEF Cache!CacheTypeOK
<1> QED BY <1>1, <1>2 DEF Cache!Set, Cache!SetExisting, Cache!SetNew, Cache!NewEntry, Cache!Cached

(***************************************************************************)
(* The inductive invariant.  That a hit repeats an answer rests on where   *)
(* every entry of the cache came from (EntryOK); how old its data may be,  *)
(* on how long each handler has waited (TimeOK); both on what an answer    *)
(* says of its own request (HandlerOK).                                    *)
(***************************************************************************)
Requests == [endpoint : Endpoints, payload : Payloads]

\* TypeOK, of everything but the answers, ...
HandlerTypeOK ==
    /\ pc \in [Calls -> Active \cup {"idle", "answered", "lost"}]
    /\ request \in [Calls -> Requests \cup {NoRequest}]
    /\ since \in [Calls -> 0..MaxClock]
    /\ route \in [Calls -> [read : 0..MaxClock, edges : BOOLEAN]]
    /\ capture \in [Calls -> {"none", "running", "ended", "lost"}]
    /\ queryStore \in StoreQueries

\* ... and of one answer.
AnswerTypeOK(c) ==
    \/ answer[c] \in {Waiting} \cup {Reply(s) : s \in Failures \cup {"other"}}
    \/ /\ answer[c].status = "ok"
       /\ answer[c].body \in Responses
       /\ answer[c].hit \in BOOLEAN
       /\ answer[c].at \in 0..MaxClock

\* A call has a request once it is handled, an answer once it was handled,
\* and a successful answer is about the request made.
HandlerOK(c) ==
    /\ pc[c] = "idle" => request[c] = NoRequest
    /\ pc[c] \in Active => request[c] \in Requests
    /\ pc[c] = "answered" <=> answer[c] # Waiting
    /\ Answered(c) => /\ request[c] \in Requests
                      /\ answer[c].body.endpoint = request[c].endpoint
                      /\ answer[c].body.payload = request[c].payload
                      /\ answer[c].at <= clock

\* No handler outlives the timeout of its request, and the route was read
\* while it waited: so it is not older than that.
TimeOK(c) ==
    /\ since[c] <= clock
    /\ pc[c] \in Waits \cup {"compute", "write"} => clock - since[c] <= RequestTimeout
    /\ pc[c] \in {"trace", "compute", "write"} => since[c] <= route[c].read /\ route[c].read <= clock

\* A capture is started by computing a full route, and by nothing else.
CaptureOK(c) ==
    /\ pc[c] \in {"idle", "lookup", "fetch", "trace", "compute"} => capture[c] = "none"
    /\ queryStore /\ request[c].endpoint = "route" /\ (pc[c] = "write" \/ Computed(c)) =>
           capture[c] # "none"
    /\ capture[c] # "none" => /\ queryStore /\ request[c].endpoint = "route"
                              /\ pc[c] \in {"write", "lost"} \/ Computed(c)

\* An entry is the answer that a call computed for its key.
ComputedBy(k, d) ==
    /\ Answered(d) /\ ~answer[d].hit
    /\ Key(d) = k
    /\ answer[d].body = entries[k].body
    /\ entries[k].expires = answer[d].at + TTL

EntryOK(k) ==
    /\ entries[k].body.endpoint = k[1]
    /\ entries[k].body.payload = k[2]
    /\ entries[k].body.read <= clock
    /\ entries[k].expires <= entries[k].body.read + RequestTimeout + TTL
    /\ \E d \in Calls : ComputedBy(k, d)

\* HitRepeatsAnswer, of one call.
Repeats(c, d) ==
    /\ Answered(d) /\ ~answer[d].hit
    /\ request[d] = request[c]
    /\ answer[d].body = answer[c].body
    /\ answer[c].at - answer[d].at \in 0..TTL

HitOK(c) == Answered(c) /\ answer[c].hit => \E d \in Calls : Repeats(c, d)

RouteInv ==
    /\ CacheInv
    /\ clock <= MaxClock
    /\ HandlerTypeOK
    /\ answer = [c \in Calls |-> answer[c]]
    /\ \A c \in Calls : AnswerTypeOK(c)
    /\ \A c \in Calls : HandlerOK(c) /\ TimeOK(c) /\ CaptureOK(c) /\ HitOK(c)
    /\ \A k \in DOMAIN entries : EntryOK(k)

(***************************************************************************)
(* A step of one call leaves the others alone: an answer that was given is *)
(* never taken back, so that entries and hits keep their witness.          *)
(***************************************************************************)
Untouched(d) ==
    /\ pc'[d] = pc[d]
    /\ request'[d] = request[d]
    /\ since'[d] = since[d]
    /\ route'[d] = route[d]
    /\ answer'[d] = answer[d]
    /\ capture'[d] = capture[d]

LEMMA OneCallStep ==
    ASSUME RouteInv, NEW c \in Calls,
           CacheInv', HandlerTypeOK', AnswerTypeOK(c)', UNCHANGED <<clock, queryStore>>,
           answer' = answer \/ answer' = [answer EXCEPT ![c] = answer'[c]],
           \A d \in Calls \ {c} : Untouched(d),
           HandlerOK(c)', TimeOK(c)', CaptureOK(c)',
           Answered(c) => answer'[c] = answer[c] /\ request'[c] = request[c],
           Answered(c) \/ HitOK(c)',
           \A k \in DOMAIN entries' :
               \/ k \in DOMAIN entries /\ entries'[k] = entries[k]
               \/ EntryOK(k)'
    PROVE  RouteInv'
<1>1. ASSUME NEW d \in Calls, Answered(d)
      PROVE  answer'[d] = answer[d] /\ request'[d] = request[d] /\ Answered(d)'
  BY <1>1 DEF Untouched, Answered
<1>2. ASSUME NEW d \in Calls \ {c} PROVE AnswerTypeOK(d)' /\ HandlerOK(d)' /\ TimeOK(d)' /\ CaptureOK(d)'
  <2>1. Untouched(d)
    OBVIOUS
  <2>2. AnswerTypeOK(d) /\ HandlerOK(d) /\ TimeOK(d) /\ CaptureOK(d)
    BY DEF RouteInv
  <2> QED BY <2>1, <2>2 DEF Untouched, AnswerTypeOK, HandlerOK, TimeOK, CaptureOK, Computed, Answered
<1>3. ASSUME NEW d \in Calls, d # c \/ Answered(c) PROVE HitOK(d)'
  <2> SUFFICES ASSUME Answered(d)', answer'[d].hit PROVE (\E e \in Calls : Repeats(d, e))'
    BY DEF HitOK
  <2>1. Answered(d) /\ answer'[d] = answer[d] /\ request'[d] = request[d]
    BY <1>1, <1>3 DEF Untouched, Answered
  <2>2. PICK e \in Calls : Repeats(d, e)
    BY <2>1 DEF RouteInv, HitOK
  <2>3. Repeats(d, e)'
    BY <1>1, <2>1, <2>2 DEF Repeats
  <2> QED BY <2>3
<1>4. ASSUME NEW k \in DOMAIN entries', k \in DOMAIN entries, entries'[k] = entries[k]
      PROVE  EntryOK(k)'
  <2>1. EntryOK(k)
    BY <1>4 DEF RouteInv
  <2>2. PICK d \in Calls : ComputedBy(k, d)
    BY <2>1 DEF EntryOK
  <2>3. ComputedBy(k, d)'
    BY <1>1, <1>4, <2>2 DEF ComputedBy, Key
  <2> QED BY <1>4, <2>1, <2>3 DEF EntryOK
<1>5. answer' = [d \in Calls |-> answer'[d]]
  BY DEF RouteInv
<1> QED BY <1>2, <1>3, <1>4, <1>5 DEF RouteInv

-----------------------------------------------------------------------------
(* One lemma per action. *)

LEMMA AnswerFacts ==
    /\ Waiting.status = "waiting"
    /\ \A s : Reply(s).status = s
BY DEF Waiting, Reply

\* A call that is not answered yet has no answer to keep.
LEMMA UnansweredFacts ==
    ASSUME RouteInv, NEW c \in Calls, pc[c] # "answered"
    PROVE  answer[c] = Waiting /\ ~Answered(c) /\ ~Computed(c)
BY AnswerFacts DEF RouteInv, HandlerOK, Answered, Computed

\* A step that leaves the cache alone keeps its invariant.
LEMMA CacheUnchanged ==
    ASSUME CacheInv, UNCHANGED <<clock, entries, order>>
    PROVE  CacheInv'
BY CacheStepKeepsInv DEF Cache!cacheVars

\* A handler that returns something else than a computed or cached route.
LEMMA FailureKeepsInv ==
    ASSUME RouteInv, NEW c \in Calls, pc[c] # "answered",
           NEW s \in Failures \cup {"other"}, Finish(c, Reply(s)),
           UNCHANGED <<clock, entries, order, capture, queryStore>>,
           request'[c] \in Requests \cup {NoRequest},
           request' = [request EXCEPT ![c] = request'[c]],
           s # "internal" => capture[c] = "none",
           s = "internal" => pc[c] = "write" /\ request'[c] = request[c]
    PROVE  RouteInv'
<1>1. CacheInv'
  BY CacheUnchanged DEF RouteInv
<1>2. ~Answered(c) /\ answer'[c] = Reply(s) /\ ~Answered(c)' /\ answer'[c] # Waiting
  BY UnansweredFacts, AnswerFacts DEF RouteInv, Finish, Answered, Failures
<1>3. \A d \in Calls \ {c} : Untouched(d)
  BY DEF RouteInv, HandlerTypeOK, Finish, Goto, Untouched
<1>4. HandlerTypeOK' /\ AnswerTypeOK(c)'
  BY <1>2, CacheAssumption DEF RouteInv, HandlerTypeOK, AnswerTypeOK, Finish, Goto, NoRoute
<1>5. HandlerOK(c)' /\ HitOK(c)'
  BY <1>2 DEF RouteInv, HandlerTypeOK, HandlerOK, HitOK, Finish, Goto, Active, Waits, Busy
<1>6. TimeOK(c)'
  BY CacheInvFacts DEF RouteInv, HandlerTypeOK, TimeOK, Finish, Goto, Waits
<1>7. CaptureOK(c)'
  <2>1. /\ pc'[c] = "answered" /\ capture'[c] = capture[c]
        /\ Computed(c)' <=> s = "internal"
    BY <1>2, AnswerFacts DEF RouteInv, HandlerTypeOK, Finish, Goto, Computed
  <2> QED BY <1>2, <2>1, UnansweredFacts DEF RouteInv, CaptureOK
<1> QED BY <1>1, <1>2, <1>3, <1>4, <1>5, <1>6, <1>7, OneCallStep DEF RouteInv, Finish

\* A handler that goes on from one place to the next, the cache unchanged.
LEMMA ProgressKeepsInv ==
    ASSUME RouteInv, NEW c \in Calls, pc[c] # "answered",
           NEW l \in Active, Goto(c, l),
           CacheInv', UNCHANGED <<clock, answer, queryStore>>,
           DOMAIN entries' \subseteq DOMAIN entries,
           \A k \in DOMAIN entries' : entries'[k] = entries[k],
           \A d \in Calls \ {c} : Untouched(d),
           HandlerTypeOK', request'[c] \in Requests, TimeOK(c)', CaptureOK(c)'
    PROVE  RouteInv'
<1>1. ~Answered(c) /\ answer'[c] = Waiting /\ ~Answered(c)' /\ l # "answered" /\ l # "idle"
  BY UnansweredFacts, AnswerFacts DEF RouteInv, Answered, Active, Waits, Busy
<1>2. pc'[c] = l
  BY DEF RouteInv, HandlerTypeOK, Goto
<1>3. AnswerTypeOK(c)' /\ HandlerOK(c)' /\ HitOK(c)'
  BY <1>1, <1>2 DEF AnswerTypeOK, HandlerOK, HitOK
<1> QED BY <1>1, <1>3, OneCallStep

LEMMA ReceiveKeepsInv ==
    ASSUME RouteInv, NEW c \in Calls, NEW e \in Endpoints, NEW p \in Payloads, Receive(c, e, p)
    PROVE  RouteInv'
<1>1. /\ request' = [request EXCEPT ![c] = request'[c]]
      /\ request'[c] \in Requests
      /\ capture[c] = "none"
  BY DEF RouteInv, HandlerTypeOK, CaptureOK, Receive, Requests
<1>2. CASE p \in Valid
  <2>1. CacheInv' /\ \A d \in Calls \ {c} : Untouched(d)
    BY <1>2, CacheUnchanged DEF RouteInv, HandlerTypeOK, Receive, Goto, Untouched
  <2>2. HandlerTypeOK'
    BY <1>1, <1>2 DEF RouteInv, HandlerTypeOK, Receive, Goto, Active, Busy
  <2>3. TimeOK(c)' /\ CaptureOK(c)'
    BY <1>1, <1>2, UnansweredFacts DEF RouteInv, HandlerTypeOK, TimeOK, CaptureOK, Receive, Goto,
       Answered, Computed, Waits
  <2> QED BY <1>1, <1>2, <2>1, <2>2, <2>3, ProgressKeepsInv DEF Receive, Active, Busy
<1>3. CASE p \notin Valid
  BY <1>1, <1>3, FailureKeepsInv DEF Receive, Failures
<1> QED BY <1>2, <1>3

LEMMA ReceiveOtherKeepsInv ==
    ASSUME RouteInv, NEW c \in Calls, ReceiveOther(c)
    PROVE  RouteInv'
BY FailureKeepsInv DEF RouteInv, HandlerTypeOK, HandlerOK, CaptureOK, ReceiveOther, Failures

LEMMA MissKeepsInv ==
    ASSUME RouteInv, NEW c \in Calls, Miss(c)
    PROVE  RouteInv'
<1>1. request[c] \in Requests /\ Key(c) \in RequestKeys
  BY DEF RouteInv, HandlerOK, Miss, Active, Busy, Requests, Key, RequestKeys
<1>2. /\ CacheInv'
      /\ clock' = clock
      /\ DOMAIN entries' \subseteq DOMAIN entries
      /\ \A k \in DOMAIN entries' : entries'[k] = entries[k]
  BY <1>1, GetFacts DEF RouteInv, Miss, Cache!Get
<1>3. \A d \in Calls \ {c} : Untouched(d)
  BY DEF RouteInv, HandlerTypeOK, Miss, Goto, Untouched
<1>4. HandlerTypeOK'
  BY CacheInvFacts DEF RouteInv, HandlerTypeOK, Miss, Goto, Active, Waits
<1>5. TimeOK(c)'
  BY <1>2, CacheInvFacts, TimeoutAssumption DEF RouteInv, HandlerTypeOK, TimeOK, Miss, Goto, Waits
<1>6. CaptureOK(c)'
  BY UnansweredFacts DEF RouteInv, HandlerTypeOK, CaptureOK, Miss, Goto, Answered, Computed
<1> QED BY <1>1, <1>2, <1>3, <1>4, <1>5, <1>6, ProgressKeepsInv DEF Miss, Active, Waits

LEMMA ServeCachedKeepsInv ==
    ASSUME RouteInv, NEW c \in Calls, ServeCached(c)
    PROVE  RouteInv'
<1>1. /\ Key(c) \in RequestKeys /\ request[c] \in Requests
      /\ ~Answered(c) /\ capture[c] = "none"
  BY UnansweredFacts DEF RouteInv, HandlerOK, CaptureOK, ServeCached, Key, Requests, RequestKeys,
     Active, Busy
<1>2. /\ CacheInv' /\ clock' = clock /\ entries' = entries
      /\ Key(c) \in DOMAIN entries
      /\ clock <= entries[Key(c)].expires
      /\ clock \in Nat /\ entries[Key(c)].expires \in Nat
      /\ entries[Key(c)].body \in Responses
  <2>1. Cache!Get(Key(c)) /\ Cache!GetHit(Key(c))
    BY DEF ServeCached, Cache!Get
  <2>2. CacheInv' /\ clock' = clock
    BY <1>1, <2>1, GetFacts DEF RouteInv
  <2>3. Key(c) \in DOMAIN entries /\ entries' = entries /\ ~(clock > entries[Key(c)].expires)
    BY <2>1 DEF Cache!GetHit, Cache!Cached, Cache!Expired
  <2>4. /\ clock \in Nat /\ entries[Key(c)].expires \in Nat
        /\ entries[Key(c)].body \in Responses
    BY <2>3, CacheInvFacts DEF RouteInv
  <2> QED BY <2>2, <2>3, <2>4
<1>3. \A d \in Calls \ {c} : Untouched(d)
  BY DEF RouteInv, HandlerTypeOK, ServeCached, Finish, Goto, Untouched
<1>4. /\ answer' = [answer EXCEPT ![c] = answer'[c]]
      /\ answer'[c].status = "ok"
      /\ answer'[c].body = entries[Key(c)].body
      /\ answer'[c].hit = TRUE
      /\ answer'[c].at = clock
      /\ answer'[c] # Waiting
      /\ ~Computed(c)'
      /\ UNCHANGED <<request, queryStore>>
  BY AnswerFacts DEF RouteInv, ServeCached, Finish, OK, Computed
<1>5. HandlerTypeOK' /\ AnswerTypeOK(c)'
  <2>1. HandlerTypeOK'
    BY CacheAssumption DEF RouteInv, HandlerTypeOK, ServeCached, Finish, Goto, NoRoute
  <2>2. clock \in 0..MaxClock /\ TRUE \in BOOLEAN
    BY <1>2, CacheAssumption DEF RouteInv
  <2> QED BY <1>2, <1>4, <2>1, <2>2 DEF AnswerTypeOK
<1>6. HitOK(c)'
  <2>1. PICK d \in Calls : ComputedBy(Key(c), d)
    BY <1>2 DEF RouteInv, EntryOK
  <2>2. d # c /\ request[d] \in Requests /\ answer[d].at <= clock /\ answer[d].at \in Nat
    BY <1>1, <2>1, CacheAssumption, AnswerFacts DEF ComputedBy, RouteInv, HandlerOK, AnswerTypeOK,
       Answered, Failures
  <2>3. request[d] = request[c]
    BY <1>1, <2>1, <2>2 DEF ComputedBy, Key, Requests
  <2>4. answer'[d] = answer[d]
    BY <1>3, <2>2 DEF Untouched
  <2>5. clock - answer[d].at \in 0..TTL
    BY <1>2, <2>1, <2>2, CacheAssumption DEF ComputedBy
  <2>6. Repeats(c, d)'
    BY <1>4, <2>1, <2>3, <2>4, <2>5 DEF Repeats, ComputedBy, Answered
  <2> QED BY <2>6 DEF HitOK
<1>7. HandlerOK(c)'
  <2>1. EntryOK(Key(c))
    BY <1>2 DEF RouteInv
  <2>2. /\ entries[Key(c)].body.endpoint = request[c].endpoint
        /\ entries[Key(c)].body.payload = request[c].payload
    BY <2>1 DEF EntryOK, Key
  <2>3. pc'[c] = "answered"
    BY DEF RouteInv, HandlerTypeOK, ServeCached, Finish, Goto
  <2> QED BY <1>1, <1>2, <1>4, <2>2, <2>3 DEF HandlerOK, Active, Waits, Busy
<1>8. TimeOK(c)'
  BY <1>2 DEF TimeOK, RouteInv, HandlerTypeOK, ServeCached, Finish, Goto, Waits
<1>9. CaptureOK(c)'
  <2>1. pc'[c] = "answered" /\ capture'[c] = "none"
    BY <1>1 DEF RouteInv, HandlerTypeOK, ServeCached, Finish, Goto
  <2> QED BY <1>4, <2>1 DEF CaptureOK
<1> QED BY <1>1, <1>2, <1>3, <1>4, <1>5, <1>6, <1>7, <1>8, <1>9, OneCallStep DEF RouteInv

LEMMA RouteArrivesKeepsInv ==
    ASSUME RouteInv, NEW c \in Calls, RouteArrives(c)
    PROVE  RouteInv'
<1>1. request'[c] \in Requests /\ pc[c] = "fetch"
  BY DEF RouteInv, HandlerOK, RouteArrives, Active, Waits
<1>2. CacheInv' /\ \A d \in Calls \ {c} : Untouched(d)
  BY CacheUnchanged DEF RouteInv, HandlerTypeOK, RouteArrives, Goto, Untouched
<1>3. PICK t \in since[c]..clock : route' = [route EXCEPT ![c].read = t]
  BY DEF RouteArrives
<1>4. t \in 0..MaxClock /\ clock \in 0..MaxClock /\ since[c] \in 0..MaxClock
  BY <1>3, CacheInvFacts, CacheAssumption DEF RouteInv, HandlerTypeOK
<1>5. /\ pc'[c] = "trace" /\ since'[c] = since[c] /\ route'[c].read = t
      /\ clock' = clock /\ capture'[c] = capture[c]
  BY <1>3 DEF RouteInv, HandlerTypeOK, RouteArrives, Goto
<1>6. HandlerTypeOK'
  BY <1>3, <1>4 DEF RouteInv, HandlerTypeOK, RouteArrives, Goto, Active, Waits
<1>7. TimeOK(c)'
  BY <1>1, <1>3, <1>4, <1>5, TimeoutAssumption DEF RouteInv, TimeOK, Waits
<1>8. CaptureOK(c)'
  BY <1>1, <1>5, UnansweredFacts DEF RouteInv, CaptureOK, RouteArrives, Answered, Computed
<1> QED BY <1>1, <1>2, <1>6, <1>7, <1>8, ProgressKeepsInv DEF RouteArrives, Active, Waits

LEMMA RouteFailsKeepsInv ==
    ASSUME RouteInv, NEW c \in Calls, RouteFails(c)
    PROVE  RouteInv'
<1>1. request[c] \in Requests
  BY DEF RouteInv, HandlerOK, RouteFails, Active, Waits
<1> QED BY <1>1, FailureKeepsInv DEF RouteInv, HandlerTypeOK, CaptureOK, RouteFails, Failures

LEMMA TracesEndKeepsInv ==
    ASSUME RouteInv, NEW c \in Calls, NEW enriched \in BOOLEAN, TracesEnd(c, enriched)
    PROVE  RouteInv'
<1>1. request'[c] \in Requests /\ pc[c] = "trace"
  BY DEF RouteInv, HandlerOK, TracesEnd, Active, Waits
<1>2. CacheInv' /\ \A d \in Calls \ {c} : Untouched(d)
  BY CacheUnchanged DEF RouteInv, HandlerTypeOK, TracesEnd, Goto, Untouched
<1>3. /\ pc'[c] = "compute" /\ since'[c] = since[c] /\ route'[c].read = route[c].read
      /\ clock' = clock /\ capture'[c] = capture[c]
  BY DEF RouteInv, HandlerTypeOK, TracesEnd, Goto
<1>4. HandlerTypeOK'
  BY DEF RouteInv, HandlerTypeOK, TracesEnd, Goto, Active, Busy
<1>5. TimeOK(c)'
  <2>1. /\ clock \in Nat /\ since[c] \in Nat /\ route[c].read \in Nat
        /\ TimeOK(c)
    BY CacheInvFacts DEF RouteInv, HandlerTypeOK
  <2> QED BY <1>1, <1>3, <2>1, TimeoutAssumption DEF TimeOK, Waits
<1>6. CaptureOK(c)'
  BY <1>1, <1>3, UnansweredFacts DEF RouteInv, CaptureOK, TracesEnd, Answered, Computed
<1> QED BY <1>1, <1>2, <1>4, <1>5, <1>6, ProgressKeepsInv DEF TracesEnd, Active, Busy

LEMMA ComputeKeepsInv ==
    ASSUME RouteInv, NEW c \in Calls, Compute(c)
    PROVE  RouteInv'
<1>1. request'[c] \in Requests /\ pc[c] = "compute" /\ ~Answered(c) /\ ~Computed(c)
  BY UnansweredFacts DEF RouteInv, HandlerOK, Compute, Active, Busy
<1>2. CacheInv' /\ \A d \in Calls \ {c} : Untouched(d)
  BY CacheUnchanged DEF RouteInv, HandlerTypeOK, Compute, Goto, Untouched
<1>3. HandlerTypeOK'
  BY DEF RouteInv, HandlerTypeOK, Compute, Goto, Active, Busy
<1>4. TimeOK(c)'
  BY <1>1 DEF RouteInv, HandlerTypeOK, TimeOK, Compute, Goto
<1>5. CaptureOK(c)'
  BY <1>1 DEF RouteInv, HandlerTypeOK, CaptureOK, Compute, Goto, Answered, Computed
<1> QED BY <1>1, <1>2, <1>3, <1>4, <1>5, ProgressKeepsInv DEF Compute, Active, Busy

\* What a handler writes was read no longer ago than its request may take.
LEMMA WrittenInTime ==
    ASSUME RouteInv, NEW c \in Calls, pc[c] = "write"
    PROVE  /\ clock \in Nat /\ route[c].read \in Nat
           /\ route[c].read <= clock /\ clock - route[c].read <= RequestTimeout
<1>1. clock \in Nat /\ route[c].read \in Nat /\ since[c] \in Nat /\ TimeOK(c)
  BY CacheInvFacts DEF RouteInv, HandlerTypeOK
<1> QED BY <1>1, TimeoutAssumption DEF TimeOK

LEMMA WriteKeepsInv ==
    ASSUME RouteInv, NEW c \in Calls, Write(c)
    PROVE  RouteInv'
<1>1. /\ request[c] \in Requests /\ Key(c) \in RequestKeys
      /\ pc[c] = "write" /\ ~Answered(c)
  BY UnansweredFacts DEF RouteInv, HandlerOK, Write, Active, Busy, Requests, Key, RequestKeys
<1>2. Body(c) \in Responses /\ clock \in 0..MaxClock
  BY <1>1, CacheInvFacts, CacheAssumption DEF RouteInv, HandlerTypeOK, Body, Responses, Requests
<1>3. /\ CacheInv'
      /\ clock' = clock
      /\ entries'[Key(c)] = [body |-> Body(c), expires |-> clock + TTL]
      /\ \A k \in DOMAIN entries' \ {Key(c)} : k \in DOMAIN entries /\ entries'[k] = entries[k]
  BY <1>1, <1>2, SetFacts DEF RouteInv, Write
<1>4. \A d \in Calls \ {c} : Untouched(d)
  BY DEF RouteInv, HandlerTypeOK, Write, Finish, Goto, Untouched
<1>5. /\ answer' = [answer EXCEPT ![c] = answer'[c]]
      /\ answer'[c].status = "ok"
      /\ answer'[c].body = Body(c)
      /\ answer'[c].hit = FALSE
      /\ answer'[c].at = clock
      /\ answer'[c] # Waiting
      /\ UNCHANGED <<request, capture, queryStore>>
      /\ pc'[c] = "answered"
  BY AnswerFacts DEF RouteInv, HandlerTypeOK, Write, Finish, Goto, OK
<1>6. HandlerTypeOK' /\ AnswerTypeOK(c)'
  <2>1. HandlerTypeOK'
    BY CacheAssumption DEF RouteInv, HandlerTypeOK, Write, Finish, Goto, NoRoute
  <2>2. FALSE \in BOOLEAN
    OBVIOUS
  <2> QED BY <1>2, <1>5, <2>1, <2>2 DEF AnswerTypeOK
<1>7. HandlerOK(c)'
  <2>1. /\ Body(c).endpoint = request[c].endpoint
        /\ Body(c).payload = request[c].payload
    BY DEF Body
  <2> QED BY <1>1, <1>2, <1>3, <1>5, <2>1 DEF HandlerOK, Active, Waits, Busy
<1>8. TimeOK(c)'
  BY <1>2, <1>3 DEF TimeOK, RouteInv, HandlerTypeOK, Write, Finish, Goto, Waits
<1>9. CaptureOK(c)' /\ HitOK(c)'
  <2>1. Computed(c)'
    BY <1>5 DEF Computed, Answered
  <2> QED BY <1>1, <1>5, <2>1 DEF RouteInv, CaptureOK, HitOK
<1>10. EntryOK(Key(c))'
  <2>1. /\ entries'[Key(c)].body = Body(c)
        /\ entries'[Key(c)].expires = clock + TTL
    BY <1>3
  <2>2. /\ Body(c).endpoint = Key(c)[1]
        /\ Body(c).payload = Key(c)[2]
        /\ Body(c).read = route[c].read
    BY DEF Body, Key
  <2>3. Key(c)' = Key(c)
    BY <1>5 DEF Key
  <2>4. /\ route[c].read \in Nat /\ clock \in Nat
        /\ route[c].read <= clock /\ clock - route[c].read <= RequestTimeout
    BY <1>1, <1>2, WrittenInTime
  <2>5. clock + TTL <= route[c].read + RequestTimeout + TTL
    BY <2>4, TimeoutAssumption, CacheAssumption
  <2>6. ComputedBy(Key(c), c)'
    BY <1>5, <2>1, <2>3 DEF ComputedBy, Answered
  <2> QED BY <1>3, <2>1, <2>2, <2>3, <2>4, <2>5, <2>6 DEF EntryOK
<1>11. \A k \in DOMAIN entries' :
           \/ k \in DOMAIN entries /\ entries'[k] = entries[k]
           \/ EntryOK(k)'
  <2>1. Key(c)' = Key(c)
    BY <1>5 DEF Key
  <2> QED BY <1>3, <1>10, <2>1
<1> QED BY <1>1, <1>3, <1>4, <1>5, <1>6, <1>7, <1>8, <1>9, <1>11, OneCallStep

LEMMA MarshalFailsKeepsInv ==
    ASSUME RouteInv, NEW c \in Calls, MarshalFails(c)
    PROVE  RouteInv'
<1>1. request[c] \in Requests
  BY DEF RouteInv, HandlerOK, MarshalFails, Active, Busy
<1> QED BY <1>1, FailureKeepsInv DEF RouteInv, HandlerTypeOK, MarshalFails, Failures

LEMMA CaptureEndsKeepsInv ==
    ASSUME RouteInv, NEW c \in Calls, CaptureEnds(c)
    PROVE  RouteInv'
<1>1. CacheInv' /\ \A d \in Calls \ {c} : Untouched(d)
  BY CacheUnchanged DEF RouteInv, HandlerTypeOK, CaptureEnds, Untouched
<1>2. HandlerTypeOK' /\ AnswerTypeOK(c)'
  BY DEF RouteInv, HandlerTypeOK, AnswerTypeOK, CaptureEnds
<1>3. HandlerOK(c)' /\ TimeOK(c)'
  BY DEF RouteInv, HandlerTypeOK, HandlerOK, TimeOK, CaptureEnds, Answered
<1>4. CaptureOK(c)' /\ (Answered(c) \/ HitOK(c)')
  BY DEF RouteInv, HandlerTypeOK, CaptureOK, HitOK, CaptureEnds, Answered, Computed
<1> QED BY <1>1, <1>2, <1>3, <1>4, OneCallStep DEF CaptureEnds

\* What is left of the invariant to prove when no answer and no request changes.
LEMMA SameAnswersStep ==
    ASSUME RouteInv, CacheInv', clock' <= MaxClock, HandlerTypeOK',
           UNCHANGED <<answer, request>>,
           \A c \in Calls : HandlerOK(c)' /\ TimeOK(c)' /\ CaptureOK(c)',
           DOMAIN entries' \subseteq DOMAIN entries,
           \A k \in DOMAIN entries' :
               entries'[k] = entries[k] /\ entries'[k].body.read <= clock'
    PROVE  RouteInv'
<1>1. ASSUME NEW c \in Calls PROVE AnswerTypeOK(c)' /\ HitOK(c)'
  <2>1. AnswerTypeOK(c) /\ HitOK(c)
    BY DEF RouteInv
  <2> QED BY <2>1 DEF AnswerTypeOK, HitOK, Repeats, Answered
<1>2. ASSUME NEW k \in DOMAIN entries' PROVE EntryOK(k)'
  <2>1. EntryOK(k) /\ entries'[k] = entries[k]
    BY <1>2 DEF RouteInv
  <2> QED BY <2>1 DEF EntryOK, ComputedBy, Answered, Key
<1> QED BY <1>1, <1>2 DEF RouteInv

LEMMA RestartKeepsInv ==
    ASSUME RouteInv, Restart
    PROVE  RouteInv'
<1>1. CacheInv' /\ clock' = clock
  BY CacheStepKeepsInv DEF RouteInv, Restart, Cache!CacheNext, Cache!Restart
<1>2. DOMAIN entries' = {}
  BY DEF Restart, Cache!Restart, Cache!NoEntries
<1>3. HandlerTypeOK'
  BY CacheAssumption DEF RouteInv, HandlerTypeOK, Restart, NoRoute
<1>4. ASSUME NEW c \in Calls PROVE HandlerOK(c)' /\ TimeOK(c)' /\ CaptureOK(c)'
  <2>1. /\ pc'[c] = IF pc[c] \in Active THEN "lost" ELSE pc[c]
        /\ since'[c] = 0
        /\ capture'[c] = IF capture[c] = "running" THEN "lost" ELSE capture[c]
        /\ request'[c] = request[c] /\ answer'[c] = answer[c]
    BY DEF Restart
  <2>2. HandlerOK(c) /\ CaptureOK(c) /\ clock \in Nat
    BY CacheInvFacts DEF RouteInv
  <2>3. HandlerOK(c)' /\ TimeOK(c)'
    BY <1>1, <2>1, <2>2 DEF HandlerOK, TimeOK, Answered, Active, Waits, Busy
  <2>4. queryStore' = queryStore /\ (Computed(c)' <=> Computed(c))
    BY <2>1 DEF Restart, Computed, Answered
  <2>5. CaptureOK(c)'
    BY <2>1, <2>2, <2>4 DEF CaptureOK, Active, Waits, Busy
  <2> QED BY <2>3, <2>5
<1> QED BY <1>1, <1>2, <1>3, <1>4, SameAnswersStep DEF RouteInv, Restart

LEMMA TickKeepsInv ==
    ASSUME RouteInv, Tick
    PROVE  RouteInv'
<1>1. CacheInv' /\ clock' = clock + 1 /\ clock < MaxClock /\ clock \in Nat /\ entries' = entries
  BY CacheStepKeepsInv, CacheInvFacts DEF RouteInv, Tick, Cache!CacheNext, Cache!Tick
<1>2. HandlerTypeOK'
  BY DEF RouteInv, HandlerTypeOK, Tick, callVars
<1>3. ASSUME NEW c \in Calls PROVE HandlerOK(c)' /\ TimeOK(c)' /\ CaptureOK(c)'
  <2>1. /\ pc'[c] = pc[c] /\ since'[c] = since[c] /\ route'[c] = route[c]
        /\ capture'[c] = capture[c] /\ request'[c] = request[c] /\ answer'[c] = answer[c]
        /\ queryStore' = queryStore
    BY DEF Tick, callVars
  <2>2. HandlerOK(c) /\ TimeOK(c) /\ CaptureOK(c) /\ AnswerTypeOK(c)
    BY DEF RouteInv
  <2>3. since[c] \in Nat /\ route[c].read \in Nat
    BY DEF RouteInv, HandlerTypeOK
  <2>4. HandlerOK(c)'
    BY <1>1, <2>1, <2>2, AnswerFacts, CacheAssumption DEF HandlerOK, AnswerTypeOK, Answered, Failures
  <2>5. TimeOK(c)'
    BY <1>1, <2>1, <2>2, <2>3, TimeoutAssumption DEF TimeOK, Tick, Waits, Busy
  <2>6. CaptureOK(c)'
    BY <2>1, <2>2 DEF CaptureOK, Computed, Answered
  <2> QED BY <2>4, <2>5, <2>6
<1>4. ASSUME NEW k \in DOMAIN entries PROVE entries[k].body.read <= clock + 1
  <2>1. entries[k].body.read <= clock /\ entries[k].body.read \in Nat
    BY CacheInvFacts DEF RouteInv, EntryOK, Responses
  <2> QED BY <1>1, <2>1
<1>5. clock' <= MaxClock
  BY <1>1, CacheAssumption
<1> QED BY <1>1, <1>2, <1>3, <1>4, <1>5, SameAnswersStep DEF Tick, callVars

-----------------------------------------------------------------------------
LEMMA RouteInitInv == Init => RouteInv
<1> SUFFICES ASSUME Init PROVE RouteInv
  OBVIOUS
<1>1. CacheInv /\ clock = 0 /\ DOMAIN entries = {}
  <2>1. CacheProofs!CacheInit
    BY DEF Init, Cache!CacheInit, CacheProofs!CacheInit, Cache!NoEntries, CacheProofs!NoEntries
  <2> QED BY <2>1, CacheProofs!CacheInitInv, CacheAssumption
          DEF CacheInv, Init, Cache!CacheInit, Cache!NoEntries
<1>2. HandlerTypeOK
  BY CacheAssumption DEF Init, HandlerTypeOK, NoRoute
<1>3. ASSUME NEW c \in Calls
      PROVE  AnswerTypeOK(c) /\ HandlerOK(c) /\ TimeOK(c) /\ CaptureOK(c) /\ HitOK(c)
  <2>1. /\ pc[c] = "idle" /\ request[c] = NoRequest /\ since[c] = 0
        /\ answer[c] = Waiting /\ capture[c] = "none" /\ ~Answered(c) /\ ~Computed(c)
    BY AnswerFacts DEF Init, Answered, Computed
  <2> QED BY <1>1, <2>1 DEF AnswerTypeOK, HandlerOK, TimeOK, CaptureOK, HitOK, Active, Waits, Busy
<1>4. answer = [c \in Calls |-> answer[c]]
  BY DEF Init
<1> QED BY <1>1, <1>2, <1>3, <1>4, CacheAssumption DEF RouteInv

LEMMA RouteNextInv == RouteInv /\ [Next]_vars => RouteInv'
<1> SUFFICES ASSUME RouteInv, [Next]_vars PROVE RouteInv'
  OBVIOUS
<1>1. ASSUME NEW c \in Calls, NEW e \in Endpoints, NEW p \in Payloads, Receive(c, e, p)
      PROVE  RouteInv'
  BY <1>1, ReceiveKeepsInv
<1>2. ASSUME NEW c \in Calls, ReceiveOther(c) PROVE RouteInv'
  BY <1>2, ReceiveOtherKeepsInv
<1>3. ASSUME NEW c \in Calls, Step(c) PROVE RouteInv'
  BY <1>3, ServeCachedKeepsInv, MissKeepsInv, RouteArrivesKeepsInv, RouteFailsKeepsInv,
     TracesEndKeepsInv, ComputeKeepsInv, WriteKeepsInv, MarshalFailsKeepsInv DEF Step
<1>4. ASSUME NEW c \in Calls, CaptureEnds(c) PROVE RouteInv'
  BY <1>4, CaptureEndsKeepsInv
<1>5. CASE Restart
  BY <1>5, RestartKeepsInv
<1>6. CASE Tick
  BY <1>6, TickKeepsInv
<1>7. CASE UNCHANGED vars
  <2>1. CacheInv' /\ HandlerTypeOK'
    BY <1>7, CacheUnchanged DEF RouteInv, HandlerTypeOK, vars, callVars
  <2>2. ASSUME NEW c \in Calls PROVE HandlerOK(c)' /\ TimeOK(c)' /\ CaptureOK(c)'
    BY <1>7 DEF RouteInv, HandlerOK, TimeOK, CaptureOK, Computed, Answered, vars, callVars
  <2> QED BY <1>7, <2>1, <2>2, SameAnswersStep DEF RouteInv, EntryOK, vars, callVars
<1> QED BY <1>1, <1>2, <1>3, <1>4, <1>5, <1>6, <1>7 DEF Next

LEMMA RouteInvariant == Spec => []RouteInv
BY RouteInitInv, RouteNextInv, PTL DEF Spec

(***************************************************************************)
(* Theorem: every variable of the handlers keeps its type.                 *)
(***************************************************************************)
THEOREM RouteTypeCorrect == Spec => []TypeOK
<1>1. RouteInv => TypeOK
  BY CacheInvFacts DEF RouteInv, HandlerTypeOK, AnswerTypeOK, Requests, TypeOK
<1> QED BY <1>1, RouteInvariant, PTL

(***************************************************************************)
(* Theorem: however many calls race for a key, expire it and evict it, a   *)
(* response served from the cache is one that was computed for the same    *)
(* request and given at most TTL ago.                                      *)
(***************************************************************************)
THEOREM HitsRepeatAnswers == Spec => []HitRepeatsAnswer
<1>1. RouteInv => HitRepeatsAnswer
  BY DEF RouteInv, HitOK, Repeats, HitRepeatsAnswer
<1> QED BY <1>1, RouteInvariant, PTL

(***************************************************************************)
(* Theorem: where capture is enabled the routes captured are those         *)
(* computed, all and no others: none for a cache hit, a rejected body or a *)
(* failure of the engine; where it is disabled, none.                      *)
(***************************************************************************)
THEOREM ComputedRoutesAreCaptured == Spec => []CapturesComputedRoutes
<1>1. RouteInv => CapturesComputedRoutes
  BY DEF RouteInv, CaptureOK, CapturesComputedRoutes
<1> QED BY <1>1, RouteInvariant, PTL

(***************************************************************************)
(* Theorem: the handlers implement the service their clients see.  Asking, *)
(* answering, failing, crashing and the passing of time are steps of       *)
(* AnswerService, everything between them is a stutter.                    *)
(***************************************************************************)
Told == [c \in Calls |-> ToClient(c)]

LEMMA ToldFacts ==
    ASSUME RouteInv, NEW c \in Calls
    PROVE  /\ pc[c] \notin {"answered", "lost"} => ToClient(c) = Waiting
           /\ pc[c] = "lost" => ToClient(c) = Promise!Lost
           /\ pc[c] = "answered" => ToClient(c) # Waiting
           /\ Answered(c) => ToClient(c) = Promise!OK(request[c], answer[c].body.read)
<1>1. HandlerOK(c)
  BY DEF RouteInv
<1>2. CASE pc[c] = "lost"
  BY <1>1, <1>2, AnswerFacts DEF HandlerOK, ToClient, Promise!Lost, Answered
<1>3. CASE pc[c] = "answered"
  <2>1. CASE Answered(c)
    <3>1. ToClient(c) = Promise!OK(request[c], answer[c].body.read)
      BY <1>1, <1>3, <2>1 DEF HandlerOK, ToClient, Promise!OK
    <3>2. ToClient(c).status = "ok"
      BY <3>1 DEF Promise!OK
    <3> QED BY <1>3, <2>1, <3>1, <3>2, AnswerFacts
  <2>2. CASE ~Answered(c)
    BY <1>1, <1>3, <2>2, AnswerFacts DEF HandlerOK, ToClient
  <2> QED BY <2>1, <2>2
<1>4. CASE pc[c] \notin {"answered", "lost"}
  BY <1>1, <1>4, AnswerFacts DEF HandlerOK, ToClient, Answered, Failures
<1> QED BY <1>2, <1>3, <1>4

LEMMA ToldNext ==
    ASSUME RouteInv', NEW c \in Calls
    PROVE  /\ pc'[c] \notin {"answered", "lost"} => ToClient(c)' = Waiting
           /\ pc'[c] = "lost" => ToClient(c)' = Promise!Lost
           /\ pc'[c] = "answered" /\ answer'[c].status \in Failures => ToClient(c)' = Reply("error")
           /\ pc'[c] = "answered" /\ answer'[c] = Reply("other") => ToClient(c)' = Reply("other")
           /\ Answered(c)' => ToClient(c)' = Promise!OK(request'[c], answer'[c].body.read)
<1>1. HandlerOK(c)'
  BY DEF RouteInv
<1>2. CASE pc'[c] = "lost"
  BY <1>1, <1>2, AnswerFacts DEF HandlerOK, ToClient, Promise!Lost, Answered
<1>3. CASE pc'[c] = "answered"
  BY <1>1, <1>3, AnswerFacts DEF HandlerOK, ToClient, Promise!OK, Answered, Failures
<1>4. CASE pc'[c] \notin {"answered", "lost"}
  BY <1>1, <1>4, AnswerFacts DEF HandlerOK, ToClient, Answered, Failures
<1> QED BY <1>2, <1>3, <1>4

LEMMA UntouchedIsTold ==
    ASSUME NEW d \in Calls, Untouched(d)
    PROVE  ToClient(d)' = ToClient(d)
BY DEF Untouched, ToClient, Answered

\* A step of one call that ends it changes what that client is told ...
LEMMA ToldOfOne ==
    ASSUME NEW c \in Calls, NEW a, ToClient(c)' = a, \A d \in Calls \ {c} : Untouched(d)
    PROVE  Told' = [Told EXCEPT ![c] = a]
<1>1. \A d \in Calls \ {c} : ToClient(d)' = ToClient(d)
  BY UntouchedIsTold
<1> QED BY <1>1 DEF Told

\* ... and one that goes on changes nothing that any client is told.
LEMMA ToldOfNone ==
    ASSUME RouteInv, RouteInv', NEW c \in Calls, UNCHANGED <<clock, request>>,
           pc[c] \notin {"answered", "lost"}, pc'[c] \notin {"answered", "lost"},
           \A d \in Calls \ {c} : Untouched(d)
    PROVE  UNCHANGED <<clock, request, Told>>
<1>1. ToClient(c)' = ToClient(c)
  BY ToldFacts, ToldNext
<1> QED BY <1>1, UntouchedIsTold DEF Told

\* The actions of AnswerService, in terms of Told.
LEMMA PromiseFacts ==
    /\ Promise!Waiting = Waiting
    /\ Promise!Error = Reply("error")
    /\ Promise!Other = Reply("other")
    /\ Promise!NoRequest = NoRequest
    /\ Promise!Request = Requests
    /\ NoRequest \notin Requests
<1>1. NoRequest \notin Requests
  <2>1. NoRequest.endpoint = "none" /\ "none" \notin Endpoints
    BY EndpointAssumption DEF NoRequest
  <2> QED BY <2>1 DEF Requests
<1> QED BY <1>1 DEF Promise!Waiting, Waiting, Promise!Error, Promise!Other, Reply,
        Promise!NoRequest, NoRequest, Promise!Request, Requests

LEMMA FailureImplementsFail ==
    ASSUME RouteInv, RouteInv', NEW c \in Calls, pc[c] \in Active,
           NEW s \in Failures, Finish(c, Reply(s)),
           UNCHANGED <<clock, entries, order, request, capture>>
    PROVE  Promise!Fail(c)
<1>1. \A d \in Calls \ {c} : Untouched(d)
  BY DEF RouteInv, HandlerTypeOK, Finish, Goto, Untouched
<1>2. request[c] # NoRequest /\ ToClient(c) = Waiting
  BY PromiseFacts, ToldFacts DEF RouteInv, HandlerOK, Active, Waits, Busy
<1>3. answer'[c].status \in Failures /\ pc'[c] = "answered"
  BY AnswerFacts DEF RouteInv, HandlerTypeOK, Finish, Goto
<1>4. ToClient(c)' = Reply("error")
  BY <1>3, ToldNext
<1>5. Told' = [Told EXCEPT ![c] = Reply("error")]
  BY <1>1, <1>4, ToldOfOne
<1> QED BY <1>2, <1>5, PromiseFacts DEF Promise!Fail, Promise!Pending, Told

LEMMA ReceiveImplementsAsk ==
    ASSUME RouteInv, RouteInv', NEW c \in Calls, NEW e \in Endpoints, NEW p \in Payloads,
           Receive(c, e, p)
    PROVE  Promise!Ask(c, [endpoint |-> e, payload |-> p])
<1>1. \A d \in Calls \ {c} : Untouched(d)
  BY DEF RouteInv, HandlerTypeOK, Receive, Finish, Goto, Untouched
<1>2. request[c] = NoRequest /\ ToClient(c) = Waiting
  BY ToldFacts DEF RouteInv, HandlerOK, Receive
<1>3. CASE p \in Valid
  <2>1. pc'[c] = "lookup"
    BY <1>3 DEF RouteInv, HandlerTypeOK, Receive, Goto
  <2>2. ToClient(c)' = ToClient(c)
    BY <1>2, <2>1, ToldNext
  <2>3. Told' = Told
    BY <1>1, <2>2, UntouchedIsTold DEF Told
  <2> QED BY <1>2, <2>3, PromiseFacts DEF Promise!Ask, Promise!Fresh, Told, Receive
<1>4. CASE p \notin Valid
  <2>1. answer'[c].status \in Failures /\ pc'[c] = "answered"
    BY <1>4, AnswerFacts DEF RouteInv, HandlerTypeOK, Receive, Finish, Goto, Failures
  <2>2. ToClient(c)' = Reply("error")
    BY <2>1, ToldNext
  <2>3. Told' = [Told EXCEPT ![c] = Reply("error")]
    BY <1>1, <2>2, ToldOfOne
  <2> QED BY <1>2, <2>3, PromiseFacts DEF Promise!Ask, Promise!Fresh, Told, Receive
<1> QED BY <1>3, <1>4

LEMMA ReceiveOtherImplementsAskOther ==
    ASSUME RouteInv, RouteInv', NEW c \in Calls, ReceiveOther(c)
    PROVE  Promise!AskOther(c)
<1>1. \A d \in Calls \ {c} : Untouched(d)
  BY DEF RouteInv, HandlerTypeOK, ReceiveOther, Finish, Goto, Untouched
<1>2. request[c] = NoRequest /\ ToClient(c) = Waiting
  BY ToldFacts DEF RouteInv, HandlerOK, ReceiveOther
<1>3. answer'[c] = Reply("other") /\ pc'[c] = "answered"
  BY DEF RouteInv, HandlerTypeOK, ReceiveOther, Finish, Goto
<1>4. ToClient(c)' = Reply("other")
  BY <1>3, ToldNext
<1>5. Told' = [Told EXCEPT ![c] = Reply("other")]
  BY <1>1, <1>4, ToldOfOne
<1> QED BY <1>2, <1>5, PromiseFacts DEF Promise!AskOther, Promise!Fresh, Told, ReceiveOther

\* A successful answer is young enough: what a handler reads itself by the
\* timeouts, what it finds in the cache by these and the time to live.
LEMMA AnswerImplementsAnswer ==
    ASSUME RouteInv, RouteInv', NEW c \in Calls, pc[c] \in Active, Answered(c)',
           UNCHANGED <<clock, request>>,
           \A d \in Calls \ {c} : Untouched(d),
           NEW t \in 0..clock, answer'[c].body.read = t,
           clock - t <= TTL + RequestTimeout
    PROVE  Promise!Answer(c)
<1>1. request[c] # NoRequest /\ ToClient(c) = Waiting
  BY PromiseFacts, ToldFacts DEF RouteInv, HandlerOK, Active, Waits, Busy
<1>2. ToClient(c)' = Promise!OK(request[c], t)
  BY ToldNext
<1>3. Told' = [Told EXCEPT ![c] = Promise!OK(request[c], t)]
  BY <1>2, ToldOfOne
<1> QED BY <1>1, <1>3, PromiseFacts DEF Promise!Answer, Promise!Pending, Told

LEMMA ServeCachedImplementsAnswer ==
    ASSUME RouteInv, RouteInv', NEW c \in Calls, ServeCached(c)
    PROVE  Promise!Answer(c)
<1> DEFINE k == Key(c)
           t == entries[k].body.read
<1>1. k \in DOMAIN entries /\ ~(clock > entries[k].expires) /\ clock' = clock
  BY DEF ServeCached, Cache!GetHit, Cache!Cached, Cache!Expired
<1>2. /\ clock \in Nat /\ entries[k].expires \in Nat /\ t \in Nat
      /\ t <= clock
      /\ entries[k].expires <= t + RequestTimeout + TTL
  BY <1>1, CacheInvFacts DEF RouteInv, EntryOK, Responses
<1>3. \A d \in Calls \ {c} : Untouched(d)
  BY DEF RouteInv, HandlerTypeOK, ServeCached, Finish, Goto, Untouched
<1>4. Answered(c)' /\ answer'[c].body.read = t
  BY DEF RouteInv, ServeCached, Finish, OK, Answered
<1> HIDE DEF t, k
<1>5. t \in 0..clock /\ clock - t <= TTL + RequestTimeout
  BY <1>1, <1>2, TimeoutAssumption, CacheAssumption
<1> QED BY <1>1, <1>3, <1>4, <1>5, AnswerImplementsAnswer DEF ServeCached, Active, Busy

LEMMA WriteImplementsAnswer ==
    ASSUME RouteInv, RouteInv', NEW c \in Calls, Write(c)
    PROVE  Promise!Answer(c)
<1> DEFINE t == route[c].read
<1>1. /\ clock \in Nat /\ t \in Nat
      /\ t <= clock /\ clock - t <= RequestTimeout
  BY WrittenInTime DEF Write
<1>2. \A d \in Calls \ {c} : Untouched(d)
  BY DEF RouteInv, HandlerTypeOK, Write, Finish, Goto, Untouched
<1>3. Answered(c)' /\ answer'[c].body.read = t
  BY DEF RouteInv, Write, Finish, OK, Body, Answered
<1>4. clock' = clock
  BY DEF Write, Cache!Set, Cache!SetExisting, Cache!SetNew
<1> HIDE DEF t
<1>5. t \in 0..clock /\ clock - t <= TTL + RequestTimeout
  BY <1>1, TimeoutAssumption, CacheAssumption
<1> QED BY <1>2, <1>3, <1>4, <1>5, AnswerImplementsAnswer DEF Write, Active, Busy

LEMMA RestartImplementsCrash ==
    ASSUME RouteInv, RouteInv', Restart
    PROVE  Promise!Crash
<1>1. ASSUME NEW c \in Calls
      PROVE  ToClient(c)' = IF request[c] # NoRequest /\ ToClient(c) = Waiting
                            THEN Promise!Lost ELSE ToClient(c)
  <2>1. /\ pc'[c] = IF pc[c] \in Active THEN "lost" ELSE pc[c]
        /\ request'[c] = request[c] /\ answer'[c] = answer[c]
    BY DEF Restart
  <2>2. CASE pc[c] \in Active
    BY <2>1, <2>2, ToldFacts, ToldNext, PromiseFacts DEF RouteInv, HandlerOK, Active, Waits, Busy
  <2>3. CASE pc[c] = "idle"
    BY <2>1, <2>3, ToldFacts, ToldNext DEF RouteInv, HandlerOK, Active, Waits, Busy
  <2>4. CASE pc[c] \in {"answered", "lost"}
    <3>1. pc'[c] = pc[c] /\ ToClient(c)' = ToClient(c)
      BY <2>1, <2>4 DEF ToClient, Answered, Active, Waits, Busy
    <3>2. Promise!Lost # Waiting
      BY AnswerFacts DEF Promise!Lost
    <3>3. ToClient(c) # Waiting
      BY <2>4, <3>2, ToldFacts
    <3> QED BY <3>1, <3>3
  <2> QED BY <2>2, <2>3, <2>4 DEF RouteInv, HandlerTypeOK
<1>2. clock' = clock /\ request' = request
  BY DEF Restart, Cache!Restart
<1>3. Told' = [c \in Calls |-> IF request[c] # NoRequest /\ ToClient(c) = Waiting
                               THEN Promise!Lost ELSE ToClient(c)]
  BY <1>1 DEF Told
<1> QED BY <1>2, <1>3, PromiseFacts DEF Promise!Crash, Promise!Pending, Told

LEMMA StepImplementsAnswerService ==
    ASSUME RouteInv, RouteInv', [Next]_vars
    PROVE  [Promise!Next]_(Promise!answerVars)
<1>1. ASSUME NEW c \in Calls, NEW e \in Endpoints, NEW p \in Payloads, Receive(c, e, p)
      PROVE  \E r \in Promise!Request : Promise!Ask(c, r)
  BY <1>1, ReceiveImplementsAsk, PromiseFacts DEF Requests
<1>2. ASSUME NEW c \in Calls, ReceiveOther(c) PROVE Promise!AskOther(c)
  BY <1>2, ReceiveOtherImplementsAskOther
<1>3. ASSUME NEW c \in Calls, Step(c)
      PROVE  Promise!Fail(c) \/ Promise!Answer(c) \/ UNCHANGED <<clock, request, Told>>
  <2>1. CASE ServeCached(c) \/ Write(c)
    BY <2>1, ServeCachedImplementsAnswer, WriteImplementsAnswer
  <2>2. CASE RouteFails(c) \/ MarshalFails(c)
    BY <2>2, FailureImplementsFail DEF RouteFails, MarshalFails, Active, Waits, Busy, Failures
  <2>3. CASE Miss(c) \/ RouteArrives(c) \/ (\E enriched \in BOOLEAN : TracesEnd(c, enriched))
                \/ Compute(c)
    <3>1. \A d \in Calls \ {c} : Untouched(d)
      BY <2>3 DEF RouteInv, HandlerTypeOK, Miss, RouteArrives, TracesEnd, Compute, Goto, Untouched
    <3>2. clock' = clock /\ request' = request
      BY <2>3 DEF Miss, RouteArrives, TracesEnd, Compute, Cache!GetAbsent, Cache!GetExpired,
         Cache!cacheVars
    <3>3. pc[c] \notin {"answered", "lost"} /\ pc'[c] \notin {"answered", "lost"}
      BY <2>3 DEF RouteInv, HandlerTypeOK, Miss, RouteArrives, TracesEnd, Compute, Goto
    <3> QED BY <3>1, <3>2, <3>3, ToldOfNone
  <2> QED BY <1>3, <2>1, <2>2, <2>3 DEF Step
<1>4. ASSUME NEW c \in Calls, CaptureEnds(c) PROVE UNCHANGED <<clock, request, Told>>
  BY <1>4 DEF CaptureEnds, Told, ToClient, Answered
<1>5. CASE Restart
  BY <1>5, RestartImplementsCrash DEF Promise!Next
<1>6. CASE Tick
  <2>1. Promise!Advance
    BY <1>6 DEF Tick, Cache!Tick, callVars, Promise!Advance, ToClient, Answered
  <2> QED BY <2>1 DEF Promise!Next
<1>7. CASE UNCHANGED vars
  BY <1>7 DEF vars, callVars, Promise!answerVars, ToClient, Answered
<1>8. UNCHANGED <<clock, request, Told>> => UNCHANGED Promise!answerVars
  BY DEF Told, Promise!answerVars
<1>9. CASE \E c \in Calls, e \in Endpoints, p \in Payloads : Receive(c, e, p)
  BY <1>1, <1>9 DEF Promise!Next
<1>10. CASE \E c \in Calls : ReceiveOther(c)
  BY <1>2, <1>10 DEF Promise!Next
<1>11. CASE \E c \in Calls : Step(c)
  BY <1>3, <1>8, <1>11 DEF Promise!Next
<1>12. CASE \E c \in Calls : CaptureEnds(c)
  BY <1>4, <1>8, <1>12
<1> QED BY <1>5, <1>6, <1>7, <1>8, <1>9, <1>10, <1>11, <1>12 DEF Next, Promise!Next

THEOREM RouteImplementsAnswerService == Spec => ImplementsAnswerService
<1>1. Init => Promise!Init
  <2> SUFFICES ASSUME Init PROVE Promise!Init
    OBVIOUS
  <2>1. \A c \in Calls : ToClient(c) = Waiting
    BY AnswerFacts DEF Init, ToClient, Answered, Failures
  <2> QED BY <2>1, PromiseFacts DEF Init, Cache!CacheInit, Promise!Init
<1>2. RouteInv /\ RouteInv' /\ [Next]_vars => [Promise!Next]_(Promise!answerVars)
  BY StepImplementsAnswerService
<1> QED BY <1>1, <1>2, RouteInvariant, PTL DEF Spec, ImplementsAnswerService, Promise!Spec

-----------------------------------------------------------------------------
(* The handlers together with their captures. *)

(***************************************************************************)
(* The inductive invariant of the captures.  That one client is created    *)
(* and used only when it is there follows from who can be creating one in  *)
(* each state of the sync.Once.                                            *)
(***************************************************************************)
Creators == {p \in Calls : putPc[p] = "creating"}

OnceOK ==
    /\ once = "fresh" => inits = 0 /\ client = "none" /\ Creators = {}
    /\ once = "running" => inits = 1 /\ client = "none" /\ \E p \in Calls : Creators = {p}
    /\ once = "done" => inits = 1 /\ client # "none" /\ Creators = {}

UploadsOK == \A p \in Calls : putPc[p] \in Store!Uploads => once = "done" /\ client = "ready"

\* A Put that ended wrote its record or logged why it did not.
Accounted == \A p \in Calls : putPc[p] = "ended" => p \in bucket \cup logged

StoreInv == Store!TypeOK /\ OnceOK /\ UploadsOK /\ Accounted

\* The capture of a call ends with its Put.
EndedTogether == \A c \in Calls : capture[c] = "ended" => putPc[c] = "ended"

CapturingInv == RouteInv /\ StoreInv /\ EndedTogether

-----------------------------------------------------------------------------
(* The Put goroutines. *)

\* A Put that neither becomes nor stops being the one that creates the client.
LEMMA SameCreators ==
    ASSUME NEW p \in Calls, NEW l, Store!TypeOK, Store!Goto(p, l),
           putPc[p] # "creating", l # "creating"
    PROVE  Creators' = Creators
BY DEF Store!TypeOK, Store!Goto, Creators

LEMMA BeginKeepsInv ==
    ASSUME StoreInv, NEW p \in Calls, Store!Start(p) \/ Store!MarshalFails(p)
    PROVE  StoreInv'
<1>1. Store!TypeOK'
  BY DEF StoreInv, Store!TypeOK, Store!Start, Store!MarshalFails, Store!Swallow, Store!Goto
<1>2. OnceOK'
  BY SameCreators
  DEF StoreInv, OnceOK, Store!Start, Store!MarshalFails, Store!Swallow
<1>3. UploadsOK' /\ Accounted'
  BY DEF StoreInv, Store!TypeOK, UploadsOK, Accounted, Store!Uploads, Store!Start,
     Store!MarshalFails, Store!Swallow, Store!Goto
<1> QED BY <1>1, <1>2, <1>3 DEF StoreInv

LEMMA EnterOnceKeepsInv ==
    ASSUME StoreInv, NEW p \in Calls, Store!EnterOnce(p)
    PROVE  StoreInv'
<1>1. /\ once = "fresh" /\ once' = "running" /\ inits = 0 /\ inits' = 1
      /\ client = "none" /\ client' = "none" /\ Creators = {}
  BY DEF StoreInv, OnceOK, Store!EnterOnce
<1>2. Creators' = {p}
  BY <1>1 DEF StoreInv, Store!TypeOK, Store!EnterOnce, Store!Goto, Creators
<1>3. Store!TypeOK'
  BY <1>1 DEF StoreInv, Store!TypeOK, Store!EnterOnce, Store!Goto
<1>4. UploadsOK' /\ Accounted'
  BY <1>1 DEF StoreInv, Store!TypeOK, UploadsOK, Accounted, Store!Uploads, Store!EnterOnce, Store!Goto
<1> QED BY <1>1, <1>2, <1>3, <1>4 DEF StoreInv, OnceOK

LEMMA ClientCreatedKeepsInv ==
    ASSUME StoreInv, NEW p \in Calls, NEW outcome \in {"ready", "failed"},
           Store!ClientCreated(p, outcome)
    PROVE  StoreInv'
<1>1. once = "running" /\ inits = 1 /\ Creators = {p}
  BY DEF StoreInv, OnceOK, Store!TypeOK, Store!ClientCreated, Creators
<1>2. Creators' = {} /\ once' = "done" /\ inits' = 1 /\ client' = outcome
  BY <1>1 DEF StoreInv, Store!TypeOK, Store!ClientCreated, Store!Goto, Creators
<1>3. Store!TypeOK'
  BY <1>2 DEF StoreInv, Store!TypeOK, Store!ClientCreated, Store!Goto
<1>4. UploadsOK' /\ Accounted'
  BY <1>1 DEF StoreInv, Store!TypeOK, UploadsOK, Accounted, Store!Uploads, Store!ClientCreated,
     Store!Goto
<1> QED BY <1>2, <1>3, <1>4 DEF StoreInv, OnceOK

LEMMA GotKeepsInv ==
    ASSUME StoreInv, clock \in 0..MaxClock, NEW p \in Calls, Store!GotClient(p) \/ Store!GotError(p)
    PROVE  StoreInv'
<1>1. Store!TypeOK'
  BY DEF StoreInv, Store!TypeOK, Store!GotClient, Store!GotError, Store!Swallow, Store!Goto
<1>2. OnceOK'
  BY SameCreators DEF StoreInv, OnceOK, Store!GotClient, Store!GotError, Store!Swallow
<1>3. UploadsOK' /\ Accounted'
  BY DEF StoreInv, Store!TypeOK, UploadsOK, Accounted, Store!Uploads, Store!GotClient,
     Store!GotError, Store!Swallow, Store!Goto
<1> QED BY <1>1, <1>2, <1>3 DEF StoreInv

LEMMA UploadKeepsInv ==
    ASSUME StoreInv, NEW p \in Calls,
           Store!Written(p) \/ Store!WriteFails(p) \/ Store!Closed(p) \/ Store!CloseFails(p)
    PROVE  StoreInv'
<1> USE DEF Store!Written, Store!WriteFails, Store!Closed, Store!CloseFails, Store!Swallow
<1>1. Store!TypeOK'
  BY DEF StoreInv, Store!TypeOK, Store!Goto
<1>2. OnceOK'
  BY SameCreators DEF StoreInv, OnceOK
<1>3. UploadsOK' /\ Accounted'
  BY DEF StoreInv, Store!TypeOK, UploadsOK, Accounted, Store!Uploads, Store!Goto
<1> QED BY <1>1, <1>2, <1>3 DEF StoreInv

LEMMA StoreRestartKeepsInv ==
    ASSUME StoreInv, Store!Restart, MaxClock \in Nat
    PROVE  StoreInv'
<1>1. PICK landed \in SUBSET {p \in Calls : putPc[p] = "closing"} : bucket' = bucket \cup landed
  BY DEF Store!Restart
<1>2. /\ once' = "fresh" /\ inits' = 0 /\ client' = "none" /\ logged' = logged
      /\ \A p \in Calls :
             putPc'[p] = IF putPc[p] \in {"unborn", "ended"} THEN putPc[p] ELSE "lost"
  BY DEF Store!Restart
<1>3. Store!TypeOK'
  BY <1>1 DEF StoreInv, Store!TypeOK, Store!Restart
<1>4. OnceOK' /\ UploadsOK' /\ Accounted'
  BY <1>1, <1>2 DEF StoreInv, OnceOK, UploadsOK, Accounted, Creators, Store!Uploads
<1> QED BY <1>3, <1>4 DEF StoreInv

LEMMA StoreUnchanged ==
    ASSUME StoreInv, clock' \in 0..MaxClock, UNCHANGED putVars
    PROVE  StoreInv'
<1>1. Store!TypeOK'
  BY DEF StoreInv, Store!TypeOK, putVars
<1> QED BY <1>1 DEF StoreInv, OnceOK, UploadsOK, Accounted, Creators, Store!Uploads, putVars

-----------------------------------------------------------------------------
(* Handlers and captures together. *)

\* What a step of a Put goroutine does to the store's variables.
LEMMA PutStepKeepsStore ==
    ASSUME CapturingInv, NEW c \in Calls, Put(c) \/ Create(c)
    PROVE  StoreInv'
<1>1. clock \in 0..MaxClock
  BY CacheInvFacts, CacheAssumption DEF CapturingInv, RouteInv
<1>2. \/ Store!Start(c) \/ Store!MarshalFails(c)
      \/ Store!EnterOnce(c)
      \/ Store!GotClient(c) \/ Store!GotError(c)
      \/ Store!Written(c) \/ Store!WriteFails(c) \/ Store!Closed(c) \/ Store!CloseFails(c)
      \/ \E outcome \in {"ready", "failed"} : Store!ClientCreated(c, outcome)
  BY DEF Put, Create, PutStep, Store!Step, Store!Create
<1> QED BY <1>1, <1>2, BeginKeepsInv, EnterOnceKeepsInv, GotKeepsInv, UploadKeepsInv,
        ClientCreatedKeepsInv DEF CapturingInv

\* Every step is one of RouteService, or none of its variables' business.
LEMMA StepImplementsRouteService ==
    ASSUME RouteInv, [CapturingNext]_capturingVars
    PROVE  [Next]_vars
<1>1. ASSUME NEW c \in Calls, Arrive(c) PROVE Next
  BY <1>1 DEF Arrive, Next
<1>2. ASSUME NEW c \in Calls, Handle(c) PROVE Next
  BY <1>2 DEF Handle, Next
<1>3. ASSUME NEW c \in Calls, Put(c) \/ Create(c) PROVE CaptureEnds(c) \/ UNCHANGED vars
  <2>1. /\ capture[c] = "running"
        /\ capture' = [capture EXCEPT ![c] = IF putPc'[c] = "ended" THEN "ended" ELSE "running"]
        /\ UNCHANGED <<clock, entries, order, pc, request, since, route, answer, queryStore>>
    BY <1>3 DEF Put, Create, PutStep
  <2>2. CASE putPc'[c] = "ended"
    BY <2>1, <2>2 DEF CaptureEnds
  <2>3. CASE putPc'[c] # "ended"
    BY <2>1, <2>3 DEF RouteInv, HandlerTypeOK, vars, callVars
  <2> QED BY <2>2, <2>3
<1>4. Replace => Next
  BY DEF Replace, Next
<1>5. TimePasses => Next
  BY DEF TimePasses, Next
<1>6. UNCHANGED capturingVars => UNCHANGED vars
  BY DEF capturingVars, vars
<1> QED BY <1>1, <1>2, <1>3, <1>4, <1>5, <1>6 DEF CapturingNext, Next

LEMMA CapturingInitInv == CapturingInit => CapturingInv
<1> SUFFICES ASSUME CapturingInit PROVE CapturingInv
  OBVIOUS
<1>1. RouteInv
  BY RouteInitInv DEF CapturingInit
<1>2. /\ once = "fresh" /\ inits = 0 /\ client = "none" /\ bucket = {} /\ logged = {}
      /\ \A c \in Calls : putPc[c] = "unborn" /\ capture[c] = "none"
  BY DEF CapturingInit, Store!Init, Init
<1>3. Store!TypeOK
  BY CacheAssumption DEF CapturingInit, Store!Init, Store!TypeOK
<1> QED BY <1>1, <1>2, <1>3 DEF CapturingInv, StoreInv, OnceOK, UploadsOK, Accounted, Creators,
        EndedTogether, Store!Uploads

LEMMA CapturingNextInv == CapturingInv /\ [CapturingNext]_capturingVars => CapturingInv'
<1> SUFFICES ASSUME CapturingInv, [CapturingNext]_capturingVars PROVE CapturingInv'
  OBVIOUS
<1>1. RouteInv'
  BY StepImplementsRouteService, RouteNextInv DEF CapturingInv
<1>2. clock' \in 0..MaxClock
  <2>1. clock' \in Nat /\ clock' <= MaxClock
    BY <1>1 DEF RouteInv, CacheInv, CacheProofs!CacheInv, CacheProofs!CacheTypeOK
  <2> QED BY <2>1, CacheAssumption
<1>3. ASSUME NEW c \in Calls, Arrive(c) \/ Handle(c) PROVE StoreInv' /\ EndedTogether'
  <2>1. StoreInv' /\ putPc' = putPc
    BY <1>2, <1>3, StoreUnchanged DEF CapturingInv, Arrive, Handle, putVars
  <2>2. \A d \in Calls : capture'[d] = "ended" => capture[d] = "ended"
    BY <1>3 DEF CapturingInv, RouteInv, HandlerTypeOK, Arrive, Handle, Receive, ReceiveOther, Step,
       ServeCached, Miss, RouteArrives, RouteFails, TracesEnd, Compute, Write, MarshalFails
  <2> QED BY <2>1, <2>2 DEF CapturingInv, EndedTogether
<1>4. ASSUME NEW c \in Calls, Put(c) \/ Create(c) PROVE StoreInv' /\ EndedTogether'
  <2>1. StoreInv'
    BY <1>4, PutStepKeepsStore
  <2>2. \A d \in Calls \ {c} : putPc'[d] = putPc[d]
    BY <1>4 DEF CapturingInv, StoreInv, Store!TypeOK, Put, Create, PutStep, Store!Start,
       Store!MarshalFails, Store!Step, Store!Create, Store!EnterOnce, Store!GotClient,
       Store!GotError, Store!Written, Store!WriteFails, Store!Closed, Store!CloseFails,
       Store!ClientCreated, Store!Swallow, Store!Goto
  <2>3. capture' = [capture EXCEPT ![c] = IF putPc'[c] = "ended" THEN "ended" ELSE "running"]
    BY <1>4 DEF Put, Create, PutStep
  <2> QED BY <2>1, <2>2, <2>3 DEF CapturingInv, RouteInv, HandlerTypeOK, EndedTogether
<1>5. CASE Replace
  <2>1. StoreInv'
    BY <1>5, StoreRestartKeepsInv, CacheAssumption DEF CapturingInv, Replace
  <2>2. \A c \in Calls : /\ capture'[c] = "ended" => capture[c] = "ended"
                         /\ putPc[c] = "ended" => putPc'[c] = "ended"
    BY <1>5 DEF Replace, Restart, Store!Restart
  <2>3. EndedTogether'
    BY <2>2 DEF CapturingInv, EndedTogether
  <2> QED BY <1>1, <2>1, <2>3 DEF CapturingInv
<1>6. CASE TimePasses \/ UNCHANGED capturingVars
  <2>1. UNCHANGED putVars /\ UNCHANGED capture
    BY <1>6 DEF TimePasses, Tick, callVars, Store!Tick, putVars, capturingVars, vars
  <2>2. StoreInv'
    BY <1>2, <2>1, StoreUnchanged DEF CapturingInv
  <2> QED BY <1>1, <2>1, <2>2 DEF CapturingInv, EndedTogether, putVars
<1> QED BY <1>1, <1>3, <1>4, <1>5, <1>6 DEF CapturingNext, CapturingInv

LEMMA CapturingInvariant == CapturingSpec => []CapturingInv
BY CapturingInitInv, CapturingNextInv, PTL DEF CapturingSpec

(***************************************************************************)
(* Theorem: all variables of handlers and captures keep their types.       *)
(***************************************************************************)
THEOREM CapturingTypeCorrect == CapturingSpec => []CapturingTypeOK
<1>1. CapturingInv => CapturingTypeOK
  BY CacheInvFacts DEF CapturingInv, StoreInv, CapturingTypeOK, RouteInv, HandlerTypeOK,
     AnswerTypeOK, Requests, TypeOK
<1> QED BY <1>1, CapturingInvariant, PTL

\* Every behaviour of the composition is one of RouteService: its actions are
\* made that way.  What is proved of the handlers alone so holds here.
LEMMA CapturingIsRouteService == CapturingSpec => Spec
<1>1. CapturingInit => Init
  BY DEF CapturingInit
<1>2. CapturingInv /\ [CapturingNext]_capturingVars => [Next]_vars
  BY StepImplementsRouteService DEF CapturingInv
<1> QED BY <1>1, <1>2, CapturingInvariant, PTL DEF CapturingSpec, Spec

(***************************************************************************)
(* Theorem: the handlers keep their promises while their captures race for *)
(* a client, fail, hang and die with their instance.                       *)
(***************************************************************************)
THEOREM CapturingKeepsThePromises ==
    CapturingSpec => /\ []HitRepeatsAnswer
                     /\ []CapturesComputedRoutes
                     /\ ImplementsAnswerService
BY CapturingIsRouteService, HitsRepeatAnswers, ComputedRoutesAreCaptured,
   RouteImplementsAnswerService, PTL

(***************************************************************************)
(* Theorem: an instance creates one storage client, and no capture uses it *)
(* before it is there.                                                     *)
(***************************************************************************)
THEOREM OneClientPerInstance == CapturingSpec => []ClientIsShared
<1>1. CapturingInv => ClientIsShared
  <2> SUFFICES ASSUME CapturingInv PROVE ClientIsShared
    OBVIOUS
  <2>1. OnceOK /\ UploadsOK /\ once \in {"fresh", "running", "done"}
    BY DEF CapturingInv, StoreInv, Store!TypeOK
  <2>2. Cardinality({}) = 0 /\ \A p \in Calls : Cardinality({p}) = 1
    BY FS_EmptySet, FS_Singleton
  <2>3. inits = Cardinality(Creators) + (IF once = "done" THEN 1 ELSE 0)
    BY <2>1, <2>2 DEF OnceOK
  <2>4. \A p \in Calls : putPc[p] \in Store!Uploads => client = "ready" /\ once = "done"
    BY <2>1 DEF UploadsOK
  <2>5. \A S : Store!Cardinality(S) = Cardinality(S)
    BY DEF Store!Cardinality, Cardinality
  <2> QED BY <2>3, <2>4, <2>5 DEF ClientIsShared, Store!ClientIsShared, Creators
<1> QED BY <1>1, CapturingInvariant, PTL

(***************************************************************************)
(* Theorem: a capture that ended wrote its record or logged its loss.      *)
(***************************************************************************)
THEOREM LossesAreLogged == CapturingSpec => []NoSilentLoss
<1>1. CapturingInv => NoSilentLoss
  BY DEF CapturingInv, StoreInv, Accounted, EndedTogether, NoSilentLoss
<1> QED BY <1>1, CapturingInvariant, PTL

(***************************************************************************)
(* Theorem: an instance that failed to create its client never captures.   *)
(***************************************************************************)
LEMMA FailedStaysFailed ==
    ASSUME CapturingInv, [CapturingNext]_capturingVars,
           once = "done", client = "failed", once' # "fresh"
    PROVE  client' = "failed" /\ inits' = inits /\ bucket' = bucket
<1>1. \A p \in Calls : putPc[p] # "creating" /\ putPc[p] \notin Store!Uploads
  BY DEF CapturingInv, StoreInv, OnceOK, UploadsOK, Creators
<1>2. ASSUME NEW c \in Calls, Put(c) \/ Create(c)
      PROVE  client' = "failed" /\ inits' = inits /\ bucket' = bucket
  BY <1>1, <1>2 DEF Put, Create, PutStep, Store!Start, Store!MarshalFails, Store!Step,
     Store!Create, Store!EnterOnce, Store!GotClient, Store!GotError, Store!Written,
     Store!WriteFails, Store!Closed, Store!CloseFails, Store!ClientCreated, Store!Uploads
<1>3. ASSUME UNCHANGED putVars PROVE client' = "failed" /\ inits' = inits /\ bucket' = bucket
  BY <1>3 DEF putVars
<1>4. ~Replace
  BY DEF Replace, Store!Restart
<1>5. TimePasses => UNCHANGED putVars
  BY DEF TimePasses, Store!Tick, putVars
<1> QED BY <1>2, <1>3, <1>4, <1>5 DEF CapturingNext, Arrive, Handle, capturingVars

THEOREM FailureSticks == CapturingSpec => FailureIsSticky
<1>1. CapturingInv /\ [CapturingNext]_capturingVars =>
          [once = "done" /\ client = "failed" /\ once' # "fresh" =>
               client' = "failed" /\ inits' = inits /\ bucket' = bucket]_(Store!vars)
  BY FailedStaysFailed
<1> QED BY <1>1, CapturingInvariant, PTL
        DEF CapturingSpec, FailureIsSticky, Store!FailureIsSticky

=============================================================================
