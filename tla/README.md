# A TLA+ model of the routing and toll service

The repository is a Go service (one Cloud Function) that answers three POST
endpoints. It asks a Valhalla routing engine for a route, refines it with
edge-level traces, computes distance-based road tolls and CO2, caches the
marshalled response in memory, and captures computed queries in a bucket for a
daily benchmark. This directory holds TLA+ modules that model it, TLC
configurations that check them on small instances, and TLAPS proofs of all their
invariants, action properties and refinements (the safety part) for instances of
any size. Paths below are relative to the repository; `valhalla.go`,
`toll.go` and `countries.go` are in `internal/service/`, `cache.go`, `route.go`
and `querystore.go` in `internal/handler/`.

## 1. Inventory

| Component | State it keeps | Operations | What makes it correct |
|---|---|---|---|
| Response cache (`cache.go`) | map key -> list element, recency list, under one mutex | `Get`, `Set`; expiry and eviction inside them | map and list agree; a hit is the last response stored, alive; the least recently used entry goes first |
| Request handlers (`route.go`) | locals of one goroutine per request | validate, look up, fetch, compute, capture, marshal, store, answer | an answer is about its own request, not older than the TTL plus the longest request; exactly the computed routes are captured; every request is answered |
| Entry point (`function.go`, `cmd/local`) | the handler, created once per instance | dispatch, CORS, health | a new instance starts with an empty cache |
| Query capture (`querystore.go`) | storage client under a `sync.Once` | `Put` in a goroutine of its own | never holds a request back; no record lost without a log line |
| Valhalla client, route call (`valhalla.go`) | none | `GetRoute`, `parseResponse`, request building, ID token | failure is reported, and nothing is cached |
| Valhalla client, enrichment | `traces`, a semaphore, a `WaitGroup` per leg | chunk, trace concurrently, stitch, replace | all or nothing, in order of the chunks, never a deadlock |
| Country assignment | none | split maneuvers at borders, fill gaps | parts tile the leg and share its length and time; no stretch loses its country |
| Country polygons (`countries.go`) | tables | ray casting, priority order, Belgian regions | points are found in the polygon they lie in, of overlapping ones in the smaller |
| Polyline codec | none | encode, decode | inverse of each other |
| Toll walk (`toll.go`) | open segment, pending gap, accumulators | walk the maneuvers, flush, roll up | segments are the tolled stretches; sums agree |
| Toll rates (`toll.go`, `toll_rates.json`) | table, a memo per route | bracket lookup | one rate per region, of the right bracket |
| Toll road matching (`toll_roads*.go`, `internal/data`) | lists of roads | regular expressions over street names | a listed road is recognised in every spelling that is known for it |
| CO2 (`co2.go`) | tables | a product | (arithmetic) |
| Benchmark (`scripts/`, `benchmark/`) | objects in the bucket | sample, replay, compare, report | one failing query does not spoil the run |
| Deployment (`*.yaml`, `scripts/*.sh`) | tiles, instances | build, provision, weekly tile rebuild | (infrastructure) |

**Interactions.** `net/http` runs one goroutine per request, so handlers share
the cache (mutex) and the query store (`sync.Once`). A handler calls Valhalla
once for the route, then starts one goroutine per chunk of the leg for the
traces and waits for all of them. `ServeHTTP` leaves a `queryStore.Put`
goroutine behind. The cloud platform replaces instances at any time. The
benchmark reads the bucket and calls the service again. Within a request data
flows one way: shape of the leg -> points (codec) -> countries (polygons) ->
maneuvers split by country -> toll roads and rates -> segments.

**Hard behaviours.** Handlers interleave between their cache miss and their
`Set`. The clock moves while they wait for Valhalla. An instance dies with
requests under way. Traces complete in any order and fail one by one. The first
creation of the storage client is raced for, and its failure sticks. In the toll
walk a gap is pending behind an open segment and has to be dropped or bridged on
each of several ways a segment ends. Country lookups have holes between the
simplified polygons, and overlaps. Road signs are spelled in several ways, and
every country has a pattern of its own for them. `PROJECT.json` lists each hazard at its line.

## 2. Modules

| Module | Models | State and actions |
|---|---|---|
| `ResponseCache` | `cache.go` | `entries`, `order`, `clock`; `Get` = `GetAbsent`, `GetExpired`, `GetHit`; `Set` = `SetExisting`, `SetNew` |
| `ExpiringStore` | the promise of the cache (abstract) | the last response stored under each key and the last reply |
| `CacheHistory` | `ResponseCache` with observers | `latest` (last stored), `crowd` (keys used since), `reply`; implements `ExpiringStore` |
| `RouteService` | `route.go`, `GetRoute`, dispatch | per call a program counter `lookup -> fetch -> trace -> compute -> write -> answered`; `Cache` is an instance of `ResponseCache` |
| `AnswerService` | the promise to a client (abstract) | request, answer, clock |
| `EdgeEnrichment` | `enrichLeg`, `traceChunk` | handler, one goroutine per chunk, semaphore, wait-group counter, stitching |
| `EnrichedLeg` | the promise of `enrichLeg` (abstract) | replies, and the leg they determine, point by point |
| `TraceChunks` | `splitPointsByDistance` | its loop: `Cut`, `Continue`, `Rest` |
| `EdgeManeuvers` | `buildEdgeManeuvers`, over the ranges of `TraceChunks` | after the loop the traces yield edges one by one (`AddEdge`), then `Build` |
| `CountrySplit` | `splitManeuverByCountry`, `fillManeuverCountries` | split one maneuver per step, apportioning its length and time, then fill |
| `GeoCountry` | `countryFromCoord`, `pointInPolygon` | one side of a polygon per step (`TestSide`), then `Inside` or `Outside` |
| `Polyline` | `encodePolyline`, `decodePolyline` | the decoder, one byte per step: `ReadGroup`, `ReadLast` |
| `ShapeCountries` | `parseResponse`: `Polyline` and `GeoCountry` together | decode the shape, then look up point after point |
| `Europe` | the table `countryPolygons` | none: the map that `GeoCountry` is run on |
| `TollWalk` | the walk of `TollCalculator.Calculate` | one maneuver per step; `Free`, `Gap`, `Begin`, `Extend`, `EndLeg` |
| `RateTable` | `rateFor`, bracket lookups, `loadRates` | the memo of one route |
| `TollRoads` | `IsTollRoad`, `IsNLTollRoad`, the matchers, the lists of `internal/data` | none: operators over the signs and words of a street |
| `Tariff` | the charge of a maneuver: `TollRoads` and `RateTable` together | the maneuver at hand; `ChargeNothing`, `ChargeToll`, `Walk` (the rest of the loop, which is `TollWalk`) |
| `QueryStore` | `Put`, `clientOnce` | one program counter per `Put`, the `sync.Once`, the bucket |
| `CapturingService` | `RouteService` and `QueryStore` together | the handlers' actions, the steps of the `Put` of each call, replacement of the instance |
| `<Module>Proofs` | proofs about `<Module>`, see section 4 (`CacheHistoryProofs` also about `ResponseCache`, `TariffProofs` about `RateTable` and `TollRoads`; `ServiceProofs` about `RouteService` and `CapturingService`; `CountryProofs` about `CountrySplit`, `Polyline` and `ShapeCountries`) | the inductive invariant, one lemma per action |
| `Sums` | lemmas about sums over finite sets, for those proofs | |
| `MC*` | symmetry sets and input data for TLC | |

Composition: `RouteService` instantiates `ResponseCache` over pairs (endpoint,
body); whether a deployment captures queries (`STORE_QUERIES`, `function.go:29`)
is fixed when it begins (`queryStore`). It abstracts `EdgeEnrichment` to "enriched or not after a bounded wait",
which that module establishes of itself, and a capture to "ends or never ends".
`CapturingService` puts `QueryStore` in the place of the latter: a capture that a
handler starts is a `Put` goroutine, both live on the same clock and die with the
same instance. Its steps are those of `RouteService` by construction, so what is
proved of the handlers alone carries over; what the composition adds is the race
for the client and the loss of captures. `ShapeCountries`
feeds the points decoded by `Polyline` to `GeoCountry`. `Tariff` asks `TollRoads`
whether a maneuver is charged and `RateTable` how much; `TollWalk` takes the
answers as constants. `EdgeManeuvers` extends `TraceChunks`: the leg is first
cut into ranges, then each range is traced, and no edge reaches over a seam.

Operators with an underscore in their name and a comment beginning "Mistake:"
(such as `GetHit_NoMove`) are no part of the specification. Each is a plausible
slip in the operator it stands before, and shows which property would notice it;
`PROJECT.json` lists them under `mutants`.

**Abstractions.** A response is a record of what it answers and when its route
was read. Hashes are taken as injective. What a handler computes by itself takes
no time, only waiting for Valhalla does. `sync.Mutex` sections are one action.
A route has one leg in practice, because waypoints are sent as `through`
(`valhalla.go:430`); `TollWalk` still walks several. Floating-point rounding is
left out everywhere, and rates and lengths are integers in the models. Rates are
ten-thousandths of a euro, the precision of the file. In `CountrySplit` lengths
and times are counted in units so small that every share is a whole number
(`UnitAssumption`); the clamping of indices (`valhalla.go:601-608`) is left out
there, because the maneuvers carry the engine's own indices into its own shape,
while in `EdgeManeuvers`, where the edges are matched against another shape, an
index may lie outside it. In `TollWalk` durations are left out: they are added up
beside the lengths, with the difference that the time of a free maneuver of length
zero is bridged only with a gap that has a length, else it is lost
(`toll.go:223`). A request without a vehicle has nothing to walk for.
`QueryStore.Put` returns silently without a store, a bucket or a request
(`querystore.go:66-68`): the handler calls it with all three, since `envOr` never
yields an empty bucket.
In `TollRoads` a street name is the set of its signs, each a record of letters,
gap (none, a space or a stroke), number and suffix, and of the listed words it
contains: the regular expressions are guards on those fields. Words outside ASCII are transliterated.
`GeoCountry` works on polygons with any number of corners; `ShapeCountries` gives
it the simplest maps with a border, two triangles on both sides of a common side
(`TriangleAssumption`), and `Europe` the twenty polygons of the table.
`GeoCountry` multiplies the comparison with the crossing out instead of dividing.
In `Europe` coordinates are hundredths of a degree, the precision of the table.
`EdgeEnrichment` numbers the points of a trace and gives it one edge between each
two of them, so that an offset wrong by one misplaces something visible.

## 3. Runs

All are run with `tlc -config <cfg> <module>`.

| Run | Configuration | Instance | Distinct states | Shows |
|---|---|---|---|---|
| cache | `MCCache` | 4 keys, 2 bodies, size 2, TTL 1, clock to 3 | 8,594 | coherence, freshness, exact LRU order, retention, refinement of `ExpiringStore` |
| route | `MCRouteService` | 3 calls, `/route` and `/toll`, one body of a zero-length route, size 1, TTL 1, timeout 1, clock to 3 | 173,279 | racing misses and overwrites, expiry, timeouts, responses that cannot be marshalled, restart; refinement of `AnswerService` |
| service | `MCCapturingService` on `CapturingService` | 2 calls, 3 endpoints, 3 bodies, TTL 0, timeouts 1, clock to 1, with and without capture | 222,449 | endpoints kept apart, rejected and unmarshallable requests, only computed routes captured; captures share a client, lose nothing in silence; refinement of `AnswerService`; requests and captures end |
| enrichment | `MCEdgeEnrichment` | 3 chunks, 2 places, traces of 0 to 3 points, also a leg too short to trace | 5,579 | refinement of `EnrichedLeg`, which includes that the handler returns |
| edge_maneuvers | `MCEdgeManeuvers` | up to 4 points, hops 0, 1, 3, limit 2, 3 edges with and without length and speed, indices from one before the shape to one behind it | 272,880 | chunks cover the leg and are cut at the limit; times and lengths add up |
| countries | `MCCountrySplit` | 6 points, two of them one place, 2 countries and unknown, 3 maneuvers of 2 lengths | 158,679 | tiling, lengths and times shared out, no country lost, every hop charged to its owner |
| shape | `MCShapeCountries` | all convex quadrilaterals of a 3x3 grid cut into two countries, lines of 0 or 2 points | 346,032 | decoding inverts encoding; ray casting agrees with half planes, no point of a shared border lost |
| toll | `MCTollWalk` | 4 maneuvers, 2 legs, 3 regions of 2 countries | 285,609 | segments equal their declarative definition; sums agree |
| tariff | `MCTariff` | figures of the rate file for 10 regions, the defaults and a table with holes, 5 weights, 8 vehicles, all roads of 6 regions' lists in all spellings, 2 regions with a rate per route | 604,704 | right bracket in any order, fallbacks included; monotone in weight where the table is complete; listed roads are charged, others not, in whichever known spelling |
| standstill | `MCRouteStandstill` | 2 calls, `/route` only, one body of a zero-length route | stops at the violation | a comment the code does not keep, see section 6 |
| toll_fraction | `MCTollFraction` | as `MCTollWalk` | stops at the violation | a comment the code does not keep, see section 6 |
| europe | `MCEurope` | the 20 polygons of `countries.go`, 91 places in and around Slovenia | stops at the violation | a comment the code does not keep, see section 6 |

**Why the bounds suffice.** The cache evicts with three keys and reorders with
four; every case of expiry occurs with TTL 1, including the instant of expiry.
Three calls are needed for a hit on a response that itself overwrote another;
with TTL 1 and a timeout of 1, clock 3 lets an entry be stored late, expire and be
asked for again. In the run `route` only the response of `/toll` can be marshalled,
so one key is ever stored: it is expired and overwritten there and never evicted.
Eviction is the subject of the run `cache`, and of `CacheCorrect` to
`RouteImplementsAnswerService` for any number of keys. Two places
for three goroutines make one wait. Four maneuvers with a limit of 2 give gaps
that are bridged, that reach the limit exactly or in two steps, and that lie in
another country. Six points give a maneuver with a gap before, between and
after known points, and a border beside a hop of length zero. In `EdgeManeuvers` hops of 1 and 3 under a limit of 2 meet it
exactly, in two steps, or exceed it in one, and the last range ends at or before
the last point. In `MCTariff` the weights lie just below and at the bounds of
brackets and in the last one; 7 half tonnes is too light in Germany. The third
table, `MCPartial`, lacks what a rate file may lack: a class in the first, in the
last and in every bracket, the weights between two brackets, below the first and
above the last, all brackets, the flat rates of a class; it also has a flat rate of
zero and a negative rate. Two rates per
route are enough to confuse two regions of one country; the regions cover each
matcher but the one for bridge names. The A20 is met in France, see section 6. In `MCShapeCountries` the differences take
one to three groups of either sign, one group being at its limit (-16 and 16), and
the places are level with corners, sides and neither. Two calls in
`CapturingService` race for the client, and a third would add nothing to
`sync.Once`; with TTL 0 and a clock of two instants entries are served at the
instant they are stored and expire at the next, the longer histories of the
cache being the run route. The hops of `CountrySplit` are 1, 2, 0, 4 and 8, so a distance tells which hops it is
made of; the engine's lengths are multiples of all such distances, and one of them
reaches the length from which a maneuver is looked into.

**Bounds of the models.** `MaxClock` (time), `MaxManeuvers`, `MaxLegs`,
`MaxPoints`, `LastPoint`, `MaxEdges`, `MaxRegions` (inputs). `CHECK_DEADLOCK FALSE` is set
where calls run out or the clock has reached its bound (`RouteService`,
`CapturingService`), where the lookup is over (`MCEurope`), and where the edges have run out before every range has one
(`EdgeManeuvers`).

**Fairness.** `RouteService`: weak fairness of each handler's steps; the Go
scheduler runs runnable goroutines, and every wait of a handler ends. Each call of
Valhalla has the client's timeout of 60 seconds (`valhalla.go:27`), but the call
for an ID token before it (`fetchIDToken`, `valhalla.go:42`, called at 99 and 287)
goes through `http.DefaultClient`, which has none, and with more than eight chunks
the traces wait for each other in waves. What bounds all of these together is the
platform: it is deployed with `--timeout=120s` (`cloudbuild.yaml:27`), after which
it gives the request up and its context, which each of these calls carries, is cancelled.
`RequestTimeout` is that bound, and the age promised by `AnswerService` is `TTL`
plus `RequestTimeout`. Nothing is assumed of captures, clients or restarts. `EdgeEnrichment`: weak fairness of the handler and of each
goroutine, on the same grounds. The semaphore needs no strong fairness because
each goroutine takes a place once. `CapturingService`: weak fairness of each
handler's steps and of each `Put`, whose upload has a timeout of ten seconds.
Nothing is assumed of `storage.NewClient`, which no timeout in the code covers:
`PutsEnd` says that a capture ends unless some `NewClient` never returns, and
`EveryCallEnds` that requests end even then. The safety runs state no fairness.

## 4. Proofs

TLC checks the properties of section 3 on small instances; the theorems below
state them for every value of the constants, so for any number of requests,
chunks, points, maneuvers and legs, for streets with any signs and every rate
table whose brackets are in order. Each stands at the end of its module, or
of its part of it; above it are the inductive invariant and a lemma per action.

| Theorem | Says | Module |
|---|---|---|
| `CacheCorrect`, `HistoryTypeCorrect`, `CacheHoldsTheLatest`, `ListIsByRecency`, `CacheRetainsRecent` | `Coherent`, `HistoryTypeOK`, `Agrees`, `RecencyOrder`, `RetainsRecent` | `CacheHistoryProofs` |
| `CacheImplementsStore` | the cache implements `ExpiringStore` | `CacheHistoryProofs` |
| `RouteTypeCorrect`, `HitsRepeatAnswers`, `ComputedRoutesAreCaptured` | `TypeOK`, `HitRepeatsAnswer`, `CapturesComputedRoutes` | `ServiceProofs` |
| `RouteImplementsAnswerService` | the handlers implement `AnswerService` | `ServiceProofs` |
| `CapturingTypeCorrect`, `OneClientPerInstance`, `LossesAreLogged`, `FailureSticks` | `CapturingTypeOK`, `ClientIsShared`, `NoSilentLoss`, `FailureIsSticky` (an action property) | `ServiceProofs` |
| `CapturingKeepsThePromises` | the composition keeps `HitRepeatsAnswer`, `CapturesComputedRoutes` and `ImplementsAnswerService` | `ServiceProofs` |
| `EnrichmentTypeCorrect`, `TracesAreBounded`, `TheWaitGroupCounts`, `NobodyReadsTheLeg` | `TypeOK`, `BoundedTraces`, `WaitGroupCounts`, `NoReaderLeft` | `EdgeEnrichmentProofs` |
| `EnrichmentIsAllOrNothing` | the goroutines implement `EnrichedLeg`, fairness apart (`ImplementsEnrichedLeg`) | `EdgeEnrichmentProofs` |
| `ChunksCoverTheLeg`, `ChunksEndAtTheLimit`, `TimesAddUpToTheLeg`, `LengthsAreDrivenLengths` | `CoversTheLeg`, `CutsAtTheLimit`, `TimesAddUp`, `LengthsAreDriven` | `EdgeManeuversProofs` |
| `WalkTypeCorrect`, `PendingGapsAreShort`, `TheRollupAddsUp`, `TheWalkFindsTheStretches` | `TypeOK`, `PendingGapIsShort`, `RollupAddsUp`, `FindsTheStretches` | `TollWalkProofs` |
| `ThePartsTileTheLeg`, `HopsAreChargedToTheOwner`, `AllStretchesGetACountry`, `BlanksInherit` | `TilesTheLeg`, `ChargesTheOwner`, `NoCountryLost`, `InheritsTheNeighbour` | `CountryProofs` |
| `DecodingInvertsEncoding` | `RoundTrip`, for coordinates of any size and sign | `CountryProofs` |
| `EveryPointFindsItsCountry` | `FindsTheCountry`, for two neighbouring triangles of any size and shape | `CountryProofs` |
| `TheBracketIsCharged`, `TheHeavierPayNoLess` | `ChargesTheBracket`, `HeavierPaysNoLess` | `TariffProofs` |
| `SpellingMakesNoDifference`, `ListsDecide` | `OneRoadHoweverSpelled`, `ListedRoadsAreTolled` | `TariffProofs` |

They assume the named assumptions on the constants and nothing else. These give
each constant its type, a positive size to the cache, the semaphore, the limit of
a chunk and the gap that closes a segment (all literals in the code), and say of
the tables that every region has a country and a rate (`RegionAssumption`) and
that a speed divides `SpeedUnit` (`SpeedAssumption`, which only picks the unit of
time so that times are whole numbers; `UnitAssumption` does the same for the
shares of lengths and times). `TableAssumption` says of a rate table that
the brackets of a list do not overlap and ascend. `TheBracketIsCharged` needs no
more: it says what is charged also where brackets, weights or classes are missing.
`HeavierPaysNoLess` is false of a table with holes or falling rates, and so speaks
of regions whose table is `Complete` and `Rising`: no line of code ensures
that, it is what `toll_rates.json` looks like, and TLC evaluates it for the figures
of the ten regions and the defaults (`FiguresAssumption` of `MCTariff`).
`StreetAssumption` gives a sign its fields, `LineAssumption` a line its whole
coordinates, `TriangleAssumption` is the shape of the maps above. TLC evaluates
all of them in the runs.

**Cache.** *Coherence* is inductive together with the type invariant
(`CacheInv`): the position of a key on the list is only defined because the list
lists exactly the map's keys without duplicates, and moving a key to the front
keeps the set and the length because it occurs once. *Retention* is not inductive
by itself. When a key is evicted, everything left on the list is in front of it;
that these are keys used after it is `RecencyOrder`, that there are `MaxSize - 1`
of them (besides the key just stored) is coherence with the capacity bound and
the absence of duplicates, and that the entry that goes is the response last
stored is `Agrees`. `HistoryInv` is the conjunction. *Refinement* follows from
`Agrees` and the guards: a hit returns `entries[k].body`, which is
`latest[k].body`, unexpired.

**Handlers.** `RouteInv` says, besides types, what a handler knows at each of its
places (`HandlerOK`, `TimeOK`, `CaptureOK`), and of every cached entry that some
call to the same endpoint with the same body computed it, was answered with it,
and when (`EntryOK`). `HitOK`, the property, needs `EntryOK` at the step that
hits; `EntryOK` survives because an answer given is never taken back
(`OneCallStep`). `CapturesComputedRoutes` needs `CaptureOK` at every place: no capture
before `write`, and one from there on exactly when the endpoint and `queryStore` ask
for it. The ages that `AnswerService` promises come from `TimeOK`: the
platform's timeout bounds the waits, and an entry expires `TTL` after it was stored. What
is proved of the cache for any keys and bodies is used for the instance that the
handlers share (`CacheProofs`).

**Captures.** `OnceOK` says who can be creating the client in each state of the
`sync.Once`, `UploadsOK` that an upload only runs with a client; `StoreInv` adds
the types and that a `Put` which ended is accounted for. The composition's steps are
those of `RouteService` with the capture read off the `Put`, by the way they are
written down, so the lemma `CapturingIsRouteService` is no result about the code; it
only carries the theorems of the handlers over to the composition.

**Enrichment.** The semaphore and the wait group are compared with the sets of
goroutines they count. `NoReaderLeft` follows when the counter reaches zero, but
only because all goroutines were born before the handler waits: `BornInOrder` and
`SpawnsAll` complete the invariant. For the refinement the state of the abstract
leg is read off the replies; the step that matters is the one that replaces the
leg, which must agree with `EnrichedLeg` point by point although the traces are
stitched one after the other. `Stitched` is a recursive function over the chunks:
what it has put together up to a chunk is as long as the points those chunks
reach to, so the offset at which the next trace is added is the place of its
first point.

**Chunks and maneuvers.** `Measured` (the running distance is the length since the
last cut) and `Chained` (each range begins where the last one ended) make `ChunkInv`
inductive; the edges added lie within their ranges and in order (`EdgeInv`). The
sums are then facts about the state in which the maneuvers are built.

**Toll walk.** `RollupAddsUp` needs that the total is changed by the maneuver
walked and the rest by the segment flushed. `FindsTheStretches` relates the walk to
segments defined by the maneuvers alone, and is far from inductive. `FoundInv`
says where the walk stands: the open segment is the last stretch, its gap the
distance since its end, and no tolled maneuver follows (`LastStretch`); with none
open, the last tolled maneuver is of an earlier leg or too far back to be
continued (`ClosedForGood`); what was flushed are the other stretches
(`OthersFlushed`). Each action is then shown to change the declared stretches as it
changes the segments: a free maneuver not at all (`UntolledStep`), a tolled one
by one new place, which begins a stretch or takes over the end of the last.

**Countries.** The loops that fill gaps and find the cuts are recursive functions
in `CountrySplit`; `FillGapsFacts` and `ChangesFacts` say without recursion what
they yield: each gap takes the last code known before it, or else the first known,
and the cuts are exactly where the filled country changes. `SplitFacts` is what
one maneuver is split into. That its parts add up to it (`PartsFacts`) is a
telescoping sum over the cuts, because a share is a fixed multiple of a distance
(`ShareFacts`). `SplitInv` adds two things to the four properties.
`UpToHere`: nothing split so far reaches behind the point where the next maneuver
begins, so that no new part covers a hop of an earlier maneuver. `BlanksToFill`:
before the filling a part has no country exactly when all its points have none, by
which the gaps that are filled are those `InheritsTheNeighbour` speaks of; the
other parts keep the country of their owner.

**Codec.** The decoder reads a byte per step, and `CodecInv` says what is still
ahead of it. The codes of the coordinates lie one after the other, each at a place
that follows from the lengths of those before; within a code, the bytes ahead are
the groups of some number `rest`, and the value read so far plus `unit` times `rest`
is the number encoded. Reading a group divides `rest` by 32 and multiplies `unit`
by 32. At the last group the value is complete, the sign is undone and the
difference is added to the point before, which by the invariant is the point that
was encoded.

**Lookup.** Ray casting tests one side of a polygon per step, so `LookupInv` says
that `inside` is the parity of the sides crossed so far. What has to be shown is
then that for a triangle the parity after three sides is right, and this is an
argument about heights and signed areas. A ray meets a side only if the side's ends
lie on different sides of it, so one corner is apart from the other two and the
ray crosses at most the two sides at that corner: exactly one of them when the
point is within the triangle, both or neither when it is beyond it. A corner
level with the ray counts as below it, for each of the sides that end there. The
border needs an argument of its own (`OneSideOfTheBorder`): a point of it has
signed area zero with the common side, and by the corner opposite the parity is odd
in one of the two triangles, also when the border is level with the ray (`LevelBorder`).
`CountriesAreApart` adds that no point within the second triangle is found in
the first, which is asked before it.

**Tariff.** A weight is in one bracket of an ordered table, and `TariffInv` keeps
the memo equal to the lookup for every region in it, so that what is charged does not depend
on the order or the number of visits. The first bracket that matches is the
only one, and with none the choice is the last, which may have no rate either:
`DueByClass` and `DueByCO2` say this without an order. Monotony is a case per way in
which the rate is found. For the roads, `extractRoadRefs` reads a set of signs one by one and each
matcher asks whether some reference is listed, so one sign decides
(`OneSignDecides`); the theorems are then a case per country, about one sign and
its spelling.

**Sums and induction.** The theorems on induction of the proof library take an
operator as a parameter and cannot be used here. `Sums` obtains what the proofs need from sets
instead: a set of numbers that is not empty has a smallest one (`SmallestNumber`,
from the well-foundedness of the order), so a set of failures of an argument by induction has a
first member. From it come the laws of `SumFunctionOnSet` and thereby of the
lengths and distances.

**Only model-checked**:

- Liveness, which TLAPS cannot reach: `EveryCallEnds`, `PutsEnd` and the fairness
  part of `ImplementsEnrichedLeg`.
- Ray casting over polygons with more than three corners: the step is the same,
  but that the parity of the crossings decides needs an induction over the corners
  of a simple polygon, and no such theory is at hand. The run `europe` evaluates
  the code's own polygons.
- The three violations, which are single behaviours.

`CacheTypeOK` (`ResponseCache`) and the type invariant of `RouteService` have no
run of their own: the first is proved and implied by what `HistoryTypeOK` and
`Coherent` check, the second is a conjunct of `CapturingTypeOK`.

## 5. Not modelled

- Request building and costing options (`valhalla.go:423-540`): a function from
  a request to the engine's JSON that copies fields under conditions. A model of
  it would be the function again, and no other part of the service reads it.
- The ID token: an outgoing call whose failure leaves a header away.
- `belgianRegion`: a table of latitudes and a box that approximate the language
  border. `TestBelgianRegion` (`toll_test.go:281-304`) gives nine places and the
  region each must get; of other places the repository does not say what they must
  be, and a model would be the table again.
- The CO2 arithmetic, a product of table values, apart from the division by a
  length of zero.
- CORS, logging, transaction ids, object names; rounding of the figures.
- The benchmark scripts and the deployment, which run outside the service.

## 6. Where comments and code differ

- `standstill`: a route of length zero with a cargo weight gives 0/0 in
  `co2.go:67`. `json.Marshal` refuses the NaN and the handler answers 500
  (`route.go:109-113`), after the query was captured; `/co2` likewise, `/toll`
  not. That Valhalla answers two equal locations with a route of length zero is
  an assumption about the engine.
- `toll_fraction`: `internal/model/route.go:187` gives the toll fraction the
  range 0..1. A gap bridged into a segment counts as tolled in the segment's
  country but as driven in its own.
- `europe`: `countries.go:11-12` says that small countries are listed first, "so
  they are not swallowed by their larger neighbours". Italy stands before Slovenia
  and their polygons overlap: 45.50 N 13.75 E, inland of Koper, is found in
  Italy, and a truck there pays by the Italian list. Slovakia likewise stands
  behind the Czech Republic, Poland and Hungary.
- Read in the code, and not a run of its own: `internal/model/route.go:167-169`
  starts a segment whenever a non-tolled stretch is passed, while gaps below
  600 m are bridged (`FindsTheStretches` says which).
- Likewise `valhalla.go:309-311` bounds a chunk by `maxMeters`; it ends at the
  first point that reaches it, up to one hop beyond (`CutsAtTheLimit` is the
  exact bound).
- Keys that no reference is ever compared with: the Slovak class I roads
  (`"I/2"` and others, `toll_roads_eu.go:232-234`), because `roadRefPattern` takes
  no stroke and only Czechia has a pattern that does, so they are free; and the
  French branches `"A84b"`, `"A11b"`, `"A26b"`, `"A28b"`, because references are
  put in upper case (`toll_roads.go:69`), so they are charged.
  `ListedRoadsAreTolled` leaves them out (`Unreadable`).
- A Romanian national road signed "DN 1" is not charged, "DN1" is
  (`toll_roads.go:203`), and likewise the Dutch A and N references.
  `OneRoadHoweverSpelled` says that such a sign counts for nothing (`Written`). Spanish signs with a hyphen ("AP-7") match nothing.
- `toll_roads_nl.go:17` counts 31 provincial N-roads, the list has 32;
  `toll_roads_nl.go:64` says all A-roads are charged, the list has 43 of them.
- `toll_roads.go:120` counts the A20 among the free French roads; `FR_FreeAutoroutes`
  does not have it, so it is charged (the run `tariff` has it among its streets).
- `toll_roads_eu.go:29` says that German roads are tolled above 3.5 t; the rate file
  and the defaults start at 7.5 t, so that lighter trucks pay nothing.
- `toll_rates.json` has no entry for Denmark, so the bridges of `DK_TollBridges`
  cost nothing, and no CO2 classes for Germany, which `toll.go:25` mentions.
- `result.Polyline` (`valhalla.go:564`) is the shape of the first leg only.

## 7. Plan

Done: the inventory; the cache, handlers, enrichment, capture and their
composition, toll walk, tariff and toll roads, country assignment, polygons and
the polyline codec, all model-checked; proofs of every invariant and action
property of the passing runs and of the safety part of every refinement.

Next, in this order:

1. `EdgeEnrichment` in the place of its abstraction in `RouteService`, as
   `QueryStore` is in `CapturingService`.
2. `EveryPointFindsItsCountry` for polygons of any number of corners.
3. `belgianRegion`, once the repository says of more than the nine places of its
   test what they must be.
