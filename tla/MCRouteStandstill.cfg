SPECIFICATION Spec
CONSTANTS
    Calls = {c1, c2}
    Endpoints = {"route"}
    Payloads = {plain, still}
    Valid = {plain, still}
    Standstill = {still}
    MaxSize = 1
    TTL = 1
    RequestTimeout = 2
    StoreQueries = {TRUE}
    MaxClock = 2
INVARIANT ComputedRouteIsServed
CHECK_DEADLOCK FALSE
