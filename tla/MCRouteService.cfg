SPECIFICATION Spec
CONSTANTS
    Calls = {c1, c2, c3}
    Endpoints = {"route", "toll"}
    Payloads = {still}
    Valid = {still}
    Standstill = {still}
    MaxSize = 1
    TTL = 1
    RequestTimeout = 1
    StoreQueries = {TRUE}
    MaxClock = 3
SYMMETRY Interchangeable
INVARIANTS
    HitRepeatsAnswer
PROPERTY ImplementsAnswerService
CHECK_DEADLOCK FALSE
