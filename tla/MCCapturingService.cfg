SPECIFICATION FairCapturingSpec
CONSTANTS
    Calls = {c1, c2}
    Endpoints = {"route", "toll", "co2"}
    Payloads = {plain, still, bad}
    Valid = {plain, still}
    Standstill = {still}
    MaxSize = 2
    TTL = 0
    RequestTimeout = 1
    PutTimeout = 1
    StoreQueries = {TRUE, FALSE}
    MaxClock = 1
INVARIANTS
    CapturingTypeOK
    CapturesComputedRoutes
    ClientIsShared
    NoSilentLoss
PROPERTIES
    ImplementsAnswerService
    EveryCallEnds
    FailureIsSticky
    PutsEnd
CHECK_DEADLOCK FALSE
