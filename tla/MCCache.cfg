SPECIFICATION Spec
CONSTANTS
    Keys = {k1, k2, k3, k4}
    Bodies = {b1, b2}
    MaxSize = 2
    TTL = 1
    MaxClock = 3
SYMMETRY Interchangeable
INVARIANTS
    HistoryTypeOK
    Coherent
    Agrees
    RecencyOrder
    RetainsRecent
PROPERTY ImplementsStore
