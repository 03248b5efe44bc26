SPECIFICATION Spec
CONSTANTS
    N = 3
    Slots = 2
    MaxPoints = 3
INVARIANTS
    TypeOK
    BoundedTraces
    WaitGroupCounts
    NoReaderLeft
PROPERTY ImplementsEnrichedLeg
