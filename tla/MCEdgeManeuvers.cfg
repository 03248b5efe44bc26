SPECIFICATION Spec
CONSTANTS
    Hops = {0, 1, 3}
    MaxMeters = 2
    MaxPoints = 4
    FullLengths = {0, 2}
    Speeds = {0, 2}
    SpeedUnit = 2
    Durations = {7}
    MaxEdges = 3
INVARIANTS
    CoversTheLeg
    CutsAtTheLimit
    TimesAddUp
    LengthsAreDriven
CHECK_DEADLOCK FALSE
