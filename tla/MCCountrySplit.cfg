SPECIFICATION Spec
CONSTANTS
    Countries = {"NL", "BE"}
    LastPoint = 5
    Hop <- MCHop
    Lengths = {840, 1680}
    Times = {2520}
    LongLength = 1680
    MaxManeuvers = 3
INVARIANTS
    TilesTheLeg
    NoCountryLost
    ChargesTheOwner
    InheritsTheNeighbour
