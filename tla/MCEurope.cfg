SPECIFICATION LookupSpec
CONSTANTS
    Maps <- MapOfEurope
    Places <- MCPlaces
INVARIANT SmallerNeighbourWins
CHECK_DEADLOCK FALSE
