SPECIFICATION ShapeSpec
CONSTANTS
    Maps <- MCMaps
    Lines <- MCLines
    Places = {}
INVARIANTS
    RoundTrip
    FindsTheCountry
