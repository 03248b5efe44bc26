SPECIFICATION Spec
CONSTANTS
    Regions <- MCRegions
    Countries <- MCCountries
    Iso <- MCIso
    Rate <- MCRate
    Lengths = {0, 1}
    BridgeGap = 2
    MaxManeuvers = 4
    MaxLegs = 2
INVARIANT FractionAtMostOne
