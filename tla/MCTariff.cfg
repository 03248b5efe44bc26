SPECIFICATION TariffSpec
CONSTANTS
    Tables <- MCTables
    Regions = {"NL", "BE-VLG", "BE-WAL", "DE", "CH", "FR", "CZ", "PL", "RO", "SK"}
    Weights = {7, 23, 24, 36, 64}
    EuroClasses = {"EURO_0", "EURO_VI"}
    CO2Classes = {1, 2, 3, 4, 5}
    Vehicles <- MCVehicles
    Streets <- MCStreets
    MaxRegions = 2
INVARIANTS
    ChargesTheBracket
    HeavierPaysNoLess
    OneRoadHoweverSpelled
    ListedRoadsAreTolled
