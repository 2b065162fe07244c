SPECIFICATION FairSpec
CONSTANTS
    C = C
    P = P
    D = D
    Ships = {C}
    ShipTypeOf <- MCShipTypeOf
    InitialShips = {C}
    NoFleet = NoFleet
    NumShipyards = 1
    NumMarkets = 0
    Stopped = TRUE
    Capacity = 1
    MaxFibers = 1
    MaxErrors = 2
    MaxCrashes = 0
    MaxFailures = 0
CHECK_DEADLOCK FALSE
PROPERTIES TaskedShipsRun
