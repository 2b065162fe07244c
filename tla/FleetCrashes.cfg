SPECIFICATION Spec
CONSTANTS
    C = C
    P = P
    D = D
    Ships = {C}
    ShipTypeOf <- MCShipTypeOf
    InitialShips = {C}
    NoFleet = NoFleet
    NumShipyards = 1
    NumMarkets = 0
    Stopped = FALSE
    Capacity = 1
    MaxFibers = 1
    MaxErrors = 0
    MaxCrashes = 1
    MaxFailures = 1
CHECK_DEADLOCK FALSE
INVARIANTS SettledAdmiralIsStored WritesAreAccepted
