SPECIFICATION Spec
CONSTANTS
    C = C
    P = P
    D = D
    Ships = {C, P, D}
    ShipTypeOf <- MCShipTypeOf
    InitialShips = {C, P}
    NoFleet = NoFleet
    NumShipyards = 1
    NumMarkets = 0
    Stopped = FALSE
    Capacity = 1
    MaxFibers = 0
    MaxErrors = 0
    MaxCrashes = 0
    MaxFailures = 0
CHECK_DEADLOCK FALSE
INVARIANTS TypeOK FleetsFollowThePhase BoughtShipsAreKnown
