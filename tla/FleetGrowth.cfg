SPECIFICATION Spec
CONSTANTS
    C = C
    P1 = P1
    P2 = P2
    H1 = H1
    H2 = H2
    H3 = H3
    H4 = H4
    D1 = D1
    D2 = D2
    S1 = S1
    Ships <- MCShips
    ShipTypeOf <- MCShipTypeOf
    InitialShips <- MCOwned
    NoFleet = NoFleet
    MaxUnderway = 2
    NumShipyards = 1
    NumMarkets = 1
SYMMETRY MCSymmetry
CHECK_DEADLOCK FALSE
INVARIANTS DemandIsWhatTheShipsLack OnlyHaulersAreLeftOut
