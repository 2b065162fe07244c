SPECIFICATION Spec
CONSTANTS
    f1 = f1
    f2 = f2
    s1 = s1
    s2 = s2
    t1 = t1
    t2 = t2
    Fleets = {f1, f2}
    Ships = {s1, s2}
    TicketIds = {t1, t2}
    InitialFleet <- MCInitialFleet
    Spawning = {f2}
    StartingCredits = 2
    MaxCredits = 2
    MaxCapital = 4
    Budgets = {2}
    Reserves = {1}
    Prices = {1, 2}
    Quantities = {1}
    FuelCosts = {}
    Rewards = {}
INVARIANTS TypeOK TicketInFlightIsActive
PROPERTIES BooksBalance ReservationsFollowTickets
CHECK_DEADLOCK FALSE
