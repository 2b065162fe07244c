SPECIFICATION Spec
CONSTANTS
    f1 = f1
    s1 = s1
    t1 = t1
    t2 = t2
    f2 = f2
    s2 = s2
    Fleets = {f1}
    Ships = {s1}
    TicketIds = {t1, t2}
    InitialFleet <- MCOneShip
    Spawning = {}
    StartingCredits = 3
    MaxCredits = 3
    MaxCapital = 1
    Budgets = {1, 2}
    Reserves = {1}
    Prices = {1, 2}
    Quantities = {1}
    FuelCosts = {1}
    Rewards = {1}
INVARIANTS TreasuryNeverOverdrawn ReconciledAtStart
CHECK_DEADLOCK FALSE
