SPECIFICATION FairSpec
CONSTANTS
    ship1 = ship1
    ship2 = ship2
    fleet_admiral = fleet_admiral
    NoCaller = NoCaller
    Callers = {ship1, ship2, fleet_admiral}
    MaxEntries = 6
    MaxPerCall = 3
INVARIANTS TypeOK ArchivedInOrder
PROPERTIES CallsAreAtomic EveryCallReturns
