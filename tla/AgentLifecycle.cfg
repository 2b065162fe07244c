SPECIFICATION FairSpec
CONSTANTS
    LastReset = 3
    MaxCrashes = 2
    MaxFailures = 2
    MaxSignals = 1
    GateFirst = {2}
CHECK_DEADLOCK FALSE
INVARIANTS TokenIsKept DataOfOneReset SchemaIsPrepared OneFleet
PROPERTIES StartsRunTheFleets
