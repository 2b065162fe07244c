SPECIFICATION FairSpec
CONSTANTS
    Goods = {"ore", "junk"}
    Waypoints = {"A", "B", "C"}
    Distance <- MCDistance
    Stations = {"A", "B"}
    Tanks = {0, 7}
    Speed = 1
    Plenty = 40
    Supplies <- MCSupplies
    Demands <- MCDemands
    Volume <- MCVolume
    Asteroids = {"C"}
    Minerals = {"ore", "junk"}
    Gases = {"ore", "junk"}
    Yield = 1
    Shipyards = {"B"}
    Materials <- MCMaterials
    SiteAt = "C"
    SurveyYields = 2
    Tasks <- MCTasks
    Wanted = {"ore"}
    DeliverTo <- MCDeliverTo
    Nowhere = "Nowhere"
CHECK_DEADLOCK FALSE
INVARIANTS NeverOutOfFuel ShipKnowsItself AsksAreAccepted TicketsAreExecutedOnce SellTicketsAreCovered
PROPERTIES ForgetsOnlyAfterArriving TasksGetDone ShipsKeepWorking
