SPECIFICATION FairSpec
CONSTANTS
  Goods = {"ore", "fabmats", "circuits"}
  Waypoints = {"M", "F", "J"}
  Distance <- MCDistance
  Entries <- MCEntries
  Boosts <- MCBoosts
  NoGoGoods = {}
  SiteAt = "J"
  LimitOf <- MCLimitOf
  PerTrader = 1
  Nowhere = Nowhere
  Ships = {s1, s2, s3}
  InitialFleet = {s1, s2}
  Capacity <- MCCapacity
  Home = "M"
  Leftovers <- MCLeftovers
  Required <- MCRequired
  Capital = 5
  Budget = 5
  StockLevels <- MCStockLevels
  MaxFaults = 1
INVARIANTS DeliveriesAreBacked TicketsFit
PROPERTIES EveryTradeEnds GateIsBuilt
CHECK_DEADLOCK FALSE
