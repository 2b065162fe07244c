SPECIFICATION Spec
CONSTANTS
  Goods = {"ore", "fabmats", "circuits"}
  Waypoints = {"M", "F", "J"}
  Distance <- MCDistance
  Entries <- MCEntries
  Boosts <- MCBoosts
  NoGoGoods = {}
  SiteAt = "J"
  LimitOf <- MCLimitOf
  PerTrader = 1
  Nowhere = Nowhere
  Ships = {s1, s2, s3}
  InitialFleet = {s1, s2, s3}
  Capacity <- MCCapacity
  Home = "M"
  Leftovers <- MCNoLeftovers
  Required <- MCRequired
  Capital = 3
  Budget = 3
  StockLevels <- MCStockLevels
  MaxFaults = 0
INVARIANT SomeTaskIsFound
CHECK_DEADLOCK FALSE
