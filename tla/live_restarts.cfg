SPECIFICATION Spec
CONSTANTS
  Bots = {b1}
  NoBot = NoBot
  Qty = 1
  MaxOrders = 3
  MaxExecs = 4
  MaxMarket = 2
  MaxBars = 3
  MaxCrashes = 1
  Validity = 1
  MaxTrades = 2
  ActiveExit = TRUE
  Faults = {"send", "cancel", "query"}
INVARIANTS
  TrackerHasOrder
  AlwaysProtected
  RiskCoversDb
  RecordedOrdersWithinLimit
  CountedOnce
