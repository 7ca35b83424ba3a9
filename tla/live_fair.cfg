SPECIFICATION FairSpec
CONSTANTS
  Bots = {b1}
  NoBot = NoBot
  Qty = 1
  MaxOrders = 2
  MaxExecs = 4
  MaxMarket = 2
  MaxBars = 3
  MaxCrashes = 0
  Validity = 2
  MaxTrades = 2
  ActiveExit = TRUE
  Faults = {"cancel", "reject"}
INVARIANT
  FillsConserved
PROPERTIES
  AllDrained
  FlattenCompletes
