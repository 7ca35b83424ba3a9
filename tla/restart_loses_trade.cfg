SPECIFICATION Spec
CONSTANTS
  Bots = {b1}
  NoBot = NoBot
  Qty = 1
  MaxOrders = 1
  MaxExecs = 4
  MaxMarket = 2
  MaxBars = 2
  MaxCrashes = 1
  Validity = 2
  MaxTrades = 2
  ActiveExit = FALSE
  Faults = {}
INVARIANT
  FillsConserved
