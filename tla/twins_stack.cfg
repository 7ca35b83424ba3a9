SPECIFICATION Spec
CONSTANTS
  Bots = {b1, b2}
  NoBot = NoBot
  Qty = 1
  MaxOrders = 2
  MaxExecs = 2
  MaxMarket = 2
  MaxBars = 1
  MaxCrashes = 0
  Validity = 2
  MaxTrades = 2
  ActiveExit = FALSE
  Faults = {}
SYMMETRY Twins
INVARIANT
  PositionNotStacked
