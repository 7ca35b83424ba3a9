SPECIFICATION Spec
CONSTANTS
  Bots = {b1}
  NoBot = NoBot
  Qty = 1
  MaxOrders = 2
  MaxExecs = 3
  MaxMarket = 2
  MaxBars = 2
  MaxCrashes = 1
  Validity = 1
  MaxTrades = 2
  ActiveExit = FALSE
  Faults = {"db", "reject", "poll"}
INVARIANTS
  TypeOK
  OneBracketPerClient
  PositionNotStacked
  TrackedFillsPersisted
PROPERTY
  EntriesSuspended
