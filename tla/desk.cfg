SPECIFICATION Spec
CONSTANTS
  Off = Off
  b1 = b1
  b2 = b2
  b3 = b3
  Bots = {b1, b2, b3}
  Config <- MCConfig
  MaxPositions = 2
  MaxNotionalPct = 110
  Equities = {0, 100}
  Signals <- MCSignals
  Context <- MCContext
  Quote <- MCQuote
  State <- MCState
  Candles <- MCCandles
  UtcOffset = 240
  Strategies <- MCStrategies
  Params <- MCParams
  History <- MCHistory
  Slots <- MCSlots
  Shapes <- MCShapes
  MoreBars = 3
  LiveMax = 20
  RiskOf <- MCRiskOf
  Scripts <- MCScripts
  ChannelSize = 1
  Requests = {"simple", "bracket", "stop_limit", "no_price"}
  Attempts = 4
  OldLegs = {stop}
  CloseTries = 3
  Exits <- MCExits
  Flattened <- MCFlattened
  Stamps <- MCStamps
  Markets <- MCMarkets
  MaxWindows = 3
  Capital = 10
  Pairs = {p1, p2}
  Costs <- MCCosts
  ProductionBps <- MCBps
  Backtested <- MCBacktested
  Samples <- MCSamples
  MinTrades = 2
  TolerancePct = 30
  MaxRuns = 2
  MaxVersions = 2
CHECK_DEADLOCK FALSE
INVARIANTS
  OvershootBounded
  SizesFit
  HistorySuffices
  EntryAhead
  SignalsPassRisk
  Mirrored
  BooksBalance
  BracketWhole
  RejectedIsDead
  SampleKept
  BaselineIsNoAblation
  ClosesOnce
PROPERTIES
  NotionalKeptAlone
  FillSettles
