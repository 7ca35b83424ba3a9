SPECIFICATION Spec
CONSTANTS
    None = None
    Bars <- SixBars
    Candles <- ManyCandles
    Setups <- ManySetups
    Quantities = {2}
    SessionEnds = {4}
    Capital = 1000
    PerShare = 1
    MinPerOrder = 2
    CapDivisor = 10
    Slippage = 1
    Haircut = 1
    Validity = 2
    Tolerance = 25
    Flattens = TRUE
    Replay = FALSE
    Timed = TRUE
    Window = 2
    MinR = 50
    MaxTrades = 3
    MaxLosses = 2
    MaxLossPct = 5
    MinReward = 1
INVARIANTS
    BookMatchesPending
    EquityIsMarked
    FlatOvernight
    EntryFillsInItsWindow
    TimedOutOnTime
    LimitsAreOfTheDay
PROPERTY
    LedgerKept
CHECK_DEADLOCK FALSE
