SPECIFICATION FairSpec
CONSTANTS
  MaxBars = 3
  MaxLag = 2
  MaxSettle = 1
  MaxFailures = 3
  Validity = 2
  Candles = 2
  MaxEntries = 2
  Faults = {"feed", "cancel", "close"}
  Outages = {"feed", "broker"}
CHECK_DEADLOCK FALSE
PROPERTIES
  SettledBeforeUse
  EvaluatedOnce
  EntryLivesItsCandles
  ExitsByItsOwnClock
  BarsConsumed
  DataBreakerTrips
