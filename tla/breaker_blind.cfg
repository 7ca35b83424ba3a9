SPECIFICATION FairSpec
CONSTANTS
  MaxBars = 2
  MaxLag = 1
  MaxSettle = 1
  MaxFailures = 3
  Validity = 2
  Candles = 2
  MaxEntries = 1
  Faults = {}
  Outages = {"broker"}
CHECK_DEADLOCK FALSE
PROPERTY
  BrokerBreakerTrips
