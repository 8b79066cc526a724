CONSTANTS
  MaxVersion = 2
  MaxEpoch = 2
  MaxStarts = 1
  MaxStops = 0
  RestartLimit = 1
  Caching = FALSE
SPECIFICATION FairSpec
PROPERTIES SavesAreServed RestartsCease
CHECK_DEADLOCK FALSE
