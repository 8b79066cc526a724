CONSTANTS
  MaxVersion = 1
  MaxEpoch = 1
  MaxStarts = 1
  MaxStops = 0
  RestartLimit = 1
  Caching = FALSE
SPECIFICATION FairSpec
PROPERTIES SaveIsServed
CHECK_DEADLOCK FALSE
