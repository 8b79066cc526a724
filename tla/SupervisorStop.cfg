CONSTANTS
  MaxVersion = 1
  MaxEpoch = 1
  MaxStarts = 2
  MaxStops = 1
  RestartLimit = 1
  Caching = FALSE
SPECIFICATION FairSpec
INVARIANTS NoSpawnAfterLeak
PROPERTIES StopLeavesNoWorker StopEndsRun
CHECK_DEADLOCK FALSE
