CONSTANTS
  MaxVersion = 2
  MaxEpoch = 2
  MaxStarts = 1
  MaxStops = 0
  RestartLimit = 1
  Caching = TRUE
SPECIFICATION Spec
INVARIANTS WarnsOncePerOutage RunEndsForCause DebounceHolds
PROPERTIES PublicationsCoverSaves ImplementsSchemaRefresh
CHECK_DEADLOCK FALSE
