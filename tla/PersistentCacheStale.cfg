\* Two files, so that a worker reads them at different moments.
CONSTANTS
  Processes = {p1}
  Files = {models, settings}
  SettingsFile = settings
  Contents = {0, 1}
  NoEntry = NoEntry
  MaxEdits = 2
  MaxLaunches = 2
SPECIFICATION Spec
INVARIANTS StaleIsAMiss
CHECK_DEADLOCK FALSE
