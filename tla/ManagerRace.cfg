CONSTANTS
  Processes = {p1, p2}
  Files = {models}
  SettingsFile = models
  Contents = {0, 1}
  NoEntry = NoEntry
  MaxEdits = 1
  MaxLaunches = 2
  PythonFiles = {apps, settings, helper}
  AppFiles = {apps}
  SettingsFiles = {settings}
  ProjectFiles = {apps, settings, helper}
  MaxSources = 2
  RestartLimit = 1
  MaxWrites = 2
  Null = Null
SPECIFICATION FilterSpec
PROPERTIES AffectingIsHeard
CHECK_DEADLOCK FALSE
