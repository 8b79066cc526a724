\* Two launches on one cache directory with one source; three files of a
\* project, an app outside it and two edits; an environment file of two lines.
CONSTANTS
  Processes = {p1, p2}
  Files = {models}
  SettingsFile = models
  Contents = {0, 1}
  NoEntry = NoEntry
  MaxEdits = 1
  MaxLaunches = 2
  PythonFiles = {apps, settings, helper, plugin}
  AppFiles = {apps, plugin}
  SettingsFiles = {settings}
  ProjectFiles = {apps, settings, helper}
  MaxSources = 2
  RestartLimit = 1
  MaxWrites = 2
  Null = Null
SPECIFICATION ManagerSpec
SYMMETRY Symmetry
INVARIANTS StoreSurvivesKills StaleOnlyIfTorn
PROPERTIES NewestInstalled
INVARIANTS StaleOnlyIfUnheard OutageHasCause
PROPERTIES HeardOnlyIfAffecting
INVARIANTS WorkerIsConfigured
\* The processes have ended, every edit was served, every line is written.
CHECK_DEADLOCK FALSE
