CONSTANTS
  MaxFailures = 2
  Folders = {f, g}
  Standalone = standalone
  MaxEvents = 3
  None = None
  Uris = {a}
  Texts = {s, t}
  MaxVersion = 1
  MaxGeneration = 2
  Nothing = Nothing
SPECIFICATION BothSpec
INVARIANT NoWorkerOutlivesProcess
PROPERTIES ProcessEnds FailuresAreTold
INVARIANTS NoStrayProcess QuietMeansConfigured
PROPERTIES Settles
INVARIANTS QuietMeansCurrent
PROPERTIES NeverOutdated Converges
\* The process has ended, the extension is deactivated, the features are closed.
CHECK_DEADLOCK FALSE
