SPECIFICATION Spec
CONSTANTS
  w1 = w1
  Wallet = {w1}
  MaxRelease = 3
  Known = 2
  Change <- MCChange
  Threaded = {TRUE, FALSE}
  MaxBackups = 2
  MaxStarts = 5
INVARIANTS
  SchemaIsTheReleases
  LossIsInABackup
  UpgradesOnce
PROPERTIES
  StartupEnds
\* The number of starts is bounded.
CHECK_DEADLOCK FALSE
