SPECIFICATION Spec
CONSTANTS
  Doc = {d1, d2}
  NoIndex = NoIndex
  Corrupt = Corrupt
  MaxRetained = 3
  MaxVer = 1
  MaxBuilds = 2
  MaxEdits = 0
  MaxCrashes = 1
  MaxErrors = 0
CHECK_DEADLOCK FALSE
INVARIANTS
  ActiveNeverPruned
