SPECIFICATION Spec
CONSTANTS
  Doc = {d1, d2}
  NoIndex = NoIndex
  Corrupt = Corrupt
  MaxRetained = 3
  MaxVer = 2
  MaxBuilds = 2
  MaxEdits = 1
  MaxCrashes = 1
  MaxErrors = 2
CHECK_DEADLOCK FALSE
INVARIANTS
  TypeOK
  AtMostOneActive
  CleanupIsRight
  ServedFollowsRecords
