SPECIFICATION Spec
CONSTANTS
  NumFiles = 2
  Corrupt = Corrupt
  Closed = Closed
  MaxVersion = 3
  MaxChanges = 1
  MaxSnapshots = 2
  MaxMishaps = 1
  Url = {"u1", "u2"}
  MaxCrawls = 3
  Process = {p1, p2}
  Key = {"a"}
  Limit <- MCLimit
  Window <- MCWindow
  DefaultWindow = 2
  MaxCost = 2
  MaxTime = 3
  MaxGranted = 5
  VoteId = {"f1", "f2"}
  MaxStoredRecords = 2
  Retention = 1
  BurstThreshold = 1
  BurstWindow = 0
  MaxVotes = 3
  MaxDay = 2
  Load = {l1, l2}
  MaxDeployed = 3
  CorpusSize = 2
  Visitor = {v1, v2}
  MaxCrashes = 2
  IndexedDoc = {"d1", "d2"}
  IndexTerm = {"t1", "t2"}
  Page = {"a", "b", "c", "d"}
  MaxNodes = 3
  MaxOut = 2
  AllowSelfLoops = FALSE
  LinkLists <- MCLinkLists
  MaxHops = 4
  MaxIngested = 3
  LensPattern <- MCLensPattern
  LensHost <- MCLensHost
  BuiltinId = {"general"}
  CustomId = {"mine", "custom-lens"}
  LensOne = 4
  BoostMax = 8
  DemoteMin = 1
  MaxRules = 2
  ForeignLens <- MCForeignLens
  MaxLensEdits = 3
  Tried = {1, 4, 8}
CHECK_DEADLOCK FALSE
INVARIANTS
  StoresTypeOK
  DataSurvivesMaintenance
  RecordsAreKeptOnce
  NothingContradicts
  GrantsAreAccountedFor
  ServedWhole
PROPERTIES
  StepsAreAllOrNothing
  SettlesInTheEnd
