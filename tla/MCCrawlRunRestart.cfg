SPECIFICATION Spec
CONSTANTS
  Url <- SmallUrl
  Seeds <- SmallSeeds
  Links <- SmallLinks
  Blocked <- NoneBlocked
  Domain <- SmallDomain
  Delay = 1
  MaxPages = 3
  MaxDepths = {0, 1}
  Concurrency = 2
  MaxQueueSize = 2
  MaxRuns = 2
  MaxCrashes = 1
  MaxCloses = 0
  MaxStorageErrors = 0
  MaxTime = 1
  Recrawl = {TRUE, FALSE}
CHECK_DEADLOCK FALSE
INVARIANTS
  FetchesInOrder
