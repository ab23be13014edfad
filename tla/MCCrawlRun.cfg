SPECIFICATION FairSpec
CONSTANTS
  Url <- MCUrl
  Seeds <- MCSeeds
  Links <- MCLinks
  Blocked <- DBlocked
  Domain <- MCDomain
  Delay = 0
  MaxPages = 2
  MaxDepths = {1, 2}
  Concurrency = 2
  MaxQueueSize = 2
  MaxRuns = 1
  MaxCrashes = 0
  MaxCloses = 1
  MaxStorageErrors = 1
  MaxTime = 0
  Recrawl = {FALSE}
CHECK_DEADLOCK FALSE
INVARIANTS
  RunIsContained
  DropsBounded
PROPERTIES
  RunsToTheEnd
  RunTerminates
