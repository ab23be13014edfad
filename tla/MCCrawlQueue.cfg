SPECIFICATION Spec
CONSTANTS
  u1 = u1
  u2 = u2
  NoUrl = NoUrl
  Url <- MCUrl
  RawUrl <- MCRawUrl
  Canonical <- MCCanonical
  MaxQueueSize = 2
  MaxCrashes = 2
  MaxWriteErrors = 2
  ColdClose = FALSE
  MaxUnsees = 1
INVARIANTS
  TypeOK
  NothingForgotten
  DurableBetweenCalls
  FailuresAreBounded
