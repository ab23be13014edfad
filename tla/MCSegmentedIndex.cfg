SPECIFICATION Spec
CONSTANTS
  d1 = d1
  d2 = d2
  t1 = t1
  t2 = t2
  Doc <- MCDoc
  Term <- MCTerm
  Terms <- MCTerms
  MaxVer = 2
  MaxBufferSize = 3
  MaxSegs = 4
  MaxCrashes = 1
  MaxErrors = 1
  PartialMerges = FALSE
  MayClear = FALSE
CHECK_DEADLOCK FALSE
INVARIANTS
  TypeOK
  FilesFollowManifest
  NewestVersionWins
  ReadersAgree
PROPERTIES
  ImplementsDurableIndex
