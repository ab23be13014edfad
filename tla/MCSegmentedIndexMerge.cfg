SPECIFICATION Spec
CONSTANTS
  d1 = d1
  d2 = d2
  t1 = t1
  t2 = t2
  Doc <- MCDoc
  Term <- MCTerm
  Terms <- MCTerms
  MaxVer = 2
  MaxBufferSize = 3
  MaxSegs = 4
  MaxCrashes = 1
  MaxErrors = 0
  PartialMerges = TRUE
  MayClear = TRUE
CHECK_DEADLOCK FALSE
PROPERTIES
  DurableDocumentsStay
