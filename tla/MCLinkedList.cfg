CONSTANTS
  Nodes = {n1, n2, n3, n4}
  Data = {a, b}
  NULL = NULL
  JUNK = JUNK
SPECIFICATION FairSpec
INVARIANTS WellFormed VisitInList AdvanceOnLive PassCoverage
PROPERTIES ListImplSpec OperationsReturn
