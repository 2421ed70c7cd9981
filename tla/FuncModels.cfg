SPECIFICATION FairSpec
CONSTANTS
  Programs <- SmallPrograms
  Requests <- SmallRequests
INVARIANTS
  MarkedOrPending
  CalleesDeclared
  ModifiesCoverInferred
PROPERTY Terminates
