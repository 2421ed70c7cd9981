SPECIFICATION Spec
CONSTANTS
  Programs <- SmallPrograms
  Requests <- SmallRequests
INVARIANT CalleeModifiesAdded
