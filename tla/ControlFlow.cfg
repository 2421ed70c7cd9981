SPECIFICATION FairSpec
CONSTANTS
  NumBlocks = 4
  Graphs <- SmallGraphs
INVARIANTS
  CfgIsReachable
  SortedFollowsFlow
  SortedIsFunction
  CycleIsFound
  CycleIsReal
PROPERTY Terminates
