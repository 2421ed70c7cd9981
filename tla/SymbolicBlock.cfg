SPECIFICATION FairSpec
CONSTANT Translations <- ByJal
INVARIANTS
  NeverLosesControl
  RunsToReturn
PROPERTY ImplementsMachine
