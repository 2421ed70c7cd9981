SPECIFICATION Spec
CONSTANTS
  XLen = 8
  LuiShift = 2
  Entry = 16
  MaxLines = 2
  Registers <- MCRegisters
  RegValues <- MCRegValues
  LinesAt <- MCLines
  InitMem <- MCInitMem
INVARIANTS
  PcFollowsCfg
  ReturnedWhereGraphEnds
PROPERTIES
  ModSetCovers
  ResultsAreIsa
  LoadsSeeStores
