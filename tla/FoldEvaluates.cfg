SPECIFICATION Spec
CONSTANTS
  XLen = 8
  LuiShift = 2
  MaxLines = 3
  InitRegs <- MCInitRegs
  Lines <- MCLines
  InitMem <- MCInitMem
INVARIANTS
  FoldEvaluates
