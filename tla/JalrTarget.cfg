SPECIFICATION Spec
CONSTANTS
  XLen = 8
  LuiShift = 2
  Entry = 16
  MaxLines = 1
  Registers <- MCRegisters
  RegValues <- MCRegValues
  LinesAt <- MCLines
  InitMem <- MCInitMem
PROPERTY JalrJumpsToSource
