SPECIFICATION Spec
CONSTANTS
  MaxEntries = 6
  Xlen = 8
  Programs <- SmallPrograms
  Requests <- SmallRequests
INVARIANTS
  TreesAreUnits
  NoReentry
  PartsAreDeclared
  ArgumentsAtTheirRegisters
  MacrosAreDefined
  VerifiesWhatReturns
