CONSTANTS
  FixnumMin <- MCFixnumMin
  FixnumMax = 31
  IntMax = 511
  NumRegisters = 2
  InitialValues <- MCInitialValues
  LastPc = 4
  Program <- MCProgram
SPECIFICATION Spec
PROPERTY NegatingNeverOverflows
