CONSTANTS
  Inputs <- NameTexts
  OpcodeNames <- MCOpcodeNames
  KeywordNames <- MCKeywordNames
  Capacity = 3
SPECIFICATION Spec
INVARIANTS
  NulInBuffer
