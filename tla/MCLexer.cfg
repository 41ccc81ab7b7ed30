CONSTANTS
  Inputs <- MCInputs
  OpcodeNames <- MCOpcodeNames
  KeywordNames <- MCKeywordNames
  Capacity = 3
SPECIFICATION Spec
INVARIANTS
  TypeOK
  OverrunOnlyAtEnd
  DocumentedUnlessDeparts
PROPERTIES
  ImplementsTokenGrammar
  CallsReturn
  ReadersReachTheEnd
