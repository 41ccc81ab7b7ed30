CONSTANTS
  Names = { "loop", "Loop", "end" }
  Fold <- MCFold
  NoLabel = NoLabel
  Literals <- MCLiterals
  Max8 = 1
  Max16 = 3
  Word = 16
  Opcodes = { "jump_if", "load_bool" }
  ConstantKinds = { "procedure", "string" }
  MaxItems = 5
SPECIFICATION Spec
INVARIANTS
  TypeOK
  LabelsResolve
  AcceptedIsWhole
  LabelsFreedOnce
CHECK_DEADLOCK FALSE
