CONSTANTS
  m1 = m1
  m2 = m2
  main = main
  p = p
  prim = prim
  bundle = bundle
  symbol = symbol
  N_FALSE = N_FALSE
  N_UNDEFINED = N_UNDEFINED
  GARBAGE = GARBAGE
  NULL = NULL
  NO_MODULE = NO_MODULE
  Modules = {m1, m2}
  Procedures = {main, p}
  Primitives = {prim}
  Data = {N_FALSE, N_UNDEFINED, NULL, bundle, symbol}
  Bundles = {bundle}
  Symbols = {symbol}
  ModuleOf <- MCModuleOf
  NumLocals <- MCNumLocals
  EntryPoint <- MCEntryPoint
  InitialGlobals <- MCInitialGlobals
  EntryRegister <- MCEntryRegister
  Programs <- TwoArguments
  StackSize = 30
SPECIFICATION Spec
INVARIANTS
  FramesDisjoint
CHECK_DEADLOCK FALSE
