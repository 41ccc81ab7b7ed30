CONSTANTS
  Names = {n1, n2, n3}
  BadNames = {bad}
  Objects = {o1, o2}
  NULL = NULL
  InitialSizes <- MCInitialSizes
SPECIFICATION Spec
INVARIANTS
  TypeOK
  PoolInBounds
  NamesUnique
  NoRunawayGrowth
PROPERTIES
  ImplementsNameMap
