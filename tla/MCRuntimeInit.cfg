CONSTANTS
  Names <- MCNames
  BadNames = {}
  Objects <- MCObjects
  NULL = NULL
  ErrorPoolSize = 4
  TypePoolSize = 2
  HostErrors <- MCHostErrors
  HostTypes <- MCHostTypes
SPECIFICATION Spec
INVARIANTS
  TypeOK
  InitializedMeansRegistered
  RegistriesInBounds
PROPERTIES
  ReinitKeepsRegistered
  HalfInitializedForever
  EvaluatorInitializesOnce
