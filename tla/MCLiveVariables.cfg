SPECIFICATION Spec
CONSTANTS
  WordSize <- MCWordSize
  Locals <- MCVariables
  Variables <- MCVariables
  Statements <- MCStatements
  Depth <- MCDepths
  CFGs <- MCCFGs
INVARIANTS
  TypeOK
  QueueMatchesSet
  SettledNodesSolveEquations
  FoundLiveIsLive
PROPERTIES
  DecidesLiveness
  Termination
CHECK_DEADLOCK FALSE
