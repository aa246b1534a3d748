SPECIFICATION Spec
CONSTANTS
  WordSize <- MCWordSize
  Locals <- MCLocals
  Statements <- MCStatements
  Depth <- MCDepth
  CFGs <- MCCFGs
INVARIANTS
  TypeOK
  FrontierIsQueued
  AgreesWithStatements
  FoldingAgreesWithJava
PROPERTIES
  DecidesReachability
  Termination
CHECK_DEADLOCK FALSE
