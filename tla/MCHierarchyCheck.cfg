CONSTANTS
  Object = "Object"
  ProgramOf <- MCProgramOf

SPECIFICATION Spec

INVARIANTS
  TypeOK
  DecidesAcyclicity
  FindsUnimplemented
  SameSignatureSameResult

PROPERTY
  CheckEnds

CHECK_DEADLOCK FALSE
