CONSTANTS
  Object = "Object"
  ProgramOf <- MCProgramOf

SPECIFICATION Spec

INVARIANT
  CyclesAreRefused

CHECK_DEADLOCK FALSE
