CONSTANTS
  Object = "Object"
  ProgramOf <- MCProgramOf

SPECIFICATION Spec

INVARIANT
  FinalMethodsStayFinal

CHECK_DEADLOCK FALSE
