SPECIFICATION Spec
CONSTANTS
  Programs <- MCPrograms
  ProgramOf <- MCProgramOf
  Methods <- MCMethods
  Fields <- MCFields
  NoMethod = NoMethod
INVARIANT
  CallsReachImplementations
CHECK_DEADLOCK FALSE
