SPECIFICATION Spec
CONSTANTS
  Programs <- MCPrograms
  ProgramOf <- MCProgramOf
  Methods <- MCMethods
  Fields <- MCFields
  NoMethod = NoMethod
INVARIANTS
  TypeOK
  ColoursAreProper
  SlotsHoldTheirMethods
  FieldsKeepTheirOffsets
  NeverThrows
PROPERTIES
  Termination
CHECK_DEADLOCK FALSE
