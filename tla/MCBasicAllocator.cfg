SPECIFICATION Spec
CONSTANTS
  WordSize <- MCWordSize
  Values <- Words
  Worlds <- Machines
  NoValue = NoValue
  Outcomes <- MCOutcomes
  Cell <- MCCell
  Programs <- MCPrograms
  StackSize <- MCStackSize
  Leftovers <- MCLeftovers
INVARIANTS
  TypeOK
  SlotsAreOwn
PROPERTIES
  ImplementsVirtualMachine
  AllocationEnds
CHECK_DEADLOCK FALSE
