SPECIFICATION Spec
CONSTANTS
  WordSize <- MCWordSize
  MaxArguments <- MCMaxArguments
  Cell <- MCCell
  MeaningOf <- MCMeaning
  Programs <- ConstructorPrograms
INVARIANTS
  EndsAsMeant
CHECK_DEADLOCK FALSE
