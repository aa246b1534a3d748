SPECIFICATION Spec
CONSTANTS
  WordSize <- MCWordSize
  MaxArguments <- MCMaxArguments
  Cell <- MCCell
  MeaningOf <- MCMeaning
  Programs <- MCPrograms
INVARIANTS
  TypeOK
  CanonicalForm
  FalseBranchFallsThrough
  StackIsBalanced
PROPERTIES
  RunsAsMeant
CHECK_DEADLOCK FALSE
