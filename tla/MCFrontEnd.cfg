SPECIFICATION FrontSpec
CONSTANTS
  Ids <- MCIds
  Names <- MCNames
  Required <- MCRequired
  Programs <- MCPrograms
INVARIANTS
  FrontTypeOK
  LookupsAgree
  NamesAreUnique
  ContextsFollowShadowing
  LinkVerdict
  NamesAreJavas
  TypesAreJavas
  ContextsAreRespected
