SPECIFICATION FrontSpec
CONSTANTS
  Ids <- MCIds
  Names <- MCNames
  Required <- MCRequired
  Programs <- OverloadPrograms
INVARIANTS
  ValidCallsAreFound
