CONSTANTS
  Keys <- MCKeys
  Filters <- MCFilters
  NoCall = NoCall
SPECIFICATION TreeSpec
INVARIANTS
  Balanced
  OperationsExact
PROPERTY OperationsEnd
