CONSTANTS
  Keys <- MCKeys
  Filters <- MCFilters
  NoCall = NoCall
SPECIFICATION TreeSpec
INVARIANT CopyEqual
