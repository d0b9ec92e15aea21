SPECIFICATION Spec
CONSTANTS
  l1 = l1
  l2 = l2
  l3 = l3
  a = a
  b = b
  Lists = {l1, l2, l3}
  Payloads = {a, b}
  Value <- MCValue
  Duplicate <- MCDuplicate
  NULL = NULL
  Garbage = Garbage
  Absent = Absent
  Bounds <- MCBounds
  IteratorsOnShared = FALSE
SYMMETRY Symmetry
INVARIANTS
  WellLinked
  SharingIsCounted
  IteratorsStayInList
  FoundAgain
PROPERTIES
  IndependentSpec
