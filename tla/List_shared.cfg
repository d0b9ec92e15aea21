SPECIFICATION Spec
CONSTANTS
  l1 = l1
  l2 = l2
  a = a
  b = b
  Lists = {l1, l2}
  Payloads = {a, b}
  Value <- MCValue
  Duplicate <- MCDuplicate
  NULL = NULL
  Garbage = Garbage
  Absent = Absent
  Bounds <- TwoShortLists
  IteratorsOnShared = TRUE
PROPERTIES
  ChangesStayLocal
