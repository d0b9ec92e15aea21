SPECIFICATION Spec
CONSTANTS
  m1 = m1
  m2 = m2
  o1 = o1
  o2 = o2
  o3 = o3
  o4 = o4
  o5 = o5
  o6 = o6
  Maps = {m1, m2}
  Keys = {1, 2, 3, 4}
  Objects = {o1, o2, o3, o4, o5, o6}
  Hash <- MCHash
  TINY_LIMIT = 2
  INIT_SIZE = 1
  MAX_BUCKETS = 4
  None = None
  Absent = Absent
SYMMETRY Symmetry
INVARIANTS
  TableShape
  IterationComplete
  Ownership
PROPERTIES
  StoreSpec
