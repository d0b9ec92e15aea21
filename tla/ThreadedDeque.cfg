\* Both ends, every wrap and expansion up to three items; waits of three threads.
CONSTANTS
  Threads = {t1, t2, t3}
  NoThread = NoThread
  Items = {a, b}
  NULL = NULL
  Garbage = Garbage
  NONE = NONE
  TimeoutTakesSignal = FALSE
  DEFAULT_CAPACITY = 2
  InitialCapacities = {0, 1}
  Kinds = {"push", "pop", "wait_empty", "count", "capacity", "copy"}
  PopCounts = {0, 2}
  MaxItems = 3
SYMMETRY Symmetry
SPECIFICATION MCSpec
INVARIANTS
  RingShape
  WaitersNotStranded
PROPERTY ImplementsBlockingDeque
