\* Two threads, arrays of up to two items, up to three items: wraps, expansions, FIFO order.
CONSTANTS
  Threads = {t1, t2}
  NoThread = NoThread
  Items = {a, b}
  NULL = NULL
  Garbage = Garbage
  NONE = NONE
  TimeoutTakesSignal = TRUE
  DEFAULT_CAPACITY = 2
  InitialCapacities = {0, 1}
  Kinds = {"push", "pop", "clear", "clear_and_push", "wait_empty", "count", "capacity", "copy"}
  PopCounts = {0, 2}
  MaxPushN = 2
  MaxItems = 3
SPECIFICATION Spec
SYMMETRY Symmetry
INVARIANTS
  RingShape
  DestroyRangeExact
  StoredSlotsHoldItems
  EmptyWaitersReleased
PROPERTY ImplementsBlockingDeque
