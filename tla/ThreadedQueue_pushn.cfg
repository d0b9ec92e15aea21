\* PushN with two items signals one of two blocked consumers.
CONSTANTS
  Threads = {t1, t2, t3}
  NoThread = NoThread
  Items = {a}
  NULL = NULL
  Garbage = Garbage
  NONE = NONE
  TimeoutTakesSignal = FALSE
  DEFAULT_CAPACITY = 2
  InitialCapacities = {1}
  Kinds = {"push", "pop"}
  PopCounts = {}
  MaxPushN = 2
  MaxItems = 3
SPECIFICATION Spec
SYMMETRY Symmetry
INVARIANT BlockedOnlyIfEmpty
