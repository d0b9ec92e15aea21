\* Three threads that push, pop and wait with every kind of timeout; one item per push.
CONSTANTS
  Threads = {t1, t2, t3}
  NoThread = NoThread
  Items = {a}
  NULL = NULL
  Garbage = Garbage
  NONE = NONE
  TimeoutTakesSignal = FALSE
  DEFAULT_CAPACITY = 2
  InitialCapacities = {1}
  Kinds = {"push", "pop"}
  PopCounts = {}
  MaxPushN = 1
  MaxItems = 2
SPECIFICATION FairSpec
INVARIANTS
  MutualExclusion
  ConsumersNotStranded
PROPERTIES
  CallsReturn
