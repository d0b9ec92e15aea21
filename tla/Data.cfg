\* Small instances of the containers, documents, texts and logs; the texts are the ones of MCData.
CONSTANTS
  Threads = {t1, t2}
  NoThread = NoThread
  Items = {a, b}
  NULL = NULL
  Garbage = Garbage
  NONE = NONE
  TimeoutTakesSignal = FALSE
  DEFAULT_CAPACITY = 2
  InitialCapacities = {0, 1}
  MaxItems = 3
  SeqItems = {1, 2, 3, 4, 5}
  SEQ_CAPACITY = 1
  RING_CAPACITY = 3
  MAX_APPENDS = 8
  MAX_ENQUEUES = 6
  JsonKeys <- MCJsonKeys
  JsonPrimitives <- MCJsonPrimitives
  JSON_INT_BITS = 4
  MAX_JSON_NODES = 6
  LONG_BITS = 8
  INT_PRINT_SIZE = 4
  SHA1_LEN = 1
  STR_LENGTH_PREFIX_LEN = 2
  PATH_SEPARATOR = "/"
  BufferBytes = {"a", "-", "NUL"}
  BUFFER_CAPACITY = 2
  MAX_BUFFER = 3
  WriterPieces <- MCWriterPieces
  MAX_WRITES = 4
  CAT_SIZE = 5
  CsvFields <- MCCsvFields
  MAX_CSV_FIELDS = 5
  IpPieces <- MCIpPieces
  MAX_IP_PIECES = 6
  LogThreads = {t1, t2}
  NoContext = NoContext
  NoHook = 0
  LogLevels = {4, 6}
  LogModules = {"vars"}
  MAX_MESSAGES = 2
  MAX_SETTINGS = 2
SPECIFICATION MCSpec
SYMMETRY Symmetry
INVARIANTS
  SequenceExact
  FifosExact
  DocumentsExact
  BuffersExact
  CsvExact
  AddressesExact
  LoggingExact
PROPERTIES
  JsonTextExact
  StringsExact
  ImplementsBlockingDeque
CHECK_DEADLOCK FALSE
