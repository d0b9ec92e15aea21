CONSTANTS
  d1 = d1
  f1 = f1
  f2 = f2
  f3 = f3
  p1 = p1
  p2 = p2
  p3 = p3
  g1 = g1
  g2 = g2
  Dirs = {d1}
  Files = {f1, f2, f3}
  Owner <- MCOwner
  DirEntries <- MCDirEntries
  FileEntries <- MCFileEntries
  EUID = 1
  MAX_ATTEMPTS = 3
  Top = Top
  Absent = Absent
  NoCall = NoCall
  Procs = {p1, p2, p3}
  LockFiles = {g1, g2}
  NoFile = NoFile
  MAX_FDS = 2
  MAX_FILE = 5
  BLK_SIZE = 2
  MAX_READ = 3
  CleanupThreads = {c1, c2}
  Nobody = Nobody
  MAX_REGISTERED = 3
SPECIFICATION MCSpec
INVARIANTS
  DescriptorsBalanced
  AnswersLikeOpen
  LockExclusion
  CopiesExact
  CleanupOnce
PROPERTIES
  EmptiesOnlyWhatItReturns
  CallsEnd
CHECK_DEADLOCK FALSE
