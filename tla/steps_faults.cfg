SPECIFICATION StepsSpec
CONSTANTS
  DiskSize = 7
  BlockSize = 1
  NPtrs = 7
  DirSlots = 2
  UInt32 = 64
  MaxSize = 2
  a = a
  b = b
  t1 = t1
  t2 = t2
  Names = {a, b}
  NoName = NoName
  Stored <- KeepNames
  WideDir = FALSE
  Threads = {t1}
  MaxFaults = 2
INVARIANTS
  StepsTypeOK
  StopIsSafe
  NothingUsedIsOffered
  SoundThroughout
PROPERTIES
  CallsAreAtomic
  UndisturbedCallsAreWhole
CHECK_DEADLOCK FALSE
CONSTRAINT Followed
VIEW SeenState
SYMMETRY SameNames
