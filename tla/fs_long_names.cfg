SPECIFICATION Spec
CONSTANTS
  DiskSize = 8
  BlockSize = 2
  NPtrs = 8
  DirSlots = 2
  UInt32 = 64
  MaxSize = 3
  a = a
  b = b
  long = long
  Names = {a, b, long}
  NoName = NoName
  Stored <- CutLong
  WideDir = FALSE
INVARIANT NamesUnique
CHECK_DEADLOCK FALSE
VIEW SeenState
