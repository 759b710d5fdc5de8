SPECIFICATION Spec
CONSTANTS
  DiskSize = 8
  BlockSize = 2
  NPtrs = 8
  DirSlots = 2
  UInt32 = 64
  MaxSize = 3
  a = a
  b = b
  long = long
  Names = {a, b}
  NoName = NoName
  Stored <- KeepNames
  WideDir = FALSE
PROPERTY OverwritingSucceeds
CHECK_DEADLOCK FALSE
VIEW SeenState
