SPECIFICATION Spec
CONSTANTS
  DiskSize = 10
  BlockSize = 2
  NPtrs = 10
  DirSlots = 1
  UInt32 = 64
  MaxSize = 4
  a = a
  b = b
  long = long
  Names = {a, b, long}
  NoName = NoName
  Stored <- CutLong
  WideDir = TRUE
INVARIANTS
  ReferencedIsMarkedOnDisk
  SavedBitsAreSet
  NoSharedBlocks
  SingleLink
  BlocksHoldTheirKind
CHECK_DEADLOCK FALSE
VIEW SeenState
