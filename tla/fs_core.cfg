SPECIFICATION TreeSpec
CONSTANTS
  DiskSize = 8
  BlockSize = 2
  NPtrs = 8
  DirSlots = 2
  UInt32 = 64
  MaxSize = 3
  a = a
  b = b
  Names = {a, b}
  NoName = NoName
  Stored <- KeepNames
  WideDir = FALSE
INVARIANTS
  TypeOK
  ReferencedIsMarkedOnDisk
  SavedBitsAreSet
  NoSharedBlocks
  SingleLink
  BlocksHoldTheirKind
  NamesUnique
  ListingsAreTrue
PROPERTIES
  SuccessLosesNothing
  ImplementsNamespace
  AnswersAreTrue
CHECK_DEADLOCK FALSE
VIEW SeenState
SYMMETRY SameNames
