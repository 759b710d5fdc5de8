SPECIFICATION Spec
CONSTANTS
  Inodes <- SmallInodes
  MaxInode = 5
  Root = 2
  NoInode = 0
  Names = {"a", "b"}
  MaxComponents = 3
  MaxPath = 4
  Trees <- SmallTrees
INVARIANTS
  StackHoldsThePath
CHECK_DEADLOCK FALSE
