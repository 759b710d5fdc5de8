SPECIFICATION Spec
CONSTANTS
  Inodes <- SmallInodes
  MaxInode = 5
  Root = 2
  NoInode = 0
  Names = {"a", "b"}
  MaxComponents = 4
  MaxPath = 5
  Trees <- SmallTrees
INVARIANTS
  DotDotIsTheParent
CHECK_DEADLOCK FALSE
