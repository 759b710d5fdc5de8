SPECIFICATION Spec
CONSTANTS
  Inodes <- SmallInodes
  MaxInode = 6
  Root = 2
  NoInode = 0
  Names = {"a", "b"}
  MaxComponents = 4
  MaxPath = 5
  Trees <- SmallTrees
INVARIANTS
  TypeOK
  TranslateFindsIt
  FreesWhatItUnlinks
  StackIsTheWayDown
CHECK_DEADLOCK FALSE
