SPECIFICATION Spec
CONSTANTS
  Blocks = {2, 3, 4}
  BlockSize = 2
  MaxSize = 4
  UInt32 = 16
  Byte = {0, 1}
  Junk = Junk
  Buffers <- AllBuffers
INVARIANT
  TypeOK
PROPERTIES
  ImplementsFlatFile
  EveryCallReturns
CONSTRAINT Followed
