SPECIFICATION Spec
CONSTANTS
  BLOCK_SIZE = 2
  Direct = 2
  Indirect = 3
  File = {"f1"}
  Fd = {"w1"}
  file_of <- mcFileOf
  Writer = {"w1"}
  Reader = {}
  NBlocks = 10
  WriteCount = {5}
  ReadCount = {1}
  MaxSize = 10
  WORD = 64
  NONE = "none"
INVARIANT WriteUpToLimit
