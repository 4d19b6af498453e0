SPECIFICATION Spec
CONSTANTS
  BLOCK_SIZE = 2
  Direct = 2
  Indirect = 3
  File = {"f1", "f2"}
  Fd = {"w1", "r1", "w2"}
  file_of <- mcFileOf
  Writer = {"w1", "w2"}
  Reader = {"r1"}
  NBlocks = 12
  WriteCount = {1, 3, 20}
  ReadCount = {3}
  MaxSize = 6
  WORD = 64
  NONE = "none"
INVARIANTS
  NoPanic
  BlocksExclusive
  SizeHasBlocks
  ReadCorrect
PROPERTY FileRefinesAppend
CONSTRAINT mcFollowed
