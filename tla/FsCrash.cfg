SPECIFICATION Spec
CONSTANTS
  Name = {a, b}
  SECTOR_SIZE = 5
  BITS_PER_SECTOR = 10
  MAX_FILES_PER_PART = 3
  inode_size = 4
  SecCnt = {11, 12}
  Direct = 1
  Indirect = 2
  U8 = 256
  Count = {1, 2}
  MaxSize = 2
  MaxCrashes = 2
INVARIANTS
  MountFindsSound
  NothingLeaks
  InsidePartition
PROPERTY CallsAreAtomic
CONSTRAINT mcFollowed
SYMMETRY mcSymmetry
CHECK_DEADLOCK FALSE
