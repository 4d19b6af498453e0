SPECIFICATION Spec
CONSTANTS
  Proc = {p, q}
  p = p
  q = q
  KERNEL = kernel
  NK = 5
  NU = 4
  NV = 3
  PT = 3
  PG_SIZE = 9
  ARENA = 1
  block_size <- mcBlockSize
  PcbPages = 1
  Size = {2, 4, 9}
  MaxLive = 3
  Preempt = FALSE
  ForkHeap = FALSE
  ExecHeap = FALSE
  Segment <- mcSegment
INVARIANTS
  NoPanic
  BlocksDisjoint
  HeapAccounted
  PagesOnce
SYMMETRY mcSymmetry
CHECK_DEADLOCK FALSE
CONSTRAINT mcKernel
