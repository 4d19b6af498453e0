SPECIFICATION Spec
CONSTANTS
  Proc = {p, q}
  p = p
  q = q
  KERNEL = kernel
  NK = 7
  NU = 4
  NV = 3
  PT = 2
  PG_SIZE = 9
  ARENA = 1
  block_size <- mcBlockSize
  PcbPages = 1
  Size = {2, 9}
  MaxLive = 2
  Preempt = FALSE
  ForkHeap = FALSE
  ExecHeap = FALSE
  Segment <- mcSegment
INVARIANTS
  NoPanic
  BlocksDisjoint
  HeapAccounted
  PagesOnce
SYMMETRY mcSymmetry
CHECK_DEADLOCK FALSE
CONSTRAINT mcKernel
