SPECIFICATION Spec
CONSTANTS
  Name = {n1, n2}
  n1 = n1
  n2 = n2
  NInode = 4
  NBlock = 6
  PerSec = 4
  Direct = 1
  Indirect = 1
  Path <- mcPath3
INVARIANTS
  TreeWellFormed
  SizeCountsEntries
  BlocksAccounted
  SearchCorrect
  GetcwdCorrect
PROPERTIES
  ImplementsTree
SYMMETRY mcSymmetry
