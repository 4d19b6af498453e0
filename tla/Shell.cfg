SPECIFICATION ShellSpec
CONSTANTS
  Name = {n1, n2}
  n1 = n1
  n2 = n2
  NInode = 4
  NBlock = 6
  PerSec = 4
  Direct = 1
  Indirect = 1
  Path <- mcPath
  Typed <- mcTyped
INVARIANTS
  TreeWellFormed
  BlocksAccounted
  WashedLeadsThere
  PwdIsCwd
  CommandsSafe
  ListingComplete
PROPERTIES
  ImplementsTree
SYMMETRY mcSymmetry
CHECK_DEADLOCK FALSE
CONSTRAINT mcGone
