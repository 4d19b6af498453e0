SPECIFICATION Spec
CONSTANTS
  Name = {n1, n2, n3}
  n1 = n1
  n2 = n2
  n3 = n3
  NInode = 5
  NBlock = 7
  PerSec = 4
  Direct = 2
  Indirect = 1
  Path <- mcPath1
INVARIANT DeleteFindsOne
