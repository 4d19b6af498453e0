SPECIFICATION Spec
CONSTANTS
  BYTE = 4
  btmp_bytes_len = 2
  Cnt = {1, 2, 3}
  After = {0, 1}
INVARIANTS
  ScanFindsFirstRun
  RunsDisjoint
