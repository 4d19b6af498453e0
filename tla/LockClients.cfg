CONSTANTS
  idle_thread = idle
  main_thread = main
  Thread = {idle, main, a, b}
  priority <- mcPriority
  Lock = {console_lock}
  Sema = {}
  NULL = NULL
  MaxNest = 2
SPECIFICATION Spec
INVARIANTS
  NoPanic
  NoLostWakeup
PROPERTY ImplementsMutex
SYMMETRY mcSymmetry
