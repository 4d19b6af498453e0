CONSTANTS
  idle_thread = idle
  main_thread = main
  init_thread = init
  Thread = {idle, main, init, r1, r2}
  Reader = {r1, r2}
  priority <- mcPriority
  kbd_lock = kbd_lock
  disk_done = disk_done
  Lock = {kbd_lock}
  Sema = {disk_done}
  NULL = NULL
  Char = {x, y}
  bufsize = 3
  MaxCount = 2
SPECIFICATION Spec
INVARIANTS
  SleeperIsRecorded
PROPERTIES
  ImplementsQueue
  TypedIsRead
