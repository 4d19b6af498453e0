CONSTANTS
  idle_thread = idle
  main_thread = main
  init_thread = init
  Thread = {idle, main, init, p}
  Proc = {p}
  priority <- mcPriority
  channel_lock = channel_lock
  disk_done = disk_done
  Lock = {channel_lock}
  Sema = {disk_done}
  NULL = NULL
  max_lba = 2
  SecsPerCmd = 2
  MainEnd = {"spin", "block"}
  time_limit_ms = 3
  MaxSecs = 3
SPECIFICATION Spec
INVARIANTS
  ChannelExclusive
  TransferIsMine
  RequestComplete
PROPERTIES
  OperationsFinish
  ReadyRunsDuringBoot
