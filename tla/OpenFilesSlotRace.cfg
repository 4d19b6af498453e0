SPECIFICATION Spec
CONSTANTS
  Proc = {"p", "q"}
  Initial = {"p", "q"}
  Ino = {"i1", "i2"}
  Existing = {"i1", "i2"}
  Slot = {1, 2, 3, 4}
  Fd = {3, 4}
  Obj = {1, 2, 3}
  Flag = {"r", "w"}
  MaxWaiting = 2
  NONE = "none"
  KERNEL = "kernel"
INVARIANTS
  OwnSlot
