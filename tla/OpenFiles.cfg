SPECIFICATION Spec
CONSTANTS
  Proc = {"p", "c"}
  Initial = {"p"}
  Ino = {"i1", "i2"}
  Existing = {"i1"}
  Slot = {1, 2, 3}
  Fd = {3, 4}
  Obj = {1, 2, 3, 4, 5}
  Flag = {"r", "w"}
  MaxWaiting = 1
  NONE = "none"
  KERNEL = "kernel"
INVARIANTS
  CountMatchesTable
  OwnSlot
  SlotsCounted
