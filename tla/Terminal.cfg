SPECIFICATION Spec
CONSTANTS
  Tap = {22, 38, 57, 14, 28, 58, 57397}
  Hold = {54, 57373}
  Together = FALSE
  Capacity = 1
  cmd_len = 5
  MAX_PATH_LEN = 5
  MAX_ARG_NR = 1
  Builtin <- mcBuiltin
INVARIANTS
  StatusMatchesKeys
  KeysDecoded
  LineEdited
  WordsParsed
CONSTRAINT mcReads
CHECK_DEADLOCK FALSE
