CONSTANTS
  MaxArgs = 4
  LineLength = 6
  NULL = NULL
  Unset = Unset
  Busybox = Busybox
SPECIFICATION Spec
CHECK_DEADLOCK FALSE
INVARIANT StoresInArray
