CONSTANTS
  UtilFiles = {util}
  InitFiles = {main}
  HelloFiles = {}
  Script = script
  Absent = Absent
  Argvs <- ProjectArgvs
  MaxClock = 4
  MaxConfig = 0
SPECIFICATION Spec
INVARIANTS ElfIsCurrent BuildInv
CHECK_DEADLOCK FALSE
