CONSTANTS
  UtilFiles = {util}
  InitFiles = {main}
  HelloFiles = {hello}
  Script = script
  Absent = Absent
  Argvs <- KernelArgvs
  MaxClock = 1
  MaxConfig = 2
SPECIFICATION Spec
INVARIANTS NoReentry KernelFromSaved MenuFromSaved BuildInv
