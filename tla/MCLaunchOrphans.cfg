CONSTANTS
  MaxFd = 8
  MaxPids = 3
  FileSize = 2
  BufSize = 3
  MaxLen = 2
  MaxItems = 0
SPECIFICATION FairSpec
PROPERTY OrphansReaped
CHECK_DEADLOCK FALSE
