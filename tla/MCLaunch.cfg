CONSTANTS
  MaxFd = 8
  MaxPids = 3
  FileSize = 2
  BufSize = 3
  MaxLen = 2
  MaxItems = 3
SPECIFICATION FairSpec
INVARIANTS
  NoOwnFailure
  InitDescriptors
  ProgramEnvironment
  StrayHasNoRing
  InOrder
  PrintsAll
  InitInv
PROPERTIES
  ImplementsChild
  Returns
CHECK_DEADLOCK FALSE
