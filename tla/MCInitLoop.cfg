CONSTANTS
  Modulus = 6
  Entries = 3
  CqEntries = 3
  MaxInflight = 2
  Sqe = {"console_read", "signal", "other"}
  NoSqe = NoSqe
  Res = {"full", "short", "error", "line", "no_newline", "eof"}
  NoCqe = NoCqe
  NULL = NULL
SPECIFICATION Spec
INVARIANTS TypeOK NeverFaults ListensOnce BufferExclusive CqeHeld ListenInv
PROPERTY UsesRing
CHECK_DEADLOCK FALSE
