CONSTANTS
  Modulus = 6
  Entries = 3
  CqEntries = 3
  MaxInflight = 1
  Sqe = {"console_read", "signal", "other"}
  NoSqe = NoSqe
  Res = {"full", "short", "error", "line", "no_newline", "eof"}
  NoCqe = NoCqe
  NULL = NULL
SPECIFICATION FairSpec
PROPERTIES PromptReturns SignalsRead ForksOneChild
CHECK_DEADLOCK FALSE
