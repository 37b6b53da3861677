CONSTANTS
  Modulus = 8
  Entries = 4
  CqEntries = 4
  MaxInflight = 2
  Sqe = {"console_read", "signal", "other"}
  NoSqe = NoSqe
  Res = {"full", "short", "error", "line", "no_newline", "eof"}
  NoCqe = NoCqe
  NULL = NULL
SPECIFICATION ForkedSpec
INVARIANT ResultIsPosted
CHECK_DEADLOCK FALSE
