CONSTANTS
  Modulus = 8
  Entries = 2
  CqEntries = 4
  MaxInflight = 2
  Sqe = {"a", "b"}
  NoSqe = NoSqe
  Res = {0}
  NoCqe = NoCqe
SPECIFICATION UringSpec
INVARIANTS UringTypeOK SqWindow KernelReadsFilled SubmitsWhatIsThere CqWindow
PROPERTY ImplementsChannel
CHECK_DEADLOCK FALSE
