CONSTANTS
  Size = 6
  Byte <- MCByte
  Contents <- MCContents
  Bits = 8
  BufLen = 5
  StrSize = 3
  CharMod = 3
SPECIFICATION LibSpec
INVARIANTS
  LibInv
  Moved
  InBuffer
  PrintsNumber
  InString
  Right
CHECK_DEADLOCK FALSE
