SPECIFICATION Spec
CONSTANTS
  Responses <- MCShort
  Rounds = 1
  HeaderLen = 3
  DataLen = 2
  MaxWrite = 2
  BufLen = 20
  LineLen = 4
  BodySize = 2
  IntHalf = 8
  Tls = TRUE
  Signals = {}
  Endings = {}
CHECK_DEADLOCK FALSE
INVARIANT RequestWhole
