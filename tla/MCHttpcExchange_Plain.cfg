SPECIFICATION FairSpec
CONSTANTS
  Responses <- MCShort
  Rounds = 1
  HeaderLen = 3
  DataLen = 2
  MaxWrite = 5
  BufLen = 10
  LineLen = 4
  BodySize = 3
  IntHalf = 8
  Tls = FALSE
  Signals = {}
  Endings = {FALSE}
CHECK_DEADLOCK FALSE
INVARIANTS BodyInOrder DoneMeansWhole
PROPERTIES EveryCallReturns
