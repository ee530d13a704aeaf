SPECIFICATION Spec
CONSTANTS
  Responses <- MCResponses
  Rounds = 3
  HeaderLen = 3
  DataLen = 2
  MaxWrite = 5
  BufLen = 20
  LineLen = 4
  BodySize = 2
  IntHalf = 8
  Tls = TRUE
  Signals = {"body", "chunk_data"}
  Endings = {TRUE, FALSE}
CHECK_DEADLOCK FALSE
INVARIANTS TypeOK BodyInOrder DoneMeansWhole KeepAlive HeaderTruth RequestWhole ResetToldOnce
PROPERTY ImplementsService
