SPECIFICATION FairSpec
CONSTANTS
  Streams = {1, 2}
  Attempts = 2
  PostFrames = 1
  ReplyFrames = 3
  FrameLen = 2
  MaxRecord = 1
  SocketBuf = 3
  Window = 2
  MaxConcurrent = 1
  Transports = {TRUE, FALSE}
INVARIANTS TypeOK WireInOrder PrefaceFirst OwnOrLaterCallback ClosedMeansWhole WindowConserved
PROPERTIES RefusedOnlyBeforeAck PlainRunReturns PlainAnswered
CHECK_DEADLOCK FALSE
