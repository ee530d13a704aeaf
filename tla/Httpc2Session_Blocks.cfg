SPECIFICATION FairSpec
CONSTANTS
  Streams = {1, 2}
  Attempts = 1
  PostFrames = 1
  ReplyFrames = 2
  FrameLen = 2
  MaxRecord = 1
  SocketBuf = 3
  Window = 2
  MaxConcurrent = 1
  Transports = {TRUE}
PROPERTY RunReturns
CHECK_DEADLOCK FALSE
