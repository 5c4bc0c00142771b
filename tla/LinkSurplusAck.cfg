SPECIFICATION Spec
CONSTANTS
  Sizes = {1}
  HeaderLen = 1
  PtrLen = 1
  AckLen = 1
  SockBuf = 2
  Zero <- BothEnds
  Notify <- Auto
  Timeout <- OnlyRx
  Calls <- OneWay
  MayDeinit = {}
  MaxFrames = 2
  MaxAcks = 4
CHECK_DEADLOCK FALSE
INVARIANT AckedIsTaken
