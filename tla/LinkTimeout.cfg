SPECIFICATION FairSpec
CONSTANTS
  Sizes = {0, 2}
  HeaderLen = 2
  PtrLen = 1
  AckLen = 1
  SockBuf = 2
  Zero <- NoEnd
  Notify <- Auto
  Timeout <- BothEnds
  Calls <- AnyCall
  MayDeinit = {}
  MaxFrames = 2
  MaxAcks = 2
CHECK_DEADLOCK FALSE
PROPERTY TimedCallsReturn
