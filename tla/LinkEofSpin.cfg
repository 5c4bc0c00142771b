SPECIFICATION FairSpec
CONSTANTS
  Sizes = {1}
  HeaderLen = 1
  PtrLen = 1
  AckLen = 1
  SockBuf = 2
  Zero <- NoEnd
  Notify <- NoNotify
  Timeout <- OnlyRx
  Calls <- OneWay
  MayDeinit = {"tx"}
  MaxFrames = 1
  MaxAcks = 1
CHECK_DEADLOCK FALSE
PROPERTY TimedCallsReturn
