SPECIFICATION FairSpec
CONSTANTS
  Sizes = {0, 1}
  HeaderLen = 2
  PtrLen = 1
  AckLen = 1
  SockBuf = 2
  Zero <- NoEnd
  Notify <- NoNotify
  Timeout <- NoEnd
  Calls <- OneWay
  MayDeinit = {}
  MaxFrames = 2
  MaxAcks = 1
CHECK_DEADLOCK FALSE
PROPERTY IsAChannel
