SPECIFICATION Spec
CONSTANTS
  Sizes = {1, 2}
  HeaderLen = 2
  PtrLen = 1
  AckLen = 1
  SockBuf = 2
  Zero <- NoEnd
  Notify <- NoNotify
  Timeout <- OnlyRx
  Calls <- OneWay
  MayDeinit = {}
  MaxFrames = 2
  MaxAcks = 1
CHECK_DEADLOCK FALSE
INVARIANT Delivery
