SPECIFICATION FairSpec
CONSTANTS
  Sizes = {1, 2, 3}
  HeaderLen = 2
  PtrLen = 1
  AckLen = 2
  SockBuf = 4
  Zero <- OnlyTx
  Notify <- Manual
  Timeout <- NoEnd
  Calls <- AnyCall
  MayDeinit = {}
  MaxFrames = 3
  MaxAcks = 2
CHECK_DEADLOCK FALSE
INVARIANTS InStep Delivery
PROPERTY IsAChannel
