SPECIFICATION TimelySpec
CONSTANTS
  Sizes = {0, 1, 3}
  HeaderLen = 2
  PtrLen = 1
  AckLen = 1
  SockBuf = 3
  Zero <- NoEnd
  Notify <- NoNotify
  Timeout <- BothEnds
  Calls <- Duplex
  MayDeinit = {"tx", "rx"}
  MaxFrames = 3
  MaxAcks = 1
CHECK_DEADLOCK FALSE
INVARIANTS TypeOK Delivery InStep FramingInv DrainedAtEof
