SPECIFICATION FairSpec
CONSTANTS
  Sizes = {1, 2}
  HeaderLen = 2
  PtrLen = 1
  AckLen = 2
  SockBuf = 2
  Zero <- BothEnds
  Notify <- Auto
  Timeout <- NoEnd
  Calls <- AnyCall
  MayDeinit = {"tx", "rx"}
  MaxFrames = 3
  MaxAcks = 3
CHECK_DEADLOCK FALSE
INVARIANTS FramingInv AckInv TurnInv StopAndWait AckedIsTaken
           NoCircularWait ClosesInOrder
PROPERTY SendReturns
