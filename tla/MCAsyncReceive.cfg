CONSTANTS
  MaxThreads = 2
  Ports = {1, 2}
  NPix = 3
  MaxWords = 4
  PacketWords = {2}
  Garbage = 7
  RcvBuf = 1
SPECIFICATION FairAsyncSpec
INVARIANTS ArgsOutliveThread DestructorIsEnough HeaderAfterImage
PROPERTIES CloseEnds ImageEnds
CHECK_DEADLOCK FALSE
