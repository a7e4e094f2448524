CONSTANTS
  HeaderConfig = {"ETH", "IP", "UDP"}
  IN_DLY = 3
  OUT_DLY = 0
  PAYLOAD_MAX_LEN = 6
  MaxUsed = 7
  MaxTaken = 13
SPECIFICATION FairStreamSpec
INVARIANT ChecksumOfThisHeader
PROPERTIES WholeFrames FrameEnds
