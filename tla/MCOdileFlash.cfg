CONSTANTS
  Data <- MCData
  PageWords = 2
  SectorWords = 4
  FlashWords = 8
  WrDepth = 8
  RdLimit = 3
  Blank = Blank
  Corrupt = Corrupt
  Flash0 <- MCFlash0
  RcvBuf = 2
  Calls <- MCCalls
  MaxLost = 1
SPECIFICATION FairSpec
INVARIANTS WriteVerified CommandsCarriedOut FileIsFlash
PROPERTIES OthersUntouched CallEnds
CHECK_DEADLOCK FALSE
