CONSTANTS
  NFIFOS = 5
  Streams = {1, 4}
  FlagsOf <- BoardFlags
  payload_min_size = 2
  IN_FIFO_STALE_THRESHOLD = 1
  IN_FIFO_AFULL = 9
  NearFull = 1
  WriteEdges <- SlowFourth
  MaxWords = 5
  HeaderConfig = {"ETH", "UDP"}
  IN_DLY = 5
  OUT_DLY = 0
  PAYLOAD_MAX_LEN = 2
SPECIFICATION FairDataSpec
INVARIANTS SentFromItsFifo NoWordSkipped
PROPERTIES NoneLeftBehind
