CONSTANTS
  Ports = {1, 2}
  MAX_PACKET_LENGTH = 2
  IN_FIFO_STALE_THRESHOLD = 1
  DataDepth = 4
  InfoDepth = 2
  MaxWords = 4
  HeaderConfig = {"UDP"}
  IN_DLY = 3
  OUT_DLY = 0
  PAYLOAD_MAX_LEN = 7
SPECIFICATION FairBlockSpec
INVARIANTS EveryWordInOnePacket SentToItsPort
PROPERTIES BlockImplementsBuffer EveryWordIsSent
