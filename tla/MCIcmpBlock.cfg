CONSTANTS
  HeaderConfig = {"ETH", "IP"}
  IN_DLY = 3
  OUT_DLY = 0
  PAYLOAD_MAX_LEN = 10
  Stations = {"server", "other"}
  RxFrames <- PingFrames
  FifoDepth = 4
SPECIFICATION FairIcmpSpec
INVARIANTS UdpPayloadDelivered PingEchoed
CONSTRAINT OnePingAtATime
PROPERTY PingIsAnswered
