CONSTANTS
  HeaderConfig = {"ETH"}
  IN_DLY = 5
  OUT_DLY = 5
  PAYLOAD_MAX_LEN = 10
  Stations = {"server", "other"}
  RxFrames <- ArpFrames
  Server = "server"
  ARP_REQ_WAITTIME = 2
  CACHE_TIMEOUT = 1
SPECIFICATION FairArpSpec
INVARIANTS CacheIsServers ReplyNamesRequester
PROPERTY ArpIsSent
