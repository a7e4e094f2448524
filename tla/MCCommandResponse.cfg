CONSTANTS
  NClients = 2
  MAX_TIMEOUT = 12
  Commands = {"data", "list"}
  Reports = {"ERR"}
  NListed = 2
  CmdFifoDepth = 2
  MaxBurst = 3
SPECIFICATION RspSpec
INVARIANTS EchoInOrder LostOnlyInLongBurst CommandReplyDelivered
