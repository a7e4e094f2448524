CONSTANTS
  NClients = 3
  MAX_TIMEOUT = 3
SPECIFICATION FairArbSpec
INVARIANTS BusyIsOwners ReadyIsExclusive
PROPERTY LineNotHeldSilently
