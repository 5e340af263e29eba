SPECIFICATION FairSpec
CONSTANTS
  AC_MAX = 2
  NUM_TX_TOKENS = 2
  MAX_PEERS = 2
  MAX_TX_AGGREGATION = 2
  MAX_TX_PENDING_QLEN = 3
  UINT_MAX = 15
  Frame = {f1, f2, f3}
  f1 = f1
  f2 = f2
  f3 = f3
  Flow <- MCFlow
  Emergency = {}
  MAX_CALLS = 1
  MAX_PS_FRAMES = 0
  Failures = {}
  ApMode = TRUE
  Multicast = FALSE
  TwtEnabled = FALSE
  PeersLeave = FALSE
INVARIANTS
  OneOwner
  TimExact
PROPERTIES
  AwakeServed
