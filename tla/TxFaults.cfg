SPECIFICATION Spec
CONSTANTS
  AC_MAX = 2
  NUM_TX_TOKENS = 2
  MAX_PEERS = 1
  MAX_TX_AGGREGATION = 2
  MAX_TX_PENDING_QLEN = 2
  UINT_MAX = 15
  Frame = {f1, f2}
  f1 = f1
  f2 = f2
  f3 = f3
  Flow <- OneFlow
  Emergency = {f2}
  MAX_CALLS = 1
  MAX_PS_FRAMES = 1
  Failures = {"bmp", "map", "send"}
  ApMode = TRUE
  Multicast = TRUE
  TwtEnabled = TRUE
  PeersLeave = FALSE
INVARIANTS
  FreeDescClean
PROPERTIES
  PsTokenSpent
