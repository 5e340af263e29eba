SPECIFICATION Spec
CONSTANTS
  AC_MAX = 2
  NUM_TX_TOKENS = 2
  MAX_PEERS = 2
  MAX_TX_AGGREGATION = 2
  MAX_TX_PENDING_QLEN = 2
  UINT_MAX = 15
  Frame = {f1, f2, f3}
  f1 = f1
  f2 = f2
  f3 = f3
  Flow <- MCFlow
  Emergency = {f3}
  MAX_CALLS = 1
  MAX_PS_FRAMES = 1
  Failures = {}
  ApMode = TRUE
  Multicast = FALSE
  TwtEnabled = TRUE
  PeersLeave = FALSE
INVARIANTS
  AwaitsTxDone
