SPECIFICATION Spec
CONSTANTS
  AC_MAX = 3
  NUM_TX_TOKENS = 4
  MAX_PEERS = 1
  MAX_TX_AGGREGATION = 2
  MAX_TX_PENDING_QLEN = 2
  UINT_MAX = 15
  Frame = {f1, f2, f3}
  f1 = f1
  f2 = f2
  f3 = f3
  Flow <- MCFlow
  Emergency = {}
  MAX_CALLS = 1
  MAX_PS_FRAMES = 0
  Failures = {}
  ApMode = TRUE
  Multicast = FALSE
  TwtEnabled = TRUE
  PeersLeave = TRUE
SYMMETRY FrameSymmetry
INVARIANTS
  TypeOK
  PoolExact
  AwaitsTxDone
PROPERTIES
  ImplementsTokens
