SPECIFICATION RpuMemSpec
CONSTANTS
  CHUNK = 2
  Sizes = {0, 2, 3}
  Features = {"this", "another"}
  Wanted = {"this"}
  MAX_LOADS = 2
  NUM_TX_TOKENS = 2
  MAX_TX_AGGREGATION = 2
  TX_BUF_HEADROOM = 4
  RX_BUF_HEADROOM = 1
  MAX_TX_LEN = 5
  RPU_PKTRAM_SIZE = 63
  NRF70_RX_NUM_BUFS = 3
  NRF70_RX_MAX_DATA_SIZE = 5
  Lens = {1, 4, 5, 6}
  Configs <- TwoConfigs
INVARIANTS
  LoadedRuns
  PatchUpToCut
  PlacesApart
  TokensMapped
CHECK_DEADLOCK FALSE
