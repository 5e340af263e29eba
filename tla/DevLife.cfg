SPECIFICATION Spec
CONSTANTS
  Modes = {"SYS", "RT", "ORT"}
  Buses = {"qspi", "spi", "pcie"}
INVARIANTS
  AllReturned
  OnlyLiveUsed
CHECK_DEADLOCK FALSE
