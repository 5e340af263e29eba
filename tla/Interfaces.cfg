SPECIFICATION Spec
CONSTANTS
  Stations = {a, b}
  IfTypes = {"STATION", "AP"}
  RawModes = {"STA_TX_INJECTOR"}
  MAX_NUM_VIFS = 2
  MAX_NUM_STAS = 0
  MAX_NUM_APS = 0
  MAX_PEERS = 1
  MAX_ADDS = 2
  MAX_EVENTS = 1
  MAX_CHANGES = 2
SYMMETRY Symmetry
INVARIANTS
  InterfacesAgree
  StationsAgree
