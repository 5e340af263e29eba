SPECIFICATION Spec
CONSTANTS
  b1 = b1
  b2 = b2
  b3 = b3
  Bufs = {b1, b2, b3}
  f1 = f1
  f2 = f2
  Frames = {f1, f2}
  NULL = NULL
  num_bufs <- PoolSizes
  MAX_MSGS = 2
  MAX_INITS = 2
  Failures <- AllFailures
  MAX_FAULTS = 2
INVARIANTS
  BuffersExact
  RpuPlacesBacked
  DeliveredIntact
  NothingMissing
SYMMETRY Alike
\* The device stays removed in the end.
CHECK_DEADLOCK FALSE
