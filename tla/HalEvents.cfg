SPECIFICATION FairSpec
CONSTANTS
  NUM_BUFS = 2
  MAX_EVENTS = 2
  MAX_FRAGS = 2
  MAX_WDOGS = 1
  MAX_FAULTS = 1
  Failures <- AllFailures
  Deinit = TRUE
INVARIANTS
  TypeOK
  EventsIntact
  BufferOnce
  BuffersReturned
PROPERTIES
  NoCallbackAfterDeinit
  ImplementsChannel
  EventuallyDelivered
\* The system stops when the device has been removed.
CHECK_DEADLOCK FALSE
