SPECIFICATION FairSpec
CONSTANTS
  c1 = c1
  c2 = c2
  Callers = {c1, c2}
  NUM_CMD_BUFS = 1
  NUM_EVENT_BUFS = 1
  MAX_CMDS = 2
  MAX_FRAGS = 2
  MAX_DATA = 1
  MAX_FAULTS = 1
  Failures <- AllFailures
INVARIANTS
  TypeOK
  WholeUnlessDropped
  BuffersKept
  Announced
PROPERTIES
  CommandsInOrder
  NobodyStuck
\* The callers send a bounded number of commands.
CHECK_DEADLOCK FALSE
