SPECIFICATION Spec
CONSTANTS
  irq = irq
  app = app
  Hosts = {irq, app}
  Irq = irq
  IDLE_TIMEOUT = 1
  WAKE_TIMEOUT = 1
  MIN_SLEEP = 1
  PS_ACTIVE_TIMEOUT = 3
  AGE_CAP = 3
  MAX_FAULTS = 1
INVARIANTS
  AccessAwake
  IdleIsArmed
PROPERTIES
  RecoveryJustified
\* A removed device is the end of it.
CHECK_DEADLOCK FALSE
