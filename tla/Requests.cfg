SPECIFICATION Spec
CONSTANTS
  Modes = {"SYS", "RT", "ORT"}
  Countries = {"DE", "US"}
  Patience = 2
  MAX_CALLS = 2
INVARIANTS
  AnswersMatch
  NothingLeft
PROPERTIES
  Returns
\* The bound on requests ends every behaviour.
CHECK_DEADLOCK FALSE
