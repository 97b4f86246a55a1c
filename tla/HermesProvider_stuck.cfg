SPECIFICATION Spec
CONSTANTS
  Session = {s1}
  Tool = {t1}
  MaxTurns = 1
  NULL = NULL
PROPERTY ShutdownReturns
CHECK_DEADLOCK FALSE
