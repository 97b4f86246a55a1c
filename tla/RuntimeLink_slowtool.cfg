SPECIFICATION Spec
CONSTANTS
  MaxRequests = 2
  NULL = NULL
PROPERTY WritesSurviveTools
CHECK_DEADLOCK FALSE
