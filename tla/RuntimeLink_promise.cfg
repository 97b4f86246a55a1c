SPECIFICATION Spec
CONSTANTS
  MaxRequests = 3
  NULL = NULL
INVARIANT AnsweredInOrder
PROPERTIES LinkPromise EverySendSettles
CHECK_DEADLOCK FALSE
