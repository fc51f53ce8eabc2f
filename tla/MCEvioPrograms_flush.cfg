SPECIFICATION Spec
CONSTANTS
  Instances <- MCSocket
  Cap = 3
PROPERTY
  StopsAfterLastMessage
CHECK_DEADLOCK FALSE
