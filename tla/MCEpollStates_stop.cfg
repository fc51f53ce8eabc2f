SPECIFICATION Spec
CONSTANTS
  Scripts <- MCMain
  SocketScripts = {}
  PipeCap = 3
  Chunk = 2
PROPERTY
  StopLetsThreadExit
CHECK_DEADLOCK FALSE
