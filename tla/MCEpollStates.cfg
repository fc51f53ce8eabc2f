SPECIFICATION Spec
CONSTANTS
  Scripts <- MCScripts
  SocketScripts <- MCSocketScripts
  PipeCap = 3
  Chunk = 2
INVARIANTS
  TypeOK
  NobodySleepsForNothing
  MainRunsAlone
PROPERTIES
  StepReturns
  LoopExitIsJoined
CHECK_DEADLOCK FALSE
