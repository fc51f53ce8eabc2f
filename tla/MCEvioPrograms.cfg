SPECIFICATION Spec
CONSTANTS
  Instances <- MCInstances
  Cap = 3
INVARIANTS
  TypeOK
  EverythingExchanged
PROPERTY
  JoinReturns
CHECK_DEADLOCK FALSE
