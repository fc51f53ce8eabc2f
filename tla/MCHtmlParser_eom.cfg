SPECIFICATION Spec
CONSTANT
  MaxLength = 6
INVARIANT
  EomMeansMatch
CHECK_DEADLOCK FALSE
