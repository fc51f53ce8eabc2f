SPECIFICATION Spec
CONSTANTS
  Old = 5
  Writes <- MCWrites
INVARIANTS
  TypeOK
  ResetSeenIffLoaded
  DataSizeIsRight
