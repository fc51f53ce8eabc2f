SPECIFICATION Spec
CONSTANTS
  BlockSize = 4
  Bursts    <- MCBursts
  ReadSizes <- MCReadSizes
INVARIANTS
  TypeOK
  BytesReadInOrder
  FirstCallAllOrNothing
  NothingUnreadIsOverwritten
  FinalStatesAgree
