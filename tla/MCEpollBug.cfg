SPECIFICATION FairSpec
CONSTANTS
  Burst = 4
  ReadLength = 2
  ALen <- MCALen
  BufSize = 4
  SndBuf = 2
  RcvBuf = 2
INVARIANTS
  TypeOK
  NoAssertFails
  WatchedCountExact
  OnlyOpenDescriptors
  ClientClosesLast
  BacklogFitsBuffer
  OutWatchedIffBacklog
PROPERTIES
  ImplementsPipe
  EventuallyFinished
