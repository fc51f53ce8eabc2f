SPECIFICATION FairSpec
CONSTANTS
  Requests <- MCRequests
  MaxSent = 3
INVARIANTS
  TypeOK
  RepliesMatchRequests
  NoReplyBeforeTimeout
  ClosesAtMustClose
PROPERTIES
  NothingWrittenAfterClose
  EveryRequestAnswered
  ClosedIsReleased
\* The connection may be idle, or closed.
CHECK_DEADLOCK FALSE
