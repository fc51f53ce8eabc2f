SPECIFICATION Spec
CONSTANTS
  Requests <- MCFewRequests
  MaxSent = 2
INVARIANT
  ExpiredTimerFindsReply
CHECK_DEADLOCK FALSE
