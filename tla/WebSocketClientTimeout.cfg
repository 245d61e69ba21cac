\* One connection falls silent.
CONSTANTS
  MaxSubs = 1
  MaxConns = 2
  MaxInbox = 2
  MaxLost = 1
  MaxSilent = 1
  MaxOutstanding = 1
  CanExpire = TRUE
SPECIFICATION FairSpec
PROPERTIES
  TimeoutEndsOperation
CHECK_DEADLOCK FALSE
