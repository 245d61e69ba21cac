\* One subscription, one connection reset.
CONSTANTS
  MaxSubs = 1
  MaxConns = 2
  MaxInbox = 2
  MaxLost = 1
  MaxSilent = 0
  MaxOutstanding = 1
  CanExpire = FALSE
SPECIFICATION FairSpec
PROPERTIES
  EverySubscriptionAnswered
CHECK_DEADLOCK FALSE
