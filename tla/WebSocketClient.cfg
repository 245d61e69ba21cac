\* main.go: one subscription at a time; resets, silence and timeout. The program exits at its end.
CONSTANTS
  MaxSubs = 2
  MaxConns = 3
  MaxInbox = 2
  MaxLost = 1
  MaxSilent = 1
  MaxOutstanding = 1
  CanExpire = TRUE
SPECIFICATION FairSpec
INVARIANTS
  TypeOK
  OneReader
  NoNilConnection
  UnsubscribedAfterData
PROPERTIES
  KeepsPromises
  AnsweredIfSound
  EndsAfterTimeout
CHECK_DEADLOCK FALSE
