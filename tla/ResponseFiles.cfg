\* Four transactions on two pages and one activity; two failures and an odd answer anywhere.
SPECIFICATION FairSpec
CONSTANTS
  Timelines <- MCTimelines
  Longest <- MCLongest
  Bare <- MCBare
  Blocked <- MCBlocked
  Forgiving = {"timelineTransactions"}
  PageSize = 2
  MaxPage = 6
  MaxFaults = 2
  MaxOdd = 1
INVARIANTS
  TypeOK
  CompleteRecordingReplays
  ReplaySound
PROPERTIES
  EventuallyReplayed
