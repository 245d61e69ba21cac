\* One application or two over one pair of token files, two pages and two details
\* requests, with every disturbance; messages nobody asked for with one application.
CONSTANTS
  MaxApps = 2
  StoredSession = {"none"}
  StoredRefresh = {"none", "live"}
  MaxTicks = 1
  MaxExpiries = 1
  MaxFaults = 1
  Pages = 2
  Details = 2
  MaxOdd = 1
  MaxOddApps = 1
SPECIFICATION FairSpec
INVARIANTS
  TypeOK
  AnswersAreOwn
  NoPageSkipped
  NoCodeForKnownDevice
PROPERTIES
  RunEnds
