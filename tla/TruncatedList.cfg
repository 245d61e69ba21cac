\* A known device, and one "Authentication Error".
CONSTANTS
  MaxApps = 1
  StoredSession = {"none"}
  StoredRefresh = {"live"}
  MaxTicks = 0
  MaxExpiries = 0
  MaxFaults = 0
  Pages = 2
  Details = 1
  MaxOdd = 1
  MaxOddApps = 1
SPECIFICATION Spec
INVARIANTS
  WholeList
