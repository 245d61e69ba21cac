\* Any number of runs on a growing timeline of three items, one without details.
CONSTANTS
  N = 3
  Detailed = {1, 3}
  PageSize = 2
  MaxItems = 2
  MaxFaults = 3
SPECIFICATION FairSpec
INVARIANTS
  TypeOK
  SuccessSavesAll
PROPERTIES
  EventuallyHasDetails
