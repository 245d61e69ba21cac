\* All runs of the activity half, with two faults anywhere.
CONSTANTS
  e1 = e1
  e2 = e2
  d1 = d1
  d2 = d2
  d3 = d3
  p1 = p1
  p3 = p3
  NoDetails = NoDetails
  Entry <- MCEntry
  Doc <- MCDoc
  Path <- MCPath
  PathOf <- MCPathOf
  Log <- MCLog
  DocsOf <- MCDocsOf
  Verdicts <- MCVerdicts
  TxResults = {"nil", "error"}
  MaxFaults = 2
SPECIFICATION FairSpec
INVARIANTS
  TypeOK
  SuccessAccountsForAll
  CleanRunHasFiles
PROPERTIES
  FilesSettleOnce
  EventuallyFiled
