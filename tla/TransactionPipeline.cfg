\* All runs of the pipeline, with two faults anywhere.
CONSTANTS
  t1 = t1
  t2 = t2
  d1 = d1
  d2 = d2
  d3 = d3
  p1 = p1
  p2 = p2
  p3 = p3
  NoDetails = NoDetails
  Tx <- MCTx
  Doc <- MCDoc
  Path <- MCPath
  PathOf <- MCSharedPath
  Timeline <- MCTimeline
  DocsOf <- MCDocsOf
  PersistentDB = TRUE
  Verdicts <- MCVerdicts
  MaxFaults = 2
SPECIFICATION FairSpec
INVARIANTS
  TypeOK
  NoDuplicateRows
  NoRowWithoutHeader
  RowsBackedByDB
  RunIsChronological
  SuccessAccountsForAll
  NoSilentGap
  NoFaultNoGap
PROPERTIES
  LedgerSpec
  EventuallyRecorded
