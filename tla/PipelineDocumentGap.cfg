\* Documents with paths of their own; are they all there after a clean run?
CONSTANTS
  t1 = t1
  t2 = t2
  d1 = d1
  d2 = d2
  d3 = d3
  p1 = p1
  p2 = p2
  p3 = p3
  NoDetails = NoDetails
  Tx <- MCTx
  Doc <- MCDoc
  Path <- MCPath
  PathOf <- MCOwnPaths
  Timeline <- MCTimeline
  DocsOf <- MCDocsOf
  PersistentDB = TRUE
  Verdicts <- MCNil
  MaxFaults = 2
SPECIFICATION Spec
INVARIANTS
  CleanRunHasDocuments
