SPECIFICATION FairSpec
CONSTANTS
  CfgWorkers = 2
  CfgQueueSize = 1
  LastChunk <- MCLastChunk
  EdgeStore = TRUE
INVARIANTS
  NeverAbandoned
  CountedAreStored
  FailureReported
  IInv
PROPERTIES
  QuietAfterReturn
  ImplementsIngest
  IngestReturns
