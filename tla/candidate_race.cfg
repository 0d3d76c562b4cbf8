SPECIFICATION FairSpec
CONSTANTS
  Caller = {a, b}
  Plan = {p1, p2}
  p1 = p1
  p2 = p2
  Signer = {s1, s2}
  None = None
  Documents <- MCDocuments
  Chunks <- MCChunks
  Batches <- MCBatches
  MaxRetries = 1
  PageSize = 2
  MaxFaults = 1
  MaxCalls = 1
  MaxRecords = 2
  MaxBytes = 9
  MaxDocument = 7
  BaseSize = 1
INVARIANTS CreatedOnce
PROPERTIES ImplementsCandidate ReplaySucceeds
CHECK_DEADLOCK FALSE
