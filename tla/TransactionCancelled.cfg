SPECIFICATION Spec
CONSTANTS
  r1 = r1
  r2 = r2
  Requests <- TwoRequests
  MaxRevision = 5
INVARIANTS
  CancelledMeansUnclaimed
CHECK_DEADLOCK FALSE
