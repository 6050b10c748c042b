CONSTANTS
  d1 = d1
  d2 = d2
  d3 = d3
  Drones = {d1, d2, d3}
  MaxAttempts = 2
  CreateMayFail = TRUE
  LogMayBeMissing = TRUE
SPECIFICATION FairSpec
INVARIANTS
  HandOver
  TableExact
  CompleteUnlessOneEnded
PROPERTIES
  LogStarts
CHECK_DEADLOCK FALSE
