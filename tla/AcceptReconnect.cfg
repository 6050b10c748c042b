CONSTANTS
  d1 = d1
  d2 = d2
  d3 = d3
  Drones = {d1, d2}
  MaxAttempts = 2
  CreateMayFail = FALSE
  LogMayBeMissing = FALSE
SPECIFICATION Spec
INVARIANT AllDronesConnected
CHECK_DEADLOCK FALSE
