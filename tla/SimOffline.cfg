CONSTANTS
  d1 = d1
  d2 = d2
  d3 = d3
  Drones <- MCDrones
  Faulty = {d1, d2}
  Log <- TwoRows
  MAX_ROWS = 7000
  RANGING_PERIOD_RATE = 1
  PACKET_LOSS = FALSE
SPECIFICATION FairFaultSpec
PROPERTY OfflineDetected
CHECK_DEADLOCK FALSE
