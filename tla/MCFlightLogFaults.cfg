CONSTANTS
  d1 = d1
  d2 = d2
  d3 = d3
  Drones <- MCDrones
  Faulty <- MCDrones
  Log <- OneRow
  MAX_ROWS = 7000
  RANGING_PERIOD_RATE = 1
  PACKET_LOSS = FALSE
SPECIFICATION RemovalSpec
INVARIANTS
  OnePhaseAtATime
  TableConsistent
PROPERTIES
  RemovalCompletes
CHECK_DEADLOCK FALSE
