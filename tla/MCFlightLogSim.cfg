CONSTANTS
  d1 = d1
  d2 = d2
  d3 = d3
  Drones <- MCDrones
  Log <- MCLog
  MAX_ROWS = 6
  RANGING_PERIOD_RATE = 2
  PACKET_LOSS = TRUE
SPECIFICATION FairSpec
INVARIANTS
  TypeOK
  Barriers
  DeliveredInOrder
  StampMatchesMessage
  CursorFindsRow
PROPERTIES
  ImplementsRounds
  SimulationEnds
