CONSTANTS
  ImageSize = 225
  START_ANNOUNCE_DURATION_MS = 300
  PACKET_REPEAT_COUNT = 2
  OutLimit = 2
  InLimit = 1
  StaleAcks = 1
  StaleParts = 2
  LOCAL_TX_ACK_TIMEOUT_MS = 250
  timeoutMs = 1000
  ImageSizes = {0, 100, 225, 448}
SPECIFICATION OtaSpec
INVARIANTS
  OtaTypeOK
  NeverAhead
  SuccessMeansDelivered
  FlasherAgrees
PROPERTIES
  ImplementsPlan
  BroadcastEnds
CHECK_DEADLOCK FALSE
