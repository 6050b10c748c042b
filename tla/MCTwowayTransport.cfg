CONSTANTS
  OutLimit = 2
  InLimit = 3
  StaleAcks = 0
  StaleParts = 0
  Traffic <- MCTraffic
  MAGIC_PIECES = 1
  META_PIECES = 2
  MAX_PIECES = 3
  PacketUnits = 3
  StreamLimit = 5
  MaxSends = 2
SPECIFICATION FairSpec
INVARIANTS
  AckNotMissed
  NoSurplusReceipt
  LogExact
PROPERTIES
  ShutdownCompletes
CHECK_DEADLOCK FALSE
