CONSTANTS
  OutLimit = 2
  InLimit = 1
  StaleAcks = 0
  StaleParts = 0
  ACK_WAIT_TIMEOUT_MS = 150
  timeoutMs = 1000
  MaxCommands = 3
  maxAttempts = 2
  PayloadPackets = {0, 2}
SPECIFICATION Spec
INVARIANTS
  SentUnlessDisturbed
  ReuseOnlyAfterFailure
  SwallowedOnlyAfterFailure
PROPERTIES
  PromptReturns
CHECK_DEADLOCK FALSE
