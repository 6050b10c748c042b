CONSTANTS
  MAX_MESSAGE_SIZE = 2
  STAMPS = 1
  RECEIVE_STAGING_SIZE = 4
  MAX_TRANSFER_SIZE = 1
  WRITE_TIMEOUT_LIMIT = 1
  Command = 2
  RecordLimits = {0, 1}
  Inputs <- MCInputs
  Invocations <- MCInvocations
  Swarm <- MCSwarm
  DRONE_NUM = 2
  search_lines = 3
  MaxMessages = 21
  MaxFaults = 2
  WRAP = 4
  Sources = {1, 2}
  Steps <- MCSteps
  HighBits = {0, 1}
  MaxRecords = 5
  TICK = 2
  LineSteps = {0, 1, 2, 3}
  Unset = {0, 7}
  MaxLines = 5
SPECIFICATION RecordSpec
INVARIANTS
  CaptureTypeOK
  BytesAccounted
  FileReparses
  NoFrameLost
  NothingLeaked
  SuccessMeansStored
  GroundControlFile
  RowsComplete
  RowsExact
  TimeLineExact
  TicksAhead
PROPERTIES
  ProgramEnds
CHECK_DEADLOCK FALSE
