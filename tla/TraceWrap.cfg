CONSTANTS
  Swarm <- MCSwarm
  DRONE_NUM = 2
  search_lines = 3
  MaxMessages = 21
  MaxFaults = 2
  WRAP = 4
  Sources = {1, 2}
  Steps <- MCSteps
  HighBits = {0, 1}
  MaxRecords = 5
  TICK = 2
  LineSteps = {0, 1, 2, 3}
  Unset = {0, 7}
  MaxLines = 5
SPECIFICATION TraceSpec
INVARIANT
  SmallDecreaseIsNoWrap
CHECK_DEADLOCK FALSE
