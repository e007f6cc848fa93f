CONSTANTS
  MaxString = 2
  MaxMsg = 12
  Request <- MCRequest
  Frame <- MCFrame
  Backlog = 1
  Timeout = 1
SPECIFICATION FairSpec
CHECK_DEADLOCK FALSE
PROPERTY HungAgentEnds
