SPECIFICATION FairSpec
CONSTANTS
  Devices = {d1, d2}
  PairCalls = {p1, p2}
  Talking = {d1, d2}
  Requests = {r1}
  None = None
  Limit = 0
  StrikeLimit = 2
  MaxTokens = 2
  MaxOverlaps = 0
  MaxFaults = 1
PROPERTIES
  SilentGoesOffline
CHECK_DEADLOCK FALSE
