SPECIFICATION Spec
CONSTANTS
  Devices = {d1, d2}
  PairCalls = {p1, p2}
  Talking = {d1}
  Requests = {r1, r2}
  None = None
  Limit = 1
  StrikeLimit = 2
  MaxTokens = 2
  MaxOverlaps = 1
  MaxFaults = 1
SYMMETRY Alike
INVARIANTS
  IInv
  TokenSpent
  LimitAccounted
  StruckOut
  AlertsAccounted
PROPERTIES
  DisabledHolds
CHECK_DEADLOCK FALSE
