SPECIFICATION FairSpec
CONSTANTS
  m1 = m1
  m2 = m2
  n1 = n1
  n2 = n2
  bkash = bkash
  personal = personal
  agent = agent
  Merchants <- MCMerchants
  Numbers = {n1, n2}
  Providers = {bkash}
  AccountTypes = {personal, agent}
  Requests <- MCRequests
  Matches = {c1, c2}
  None = None
  Limit = 1
  MaxVerifications = 2
  MaxOverlaps = 1
  MaxFaults = 1
INVARIANTS
  IInv
  VerifiedHasProfile
  ProfileAccounted
  LimitAccounted
PROPERTIES
  ToldOnce
  Concluded
CHECK_DEADLOCK FALSE
