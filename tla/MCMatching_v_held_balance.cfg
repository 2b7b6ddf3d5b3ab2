SPECIFICATION Spec
CONSTANTS
  bkash = bkash
  p1 = p1
  alice = alice
  t1 = t1
  t2 = t2
  m1 = m1
  m2 = m2
  m3 = m3
  m4 = m4
  Sessions = {s1, s2}
  Messages = {m1, m2}
  Providers = {bkash}
  Profiles = {p1}
  Senders = {alice}
  TrxIds = {t1, t2}
  EmptyTrx = EmptyTrx
  None = None
  Content <- WithBalances
  Order <- SameOrders
  OpeningBalance <- OpeningTen
  BalanceVerification <- Verified
  AmountTolerance = 0
  AutoAcceptLateMatch = {FALSE}
  ClaimWindow = 1
  ClaimSlack = 1
  LateGrace = 1
  SessionTTL = 1
  MaxTime = 0
  MaxCalls = 1
  MaxWork = 2
SYMMETRY Symmetry
PROPERTIES
  HeldRetryCredits
