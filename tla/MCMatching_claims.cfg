SPECIFICATION Spec
CONSTANTS
  bkash = bkash
  p1 = p1
  alice = alice
  t1 = t1
  t2 = t2
  m1 = m1
  m2 = m2
  m3 = m3
  m4 = m4
  Sessions = {s1, s2}
  Messages = {m1, m2}
  Providers = {bkash}
  Profiles = {p1}
  Senders = {alice}
  TrxIds = {t1, t2}
  EmptyTrx = EmptyTrx
  None = None
  Content <- TwoPayments
  Order <- SameOrders
  OpeningBalance <- UnknownBalance
  BalanceVerification <- NotVerified
  AmountTolerance = 0
  AutoAcceptLateMatch = {TRUE, FALSE}
  ClaimWindow = 1
  ClaimSlack = 1
  LateGrace = 1
  SessionTTL = 0
  MaxTime = 1
  MaxCalls = 1
  MaxWork = 2
SYMMETRY Symmetry
INVARIANTS
  IInv
  SettledOnce
  PaidInTime
PROPERTIES
  ImplementsSettlement
