SPECIFICATION Spec
CONSTANTS
  c1 = c1
  c2 = c2
  c3 = c3
  m1 = m1
  m2 = m2
  m3 = m3
  t1 = t1
  t2 = t2
  Calls = {c1, c2, c3}
  Messages = {m1, m2, m3}
  Sessions = {1, 2, 3}
  TrxIds = {t1, t2}
  None = None
  Trx <- TwoPayments
  Amount <- Fives
  Balance <- Reported
  Fits <- FitsAll
  Claimed <- FirstClaimed
  Opening = 10
SYMMETRY Symmetry
INVARIANTS
  OneParsedRowPerTrx
  IInv
  NoWaitCycle
PROPERTIES
  ImplementsCommits
CHECK_DEADLOCK FALSE
