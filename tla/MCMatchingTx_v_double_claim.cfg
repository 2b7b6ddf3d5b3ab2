SPECIFICATION Spec
CONSTANTS
  c1 = c1
  c2 = c2
  c3 = c3
  m1 = m1
  m2 = m2
  m3 = m3
  t1 = t1
  t2 = t2
  Calls = {c1, c2}
  Messages = {m1}
  Sessions = {1, 2}
  TrxIds = {t1, t2}
  None = None
  Trx <- OnePayment
  Amount <- Fives
  Balance <- Unreported
  Fits <- FitsAll
  Claimed <- FirstClaimed
  Opening = 10
SYMMETRY Symmetry
INVARIANTS
  SettledOnce
CHECK_DEADLOCK FALSE
