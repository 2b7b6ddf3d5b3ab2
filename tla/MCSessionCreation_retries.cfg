SPECIFICATION Spec
CONSTANTS
  shop = shop
  store = store
  k1 = k1
  b1 = b1
  b2 = b2
  Calls = {c1, c2, c3, c4}
  Merchants = {shop, store}
  Keys = {k1}
  Bodies = {b1, b2}
  None = None
  Asked <- SomeRequests
  Limit = 2
  MaxFaults = 1
  MaxExpiries = 1
SYMMETRY Symmetry
INVARIANTS
  IInv
  AnswersOwnSession
  RetryCreatesNothing
  ReplaysAgree
  LimitOnAnswered
CHECK_DEADLOCK FALSE
