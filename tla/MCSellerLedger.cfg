SPECIFICATION Spec
CONSTANTS
  s1 = s1
  s2 = s2
  o1 = o1
  w1 = w1
  w2 = w2
  k1 = k1
  k2 = k2
  None = None
  Sellers = {s1}
  Orders = {o1}
  Withdrawals = {}
  Workers = {k1, k2}
  Amounts = {1, 2, 3}
  SellerOf <- OwnedByFirst
  Handles <- AllHandled
  MaxEntries = 2
SYMMETRY WorkerSymmetry
INVARIANTS
  TypeOK
  NeverOverdrawn
  BalanceIsLastEntry
  TranchesTelescope
  ReleasedEqualsCredits
PROPERTIES
  FinalizedStaysFinal
\* Without a request the server is idle: a state with nothing left to do is no error.
CHECK_DEADLOCK FALSE
