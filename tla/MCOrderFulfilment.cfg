SPECIFICATION Spec
CONSTANTS
  i1 = i1
  i2 = i2
  s1 = s1
  s2 = s2
  k1 = k1
  k2 = k2
  Items = {i1, i2}
  Shipments = {s1, s2}
  Workers = {k1}
  InputStatuses = {"shipped", "delivered", "exception", "returned", "cancelled"}
  AdminStatuses = {}
  MaxSuccesses = 1
  Overlap = FALSE
SYMMETRY ItemShipmentSymmetry
INVARIANTS
  PaidOutOnce
  OutcomeBacked
PROPERTIES
  TerminalStaysTerminal
  ConfirmationFollowsDelivery
\* Without a request the server is idle: a state with nothing left to do is no error.
CHECK_DEADLOCK FALSE
