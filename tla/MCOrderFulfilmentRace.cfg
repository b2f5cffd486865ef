SPECIFICATION Spec
CONSTANTS
  i1 = i1
  i2 = i2
  s1 = s1
  s2 = s2
  k1 = k1
  k2 = k2
  Items = {i1}
  Shipments = {s1, s2}
  Workers = {k1, k2}
  InputStatuses = {"delivered"}
  AdminStatuses = {"completed"}
  MaxSuccesses = 1
  Overlap = TRUE
SYMMETRY RaceSymmetry
INVARIANTS
  TypeOK
  SettledWasPaid
  DeliveryFollowsShipments
PROPERTIES
  DecisionFlow
\* Without a request the server is idle: a state with nothing left to do is no error.
CHECK_DEADLOCK FALSE
