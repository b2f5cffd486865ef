SPECIFICATION Spec
CONSTANTS
  a = a
  b = b
  None = None
  Orders = {a, b}
  Screens <- AllScreens
  MaxActs = 4
  MaxUnderWay = 1
  MaxFailures = 1
SYMMETRY OrderSymmetry
INVARIANTS
  OperationsHitTheirOrder
  ShowsWhatWasSaved
CHECK_DEADLOCK FALSE
