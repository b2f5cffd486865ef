SPECIFICATION Spec
CONSTANTS
  s = s
  t = t
  None = None
  Pages <- AllPages
  Businesses = {s, t}
  MaxDrafts = 2
  MaxItems = 2
  MaxFailures = 1
  MaxActs = 3
SYMMETRY BusinessSymmetry
INVARIANTS
  LinesAreShown
CHECK_DEADLOCK FALSE
