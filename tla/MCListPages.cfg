SPECIFICATION Spec
CONSTANTS
  None = None
  Rows = {1, 2}
  Hits = {2}
  Kinds <- AllLists
  Slots = {1, 2}
  MaxPage = 2
  MaxOps = 2
  MaxActs = 3
INVARIANTS
  RowsAnswerQuery
  RemovedIsGone
PROPERTIES
  LoadingEnds
\* A page at rest is left alone once the user has done MaxActs things.
CHECK_DEADLOCK FALSE
