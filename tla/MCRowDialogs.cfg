SPECIFICATION Spec
CONSTANTS
  a = a
  b = b
  New = New
  Created = Created
  None = None
  Rows = {a, b}
  Kinds <- AllDialogs
  MaxActs = 5
INVARIANTS
  
  KnowsItsRow
  
\* A page at rest is left alone once MaxActs things have been done.
CHECK_DEADLOCK FALSE
