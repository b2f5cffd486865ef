SPECIFICATION Spec
CONSTANTS
  a1 = a1
  a2 = a2
  p1 = p1
  p2 = p2
  None = None
  Asked = Asked
  Addresses = {a1}
  Payments = {p1, p2}
  Totals = {0, 1}
  ManualStatuses = {"draft"}
  MaxActs = 3
INVARIANTS
  TypeOK
  QuotedBeforePayment
  PayableIsOffered
PROPERTIES
  PaidOrderKeepsTotal
  OutcomeIsShown
\* A page may be left showing an order nobody acts on.
CHECK_DEADLOCK FALSE
