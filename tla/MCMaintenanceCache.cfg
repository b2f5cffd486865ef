SPECIFICATION Spec
CONSTANTS
  a = a
  b = b
  c1 = c1
  c2 = c2
  c3 = c3
  Keys = {a}
  Callers = {c1, c2}
  Asks <- OneKey
  Default = Default
  Simulated = Simulated
  TTL = 1
  Timeout = 2
  MaxTime = 5
  MaxChanges = 2
INVARIANTS
  TypeOK
PROPERTIES
  AnswersAreRecent
  DefaultOnlyOnFailure
  CacheGoesForward
  EveryCallReturns
\* After MaxTime nobody calls any more.
CHECK_DEADLOCK FALSE
