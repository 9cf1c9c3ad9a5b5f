SPECIFICATION Spec
CONSTANTS
  k1 = k1
  Calls = {c1}
  Key <- OneKey
  NoKey = NoKey
  NoResult = NoResult
  Pruners = {p1}
  MaxRequeues = 1
CHECK_DEADLOCK FALSE
PROPERTIES ActiveNeverPruned
