SPECIFICATION Spec
CONSTANTS
  Workers = {w1, w2}
  NoWorker = NoWorker
  Jobs = {j1, j2}
  Unit = 2
  Policies <- SomeLimits
  MaxLimit = 2
  MaxLag = 2
  MaxAge = 6
CHECK_DEADLOCK FALSE
SYMMETRY AnyWorker
INVARIANTS RateHeld ConcurrencyHeld
