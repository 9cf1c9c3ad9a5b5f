SPECIFICATION Spec
CONSTANTS
  s1 = s1
  hourly = hourly
  urgent = urgent
  plain = plain
  Schedules = {s1}
  Workers = {w1, w2}
  NoWorker = NoWorker
  NoSchedule = NoSchedule
  Syncers = {d1}
  Declarations = {hourly, plain}
  CatchesUp = {hourly}
  Undeclared = Undeclared
  Releases <- EitherWay
  ClaimBatchSize = 2
  Dependable = {w1}
  MaxOccurrence = 1
CHECK_DEADLOCK FALSE
INVARIANTS NoDoubleFire
