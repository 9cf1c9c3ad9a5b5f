SPECIFICATION FairSpec
CONSTANTS
  s1 = s1
  hourly = hourly
  urgent = urgent
  plain = plain
  Schedules = {s1}
  Workers = {w1, w2}
  NoWorker = NoWorker
  NoSchedule = NoSchedule
  Syncers = {d1, d2}
  Declarations = {hourly, urgent, plain}
  CatchesUp = {hourly, urgent}
  Undeclared = Undeclared
  Releases <- DroppedOrCaughtUp
  ClaimBatchSize = 2
  Dependable = {w1}
  MaxOccurrence = 1
CHECK_DEADLOCK FALSE
INVARIANTS FiresForward
PROPERTIES DueIsDispatched MissedIsCaughtUp
