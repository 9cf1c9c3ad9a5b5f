SPECIFICATION Spec
CONSTANTS
  Tasks = {t1, t2}
  Workers = {w1, w2}
  NoWorker = NoWorker
  MaxRetries <- OnlyAtMostOnceRetries
  AtMostOnce = {t1}
  Sync = {t1, t2}
  Serves <- AllQueues
  Concurrency = 1
  MaxAsyncConcurrency = 1
  ClaimBatchSize = 2
  ResetChoices = {TRUE}
  Dependable = {}
  Slots = {1, 2}
  MaxRequeues = 0
CHECK_DEADLOCK FALSE
SYMMETRY WorkerSymmetry
INVARIANTS AtMostOnceNeverOverlaps ThreadsFit
