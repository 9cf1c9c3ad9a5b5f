SPECIFICATION Spec
CONSTANTS
  Tasks = {t1}
  Workers = {w1, w2}
  NoWorker = NoWorker
  MaxRetries <- OneRetry
  AtMostOnce = {}
  Sync = {}
  Serves <- AllQueues
  Concurrency = 1
  MaxAsyncConcurrency = 1
  ClaimBatchSize = 1
  ResetChoices = {TRUE}
  Dependable = {}
  Slots = {1, 2}
  MaxRequeues = 1
CHECK_DEADLOCK FALSE
INVARIANTS ClaimMatchesStatus
