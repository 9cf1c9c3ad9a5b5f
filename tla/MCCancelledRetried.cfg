SPECIFICATION Spec
CONSTANTS
  Tasks = {t1}
  Workers = {w1, w2}
  NoWorker = NoWorker
  MaxRetries <- OneRetry
  AtMostOnce = {}
  Sync = {t1}
  Serves <- AllQueues
  Concurrency = 1
  MaxAsyncConcurrency = 1
  ClaimBatchSize = 1
  ResetChoices = {FALSE}
  Dependable = {}
  Slots = {1, 2}
  MaxRequeues = 0
CHECK_DEADLOCK FALSE
PROPERTIES CancelledNeverRetried
