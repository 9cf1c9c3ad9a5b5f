SPECIFICATION OrderlySpec
CONSTANTS
  Tasks = {t1}
  Workers = {w1, w2}
  NoWorker = NoWorker
  MaxRetries <- OneRetry
  AtMostOnce = {}
  Sync = {t1}
  Serves <- AllQueues
  Concurrency = 1
  MaxAsyncConcurrency = 1
  ClaimBatchSize = 1
  ResetChoices = {TRUE, FALSE}
  Dependable = {}
  Slots = {1, 2, 3}
  MaxRequeues = 1
CHECK_DEADLOCK FALSE
SYMMETRY WorkerSymmetry
INVARIANTS TypeOK OnlyNewestClaimOwns ClaimMatchesStatus RetryBudget
PROPERTIES TerminalIsFinal ImplementsTaskLife
