SPECIFICATION Spec
CONSTANTS
  Tasks = {t1}
  Workers = {w1, w2}
  NoWorker = NoWorker
  MaxRetries <- OneRetry
  AtMostOnce = {}
  Sync = {}
  Serves <- AllQueues
  Concurrency = 1
  MaxAsyncConcurrency = 2
  ClaimBatchSize = 1
  ResetChoices = {FALSE}
  Dependable = {}
  Slots = {1, 2, 3}
  MaxRequeues = 1
CHECK_DEADLOCK FALSE
SYMMETRY WorkerSymmetry
INVARIANTS OnlyNewestClaimOwns ClaimMatchesStatus
PROPERTIES TerminalIsFinal ImplementsTaskLife
