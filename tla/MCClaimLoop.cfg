SPECIFICATION FairLoopSpec
CONSTANTS
  w1 = w1
  w2 = w2
  Workers = {w1, w2}
  NoWorker = NoWorker
  Jobs = {j1, j2}
  Unit = 2
  Policies <- SomePolicies
  MaxLimit = 2
  MaxLag = 1
  MaxAge = 3
  Once = {w2}
  Deployments <- SomeDeployments
  Concurrency = 1
  MaxAsyncConcurrency = 1
  ClaimBatchSize = 2
  Dependable = {w1}
CHECK_DEADLOCK FALSE
INVARIANTS LoopTypeOK NoLostWakeup
PROPERTIES OnceStopsWhenDone DueWorkRuns
