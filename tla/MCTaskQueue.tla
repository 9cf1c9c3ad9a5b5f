---------------------------- MODULE MCTaskQueue ----------------------------
(* Instances of TaskQueue for TLC. *)
EXTENDS TaskQueueProperties, TaskQueueRefinement, TLC

OneRetry  == [t \in Tasks |-> 1]
OnlyAtMostOnceRetries == [t \in Tasks |-> IF t \in AtMostOnce THEN 1 ELSE 0]
AllQueues == [w \in Workers |-> Tasks]

WorkerSymmetry == Permutations(Workers)

=============================================================================
