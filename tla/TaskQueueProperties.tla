------------------------ MODULE TaskQueueProperties ------------------------
(***************************************************************************)
(* What the life of a task row promises.                                   *)
(***************************************************************************)
EXTENDS TaskQueue

\* A write of a claim carries (worker, attempt).  While the claim is under
\* way this pair matches the row only if no later claim of the task exists:
\* a worker that was presumed dead never changes newer work.
OnlyNewestClaimOwns ==
  \A t \in Tasks, s \in Slots :
    run[t][s].pc # "idle" /\ Owns(run[t][s], row[t]) => current[t] = s

\* A RUNNING row has an owner and a heartbeat that can grow old, or the
\* reaper would never see it; a READY row has neither, or a late write of its
\* last owner could still change it.
ClaimMatchesStatus ==
  \A t \in Tasks :
    /\ row[t].status = "RUNNING" => row[t].claimed_by # NoWorker /\ row[t].heartbeat # "none"
    /\ row[t].status \in {"absent", "READY"} =>
         row[t].claimed_by = NoWorker /\ row[t].heartbeat = "none"

\* MAX_RETRIES = n allows n + 1 attempts, and each requeue one more, whatever
\* crashes, reclaims, releases and late answers come between.
RetryBudget ==
  \A t \in Tasks : row[t].attempts <= MaxRetries[t] + 1 + requeues[t]

\* A task nobody cancelled or requeued is FAILED on a retryable error only after
\* its last attempt: no failure path gives up early.  (A requeued task may: its
\* worker can still remember the cancel request of an older claim.)
FailedMeansExhausted ==
  \A t \in Tasks :
    /\ row[t].status = "FAILED" /\ ~row[t].cancel_requested /\ requeues[t] = 0
    /\ \/ row[t].error = "error"
       \/ row[t].error \in {"timeout", "stale"} /\ t \notin AtMostOnce
    => row[t].attempts > MaxRetries[t]

\* The function of an at-most-once task never runs twice at the same time,
\* unless someone requeued it: neither a reclaim nor the retry of a timed-out
\* attempt starts it beside a thread that still runs it.
AtMostOnceNeverOverlaps ==
  \A t \in AtMostOnce :
    requeues[t] = 0 =>
      Cardinality({s \in Slots : \/ run[t][s].pc = "executing"
                                 \/ \E w \in Workers : <<t, s>> \in zombies[w]}) <= 1

\* Every sync function running in a worker has a thread: none waits in the
\* queue of the pool while its claim is held.
ThreadsFit ==
  \A w \in Workers :
    Cardinality(zombies[w] \cup {k \in RunsOf(w, {"executing"}) : k[1] \in Sync})
      <= Concurrency

\* A worker remembers a cancel request only while a claim of the task beats:
\* a memory left behind would make a later claim's failure final.
CancelMemoryIsBounded ==
  \A w \in Workers : \A t \in cancel_seen[w] :
    \E s \in Slots : run[t][s].worker = w /\ run[t][s].beating

\* SUCCESSFUL is for ever, and only a requeue leaves FAILED.
TerminalIsFinal ==
  [][\A t \in Tasks :
       /\ row[t].status = "SUCCESSFUL" => row'[t].status = "SUCCESSFUL"
       /\ row[t].status = "FAILED" =>
            row'[t].status = "FAILED" \/ requeues'[t] > requeues[t]]_vars

\* An enqueued task is in the end SUCCESSFUL or FAILED, as long as one worker
\* of its queue stays up: no crash, loss, cancel or lost race strands it.
EventuallyFinished ==
  \A t \in Tasks :
    row[t].status # "absent" ~> row[t].status \in {"SUCCESSFUL", "FAILED"}

\* api.py: a RUNNING task that is cancelled "is never retried".
CancelledNeverRetried ==
  [][\A t \in Tasks :
       row[t].status = "RUNNING" /\ row[t].cancel_requested =>
         row'[t].status # "READY" \/ row'[t].attempts < row[t].attempts]_vars

-----------------------------------------------------------------------------
(* What tokens need where attempts can go back.  Release and a resetting    *)
(* requeue make room for an attempt to be counted again, so neither may     *)
(* overtake an older claim.  The code does not check either condition: the  *)
(* first is a matter of milliseconds against STALE_RUNNING_TIMEOUT, five    *)
(* minutes by default, the second is up to the operator.                    *)

\* The row of a sync task is not stale before its claim, made by the same call
\* of claim, has read it back.
ReadBackInTime ==
  \A t \in Sync : GoStale(t) => \A s \in Slots : run[t][s].pc # "claimed"

\* A requeue that sets the attempts back finds no claim of the task under way.
ResetsAlone ==
  \A t \in Tasks :
    requeues'[t] # requeues[t] /\ row'[t].attempts < row[t].attempts =>
      \A s \in Slots : run[t][s].pc = "idle"

Orderly == ReadBackInTime /\ ResetsAlone

OrderlySpec == Init /\ [][Next /\ Orderly]_vars

=============================================================================
