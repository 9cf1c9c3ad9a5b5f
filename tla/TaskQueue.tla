----------------------------- MODULE TaskQueue -----------------------------
(***************************************************************************)
(* The life of a task row in werker: the PostgreSQL table that is both the *)
(* broker and the result store, the workers that claim rows and run them,  *)
(* the stale-claim reaper, and the cancel and requeue API.                 *)
(*                                                                         *)
(* Every action is one database transaction or one run of code between two *)
(* awaits of a worker's event loop.  A worker's claim loop is one process; *)
(* each claim it starts is another one (a "run"), with a pc of its own, so *)
(* the database may change under a run between any two of its steps.       *)
(***************************************************************************)
EXTENDS Integers, FiniteSets

CONSTANTS
  Tasks,                \* rows of the table
  Workers,              \* worker ids, never reused: make_worker_id
  NoWorker,             \* claimed_by = ""
  MaxRetries,           \* [Tasks -> Nat]: the row's max_retries
  AtMostOnce,           \* tasks with delivery_guarantee AT_MOST_ONCE
  Sync,                 \* tasks that need a thread: _needs_thread
  Serves,               \* [Workers -> SUBSET Tasks]: rows of its queues
  Concurrency,          \* threads of a worker's pool
  MaxAsyncConcurrency,  \* async tasks a worker runs at once
  ClaimBatchSize,       \* most rows of one claim, and of one reaper pass
  ResetChoices,         \* values of requeue's reset_attempts in use
  Dependable,           \* workers that neither crash nor shut down
  Slots,                \* bound: live claims of one task at a time
  MaxRequeues           \* bound: requeues of one task

ASSUME TaskAssumption ==
  /\ NoWorker \notin Workers
  /\ MaxRetries \in [Tasks -> Nat]
  /\ AtMostOnce \subseteq Tasks
  /\ Sync \subseteq Tasks
  /\ Serves \in [Workers -> SUBSET Tasks]
  /\ ResetChoices \subseteq BOOLEAN
  /\ Dependable \subseteq Workers
ASSUME BoundAssumption ==
  /\ Concurrency \in Nat /\ MaxAsyncConcurrency \in Nat /\ ClaimBatchSize \in Nat
  /\ Slots \subseteq Nat \ {0}
  /\ MaxRequeues \in Nat

VARIABLES
  row,          \* the table
  run,          \* run[t][s]: the claim of t held in slot s
  current,      \* current[t]: slot of t's newest claim (history variable)
  zombies,      \* zombies[w]: runs given up on whose thread still runs
  cancel_seen,  \* cancel_seen[w]: Worker._cancel_requested
  mode,         \* mode[w]: up, draining (shutdown requested) or down
  requeues      \* requeues[t]: bound, and which tasks an operator repeated

vars == <<row, run, current, zombies, cancel_seen, mode, requeues>>

-----------------------------------------------------------------------------
(* Rows.  heartbeat is last_heartbeat_at: NULL, recent, or older than       *)
(* STALE_RUNNING_TIMEOUT.  error is the kind of the entry of errors that    *)
(* made the row FAILED: "error" and "timeout" may be retried, "unlisted" is *)
(* an exception that @retry(retry_on=...) does not name, "stale" is the     *)
(* reaper's.  Entries of earlier attempts are left out.                     *)

Errors == {"none", "error", "unlisted", "timeout", "cancelled", "stale"}

Rows == [status: {"absent", "READY", "RUNNING", "SUCCESSFUL", "FAILED"},
         due: BOOLEAN, attempts: Nat, claimed_by: Workers \cup {NoWorker},
         heartbeat: {"none", "fresh", "stale"}, cancel_requested: BOOLEAN,
         error: Errors]

NoRow == [status |-> "absent", due |-> FALSE, attempts |-> 0,
          claimed_by |-> NoWorker, heartbeat |-> "none",
          cancel_requested |-> FALSE, error |-> "none"]

\* The columns ack clears: claimed_by, claimed_at, last_heartbeat_at.
Unclaimed(x) == [x EXCEPT !.claimed_by = NoWorker, !.heartbeat = "none"]

\* Where a started run waits, in the order of _run_claimed.
Inflight == {"starting", "loading", "executing", "succeeding", "failing",
             "nacking", "acking"}

Runs == [pc: {"idle", "claimed", "batched"} \cup Inflight,
         worker: Workers \cup {NoWorker}, attempt: Nat, error: Errors,
         retry: BOOLEAN, beating: BOOLEAN]

NoRun == [pc |-> "idle", worker |-> NoWorker, attempt |-> 0,
          error |-> "none", retry |-> FALSE, beating |-> FALSE]

TypeOK ==
  /\ row \in [Tasks -> Rows]
  /\ run \in [Tasks -> [Slots -> Runs]]
  /\ current \in [Tasks -> Slots \cup {0}]
  /\ zombies \in [Workers -> SUBSET (Tasks \X Slots)]
  /\ cancel_seen \in [Workers -> SUBSET Tasks]
  /\ mode \in [Workers -> {"up", "draining", "down"}]
  /\ requeues \in [Tasks -> 0..MaxRequeues]

Init ==
  /\ row = [t \in Tasks |-> NoRow]
  /\ run = [t \in Tasks |-> [s \in Slots |-> NoRun]]
  /\ current = [t \in Tasks |-> 0]
  /\ zombies = [w \in Workers |-> {}]
  /\ cancel_seen = [w \in Workers |-> {}]
  /\ mode = [w \in Workers |-> "up"]
  /\ requeues = [t \in Tasks |-> 0]

-----------------------------------------------------------------------------
(* Helpers                                                                  *)

Token(r) == <<r.worker, r.attempt>>

\* Faulty: a claim is known by its worker alone.
OwnsByWorker(r, x) == r.worker = x.claimed_by

\* The filter id, claimed_by, attempts that guards a worker's write.
Owns(r, x) == Token(r) = <<x.claimed_by, x.attempts>>

\* The same with status = RUNNING.
Holds(r, x) == x.status = "RUNNING" /\ Owns(r, x)

\* Faulty: one retry too many, and one too few.
OneMoreRetry(t, attempt) == attempt <= MaxRetries[t] + 1
OneRetryLess(t, attempt) == attempt < MaxRetries[t]

RetriesRemaining(t, attempt) == attempt <= MaxRetries[t]

RunsOf(w, pcs) ==
  {k \in Tasks \X Slots : run[k[1]][k[2]].worker = w /\ run[k[1]][k[2]].pc \in pcs}

SyncInflight(w) == {k \in RunsOf(w, Inflight) : k[1] \in Sync}

\* Faulty: the threads of timed-out tasks are forgotten.
SlotsWithoutAbandoned(w) == Concurrency - Cardinality(SyncInflight(w))

\* A timed-out run is counted twice until its failure is recorded: it is
\* still in _sync_inflight and its thread is already in _abandoned.
FreeSyncSlots(w) ==
  Concurrency - Cardinality(SyncInflight(w)) - Cardinality(zombies[w])

AvailableCapacity(w) ==
  FreeSyncSlots(w) + MaxAsyncConcurrency
    - Cardinality(RunsOf(w, Inflight) \ SyncInflight(w))

\* The claim loop is between its claim and the end of the batch.
HasBatch(w) == RunsOf(w, {"claimed", "batched"}) # {}

FreeSlots(t) ==
  {s \in Slots : run[t][s].pc = "idle" /\ \A w \in Workers : <<t, s>> \notin zombies[w]}

FreeSlot(t) == CHOOSE s \in FreeSlots(t) : TRUE

Due(w) == {t \in Serves[w] : /\ row[t].status = "READY" /\ row[t].due
                             /\ FreeSlots(t) # {}}

\* Faulty: the reaper looks at the heartbeat alone, or leaves cancelled rows.
StaleHeartbeats == {t \in Tasks : row[t].heartbeat = "stale"}
StaleUncancelled ==
  {t \in Tasks : /\ row[t].status = "RUNNING" /\ row[t].heartbeat = "stale"
                 /\ ~row[t].cancel_requested}

Stale == {t \in Tasks : row[t].status = "RUNNING" /\ row[t].heartbeat = "stale"}

\* Slot s of t takes the run r; every other claim is left alone.
SetRun(t, s, r) == run' = [run EXCEPT ![t][s] = r]

Goto(t, s, pc) == SetRun(t, s, [run[t][s] EXCEPT !.pc = pc])

\* Faulty: the cancel request is never forgotten.
EndRemembering(t, s) == SetRun(t, s, NoRun) /\ UNCHANGED cancel_seen

\* _run_claimed returns.  Its finally block, entered once the task was
\* loaded, stops the heartbeat and forgets the cancel request.
End(t, s) ==
  /\ SetRun(t, s, NoRun)
  /\ cancel_seen' = IF run[t][s].beating
                    THEN [cancel_seen EXCEPT ![run[t][s].worker] = @ \ {t}]
                    ELSE cancel_seen

-----------------------------------------------------------------------------
(* Producers and the management API                                         *)

\* ResultStore.create and Broker.enqueue, in one transaction.
Enqueue(t, due) ==
  /\ row[t].status = "absent"
  /\ row' = [row EXCEPT ![t].status = "READY", ![t].due = due]
  /\ UNCHANGED <<run, current, zombies, cancel_seen, mode, requeues>>

CancelledRow(x) ==
  CASE x.status = "READY"   -> [x EXCEPT !.status = "FAILED", !.error = "cancelled"]
    [] x.status = "RUNNING" -> [x EXCEPT !.cancel_requested = TRUE]

Cancel(t) ==
  /\ row[t].status \in {"READY", "RUNNING"}
  /\ row' = [row EXCEPT ![t] = CancelledRow(@)]
  /\ UNCHANGED <<run, current, zombies, cancel_seen, mode, requeues>>

RequeuedRow(x, reset) ==
  [Unclaimed(x) EXCEPT !.status = "READY", !.due = TRUE, !.cancel_requested = FALSE,
                       !.error = "none", !.attempts = IF reset THEN 0 ELSE @]

Requeue(t, reset) ==
  /\ row[t].status = "FAILED"
  /\ requeues[t] < MaxRequeues
  /\ row' = [row EXCEPT ![t] = RequeuedRow(@, reset)]
  /\ requeues' = [requeues EXCEPT ![t] = @ + 1]
  /\ UNCHANGED <<run, current, zombies, cancel_seen, mode>>

-----------------------------------------------------------------------------
(* The claim loop of worker w                                               *)

ClaimedRow(x, w) ==
  [x EXCEPT !.status = "RUNNING", !.claimed_by = w, !.heartbeat = "fresh",
            !.attempts = @ + 1]

\* PostgresBroker.claim up to its commit.  Which due rows it takes depends on
\* priority, rate limits and rows locked by others (SKIP LOCKED): any of them.
Claim(w, S) ==
  /\ mode[w] = "up" /\ ~HasBatch(w)
  /\ S # {} /\ S \subseteq Due(w)
  /\ Cardinality(S) <= AvailableCapacity(w) /\ Cardinality(S) <= ClaimBatchSize
  /\ row' = [t \in Tasks |-> IF t \in S THEN ClaimedRow(row[t], w) ELSE row[t]]
  /\ run' = [t \in Tasks |->
               IF t \in S
               THEN [run[t] EXCEPT ![FreeSlot(t)] = [NoRun EXCEPT !.pc = "claimed", !.worker = w]]
               ELSE run[t]]
  /\ current' = [t \in Tasks |-> IF t \in S THEN FreeSlot(t) ELSE current[t]]
  /\ UNCHANGED <<zombies, cancel_seen, mode, requeues>>

Batch(w) == RunsOf(w, {"claimed"})

\* The claimed rows are read back after the commit, with whatever attempts
\* they have by then.
ReadBack(w) ==
  /\ Batch(w) # {}
  /\ run' = [t \in Tasks |-> [s \in Slots |->
               IF <<t, s>> \in Batch(w)
               THEN [run[t][s] EXCEPT !.pc = "batched", !.attempt = row[t].attempts]
               ELSE run[t][s]]]
  /\ UNCHANGED <<row, current, zombies, cancel_seen, mode, requeues>>

\* The read raises: the loop logs it and forgets the rows it has claimed.
LoseBatch(w) ==
  /\ Batch(w) # {}
  /\ run' = [t \in Tasks |-> [s \in Slots |->
               IF <<t, s>> \in Batch(w) THEN NoRun ELSE run[t][s]]]
  /\ UNCHANGED <<row, current, zombies, cancel_seen, mode, requeues>>

\* A task that needs a thread while the pool has none left.
MustRelease(t, s) == t \in Sync /\ FreeSyncSlots(run[t][s].worker) <= 0

Start(t, s) ==
  /\ run[t][s].pc = "batched" /\ ~MustRelease(t, s)
  /\ Goto(t, s, "starting")
  /\ UNCHANGED <<row, current, zombies, cancel_seen, mode, requeues>>

ReleasedRow(x) == [Unclaimed(x) EXCEPT !.status = "READY", !.attempts = @ - 1]

\* Faulty: release does not check that the row is still its own.
ReleaseUnguarded(t, s) ==
  /\ run[t][s].pc = "batched" /\ MustRelease(t, s)
  /\ row' = [row EXCEPT ![t] = ReleasedRow(@)]
  /\ SetRun(t, s, NoRun)
  /\ UNCHANGED <<current, zombies, cancel_seen, mode, requeues>>

Release(t, s) ==
  /\ run[t][s].pc = "batched" /\ MustRelease(t, s)
  /\ row' = IF Owns(run[t][s], row[t])
            THEN [row EXCEPT ![t] = ReleasedRow(@)] ELSE row
  /\ SetRun(t, s, NoRun)
  /\ UNCHANGED <<current, zombies, cancel_seen, mode, requeues>>

\* The update raises: _release logs it and leaves the row to the reaper.
ReleaseFails(t, s) ==
  /\ run[t][s].pc = "batched" /\ MustRelease(t, s)
  /\ SetRun(t, s, NoRun)
  /\ UNCHANGED <<row, current, zombies, cancel_seen, mode, requeues>>

-----------------------------------------------------------------------------
(* One claim: Worker._run_claimed and what it calls                         *)

\* mark_running finds the claim still its own.
MarkRunning(t, s) ==
  /\ run[t][s].pc = "starting" /\ Holds(run[t][s], row[t])
  /\ Goto(t, s, "loading")
  /\ UNCHANGED <<row, current, zombies, cancel_seen, mode, requeues>>

\* mark_running, mark_successful or mark_failed finds it is not: the run ends.
LoseClaim(t, s) ==
  /\ run[t][s].pc \in {"starting", "succeeding", "failing"}
  /\ ~Holds(run[t][s], row[t])
  /\ End(t, s)
  /\ UNCHANGED <<row, current, zombies, mode, requeues>>

\* aget_result returns: the function is called and the heartbeat started.
Load(t, s) ==
  /\ run[t][s].pc = "loading"
  /\ SetRun(t, s, [run[t][s] EXCEPT !.pc = "executing", !.beating = TRUE])
  /\ UNCHANGED <<row, current, zombies, cancel_seen, mode, requeues>>

\* Faulty: a timed-out at-most-once task is retried like any other.
RetryTimedOut(t, r, error) ==
  /\ RetriesRemaining(t, r.attempt)
  /\ error # "unlisted"
  /\ t \notin cancel_seen[r.worker]

WillRetry(t, r, error) ==
  /\ RetriesRemaining(t, r.attempt)
  /\ error # "unlisted"
  /\ t \notin cancel_seen[r.worker]
  /\ ~(error = "timeout" /\ t \in AtMostOnce)

\* _handle_failure up to its first await, which decides on the retry; an error
\* that will be retried is not told from another.
FailingRun(r, retry, error) ==
  [r EXCEPT !.pc = "failing", !.retry = retry, !.error = IF retry THEN "none" ELSE error]

Failing(t, s, error) ==
  SetRun(t, s, FailingRun(run[t][s], WillRetry(t, run[t][s], error), error))

LoadFails(t, s, error) ==
  /\ run[t][s].pc = "loading"
  /\ Failing(t, s, error)
  /\ UNCHANGED <<row, current, zombies, cancel_seen, mode, requeues>>

Return(t, s) ==
  /\ run[t][s].pc = "executing"
  /\ Goto(t, s, "succeeding")
  /\ UNCHANGED <<row, current, zombies, cancel_seen, mode, requeues>>

Raise(t, s, error) ==
  /\ run[t][s].pc = "executing"
  /\ Failing(t, s, error)
  /\ UNCHANGED <<row, current, zombies, cancel_seen, mode, requeues>>

\* An async function is cancelled; the thread of a sync one runs on.  A TaskTimeout
\* is an exception like others, which @retry(retry_on=...) may not name.
TimeOut(t, s) ==
  /\ run[t][s].pc = "executing"
  /\ \E error \in {"timeout", "unlisted"} : Failing(t, s, error)
  /\ zombies' = IF t \in Sync
                THEN [zombies EXCEPT ![run[t][s].worker] = @ \cup {<<t, s>>}]
                ELSE zombies
  /\ UNCHANGED <<row, current, cancel_seen, mode, requeues>>

\* A heartbeat sender has cancelled the function, which let itself be.  (Of
\* two async claims of t in one worker either may be the one cancelled.)
Interrupt(t, s) ==
  /\ run[t][s].pc = "executing"
  /\ t \notin Sync /\ t \in cancel_seen[run[t][s].worker]
  /\ Failing(t, s, "cancelled")
  /\ UNCHANGED <<row, current, zombies, cancel_seen, mode, requeues>>

Beat(x) == [x EXCEPT !.heartbeat = "fresh"]

\* Faulty: the claim is remembered as cancelled, and the others look for the task.
HeartbeatByClaim(t, s) ==
  /\ run[t][s].beating
  /\ Holds(run[t][s], row[t])
  /\ row' = [row EXCEPT ![t] = Beat(@)]
  /\ cancel_seen' = IF row[t].cancel_requested
                    THEN [cancel_seen EXCEPT ![run[t][s].worker] = @ \cup {<<t, s>>}]
                    ELSE cancel_seen
  /\ UNCHANGED <<run, current, zombies, mode, requeues>>

\* _heartbeat_sender, until the run ends.
Heartbeat(t, s) ==
  /\ run[t][s].beating
  /\ Holds(run[t][s], row[t])
  /\ row' = [row EXCEPT ![t] = Beat(@)]
  /\ cancel_seen' = IF row[t].cancel_requested
                    THEN [cancel_seen EXCEPT ![run[t][s].worker] = @ \cup {t}]
                    ELSE cancel_seen
  /\ UNCHANGED <<run, current, zombies, mode, requeues>>

\* Faulty: the outcome is written whoever holds the row.
MarkSuccessfulUnguarded(t, s) ==
  /\ run[t][s].pc = "succeeding"
  /\ row' = [row EXCEPT ![t].status = "SUCCESSFUL"]
  /\ Goto(t, s, "acking")
  /\ UNCHANGED <<current, zombies, cancel_seen, mode, requeues>>

MarkSuccessful(t, s) ==
  /\ run[t][s].pc = "succeeding" /\ Holds(run[t][s], row[t])
  /\ row' = [row EXCEPT ![t].status = "SUCCESSFUL"]
  /\ Goto(t, s, "acking")
  /\ UNCHANGED <<current, zombies, cancel_seen, mode, requeues>>

FailedRow(x, r) ==
  IF r.retry THEN x ELSE [x EXCEPT !.status = "FAILED", !.error = r.error]

MarkFailed(t, s) ==
  /\ run[t][s].pc = "failing" /\ Holds(run[t][s], row[t])
  /\ row' = [row EXCEPT ![t] = FailedRow(@, run[t][s])]
  /\ SetRun(t, s, [run[t][s] EXCEPT !.pc = IF run[t][s].retry THEN "nacking" ELSE "acking",
                                    !.error = "none", !.retry = FALSE])
  /\ UNCHANGED <<current, zombies, cancel_seen, mode, requeues>>

\* Faulty: the row is handed back with its claim.
RetriedRowStillClaimed(x) == [x EXCEPT !.status = "READY", !.due = FALSE]

\* A row given back for a retry, due after the backoff delay.
RetriedRow(x) == [Unclaimed(x) EXCEPT !.status = "READY", !.due = FALSE]

Nack(t, s) ==
  /\ run[t][s].pc = "nacking"
  /\ row' = IF Holds(run[t][s], row[t])
            THEN [row EXCEPT ![t] = RetriedRow(@)] ELSE row
  /\ End(t, s)
  /\ UNCHANGED <<current, zombies, mode, requeues>>

\* ack has no condition on the status.
Ack(t, s) ==
  /\ run[t][s].pc = "acking"
  /\ row' = IF Owns(run[t][s], row[t])
            THEN [row EXCEPT ![t] = Unclaimed(@)] ELSE row
  /\ End(t, s)
  /\ UNCHANGED <<current, zombies, mode, requeues>>

-----------------------------------------------------------------------------
(* What interrupts a claim                                                  *)

\* An error leaves the run and is only logged by _execute: the database is
\* unreachable, the return value is not JSON, or the task raises
\* CancelledError of its own accord.
Die(t, s) ==
  /\ run[t][s].pc \in Inflight
  /\ End(t, s)
  /\ UNCHANGED <<row, current, zombies, mode, requeues>>

RequestShutdown(w) ==
  /\ w \notin Dependable /\ mode[w] = "up"
  /\ mode' = [mode EXCEPT ![w] = "draining"]
  /\ UNCHANGED <<row, run, current, zombies, cancel_seen, requeues>>

\* The grace period is over: _drain_inflight cancels the run.  The thread of
\* a sync task runs on.  A run cancelled while its write was under way is
\* this action before or after the write.
Abandon(t, s) ==
  LET w == run[t][s].worker
  IN /\ run[t][s].pc \in Inflight
     /\ mode[w] = "draining" /\ ~HasBatch(w)
     /\ zombies' = IF t \in Sync /\ run[t][s].pc = "executing"
                   THEN [zombies EXCEPT ![w] = @ \cup {<<t, s>>}] ELSE zombies
     /\ End(t, s)
     /\ UNCHANGED <<row, current, mode, requeues>>

ThreadReturns(w, k) ==
  /\ k \in zombies[w]
  /\ zombies' = [zombies EXCEPT ![w] = @ \ {k}]
  /\ UNCHANGED <<row, run, current, cancel_seen, mode, requeues>>

\* The process is killed, threads and all.
Crash(w) ==
  /\ w \notin Dependable /\ mode[w] # "down"
  /\ mode' = [mode EXCEPT ![w] = "down"]
  /\ run' = [t \in Tasks |-> [s \in Slots |->
               IF run[t][s].worker = w THEN NoRun ELSE run[t][s]]]
  /\ zombies' = [zombies EXCEPT ![w] = {}]
  /\ cancel_seen' = [cancel_seen EXCEPT ![w] = {}]
  /\ UNCHANGED <<row, current, requeues>>

-----------------------------------------------------------------------------
(* Time passing, and the reaper                                             *)

BecomeDue(t) ==
  /\ row[t].status = "READY" /\ ~row[t].due
  /\ row' = [row EXCEPT ![t].due = TRUE]
  /\ UNCHANGED <<run, current, zombies, cancel_seen, mode, requeues>>

\* A heartbeat can be late whether its worker is dead, paused or cut off.
GoStale(t) ==
  /\ row[t].status = "RUNNING" /\ row[t].heartbeat = "fresh"
  /\ row' = [row EXCEPT ![t].heartbeat = "stale"]
  /\ UNCHANGED <<run, current, zombies, cancel_seen, mode, requeues>>

\* can_retry of reclaim_stale.
CanRetry(t) == t \notin AtMostOnce /\ RetriesRemaining(t, row[t].attempts)

ReclaimedRow(t) ==
  IF CanRetry(t)
  THEN RetriedRow(row[t])
  ELSE [Unclaimed(row[t]) EXCEPT !.status = "FAILED", !.error = "stale"]

Reap(w, S) ==
  /\ mode[w] = "up"
  /\ S # {} /\ S \subseteq Stale /\ Cardinality(S) <= ClaimBatchSize
  /\ row' = [t \in Tasks |-> IF t \in S THEN ReclaimedRow(t) ELSE row[t]]
  /\ UNCHANGED <<run, current, zombies, cancel_seen, mode, requeues>>

-----------------------------------------------------------------------------

\* What a run does next if nothing interrupts it.
RunStep(t, s) ==
  \/ Start(t, s) \/ Release(t, s) \/ ReleaseFails(t, s)
  \/ MarkRunning(t, s) \/ LoseClaim(t, s)
  \/ Load(t, s) \/ \E e \in {"error", "unlisted"} : LoadFails(t, s, e)
  \/ Return(t, s) \/ \E e \in {"error", "unlisted"} : Raise(t, s, e)
  \/ TimeOut(t, s) \/ Interrupt(t, s)
  \/ MarkSuccessful(t, s) \/ MarkFailed(t, s)
  \/ Nack(t, s) \/ Ack(t, s)

Next ==
  \/ \E t \in Tasks :
       \/ \E due \in BOOLEAN : Enqueue(t, due)
       \/ Cancel(t)
       \/ \E reset \in ResetChoices : Requeue(t, reset)
       \/ BecomeDue(t) \/ GoStale(t)
       \/ \E s \in Slots :
            RunStep(t, s) \/ Heartbeat(t, s) \/ Die(t, s) \/ Abandon(t, s)
  \/ \E w \in Workers :
       \/ \E S \in SUBSET Tasks : Claim(w, S) \/ Reap(w, S)
       \/ ReadBack(w) \/ LoseBatch(w)
       \/ \E k \in Tasks \X Slots : ThreadReturns(w, k)
       \/ RequestShutdown(w) \/ Crash(w)

Spec == Init /\ [][Next]_vars

\* No run of t renews the heartbeat of the row.
Unattended(t) == \A s \in Slots : ~(run[t][s].beating /\ Holds(run[t][s], row[t]))

\* Task functions and database calls end; a due row, a heartbeat nobody
\* renews and a backoff come of age; the loops of a dependable worker poll.
Fairness ==
  /\ \A t \in Tasks :
       /\ WF_vars(BecomeDue(t))
       /\ WF_vars(GoStale(t) /\ Unattended(t))
       /\ \A s \in Slots : WF_vars(RunStep(t, s))
  /\ \A w \in Workers : WF_vars(ReadBack(w) \/ LoseBatch(w))
  /\ \A w \in Workers, k \in Tasks \X Slots : WF_vars(ThreadReturns(w, k))
  /\ \A w \in Dependable :
       /\ WF_vars(\E S \in SUBSET Tasks : Claim(w, S))
       /\ WF_vars(\E S \in SUBSET Tasks : Reap(w, S))

FairSpec == Spec /\ Fairness

=============================================================================
