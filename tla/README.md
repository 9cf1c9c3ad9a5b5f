# A verification project for werker

Werker is a PostgreSQL-backed task queue and periodic scheduler for Django. One
table, `DBTaskResult`, is both the queue and the result store; workers claim
rows with `SELECT ... FOR UPDATE SKIP LOCKED`, run them, and write the outcome
back with conditional updates. There is no lock held while a task runs, so all
correctness rests on the filters of those updates and on leases (heartbeats)
that other workers may take over. This directory models that protocol in TLA+,
checks it with TLC and proves its central invariants with TLAPS.

Paths below are relative to `src/werker/` in the repository.

## Inventory

| Component | State | Operations | Interacts through |
|---|---|---|---|
| Broker (`broker/postgres.py`) | task rows: status, run_after, attempts, claimed_by, last_heartbeat_at | enqueue, claim, release, heartbeat, ack, nack, reclaim_stale, claim_due_schedules | the database |
| Result store (`results/db.py`) | the same rows: worker_ids, errors, return value, finished_at | create, mark_running, mark_successful, mark_failed | the database |
| Worker (`worker/core.py`) | `_inflight`, `_sync_inflight`, `_abandoned`, `_cancel_requested`, `_shutdown`, `_wakeup` | claim loop, `_run_claimed`, heartbeat sender, failure handling, drain | broker and store calls, thread pool, event loop |
| Reaper (`worker/reaper.py`) | none | one pass per poll | `reclaim_stale` |
| Management API (`api.py`) | none | cancel, requeue | row locks |
| Backend (`backend.py`) | none | enqueue with dedupe, enqueue_schedule | partial unique constraint |
| Schedule dispatch (`worker/scheduler.py`, `schedules/scheduler.py`) | `PeriodicTask` rows: next_run_at, claimed_by, last_heartbeat_at | claim due rows, fire or skip | row locks, the backend |
| `syncschedules` | rows read at its start | create, update, enable, disable rows | the `PeriodicTask` table |
| Retention (`maintenance.py`, `prune_task_results`, `worker/cleanup.py`) | the ids of one batch | select ids, delete by id | the task table, an advisory lock |
| Rate limits (`_claim_limited`, `decorators.py`) | `RateLimitBucket` rows: tokens, updated_at | refill, take, refund, count of RUNNING rows, wait hint | a bucket row locked with SKIP LOCKED |
| Listener (`worker/listener.py`) | a connection, `_listening` | connect, LISTEN, wake the claim loop | NOTIFY, the `_wakeup` event |
| Presence, health, stats, admin, autostart, configuration, migrations | informational or static | | |

What is hard: a claim is a committed transaction, and everything the worker
does afterwards is a separate one, with any number of other actors in between;
a worker that is only slow is reaped like a dead one and then comes back; the
thread of a timed-out sync task cannot be stopped; an operator may requeue a row
whose last run is still finishing; a process may die between any two writes; a
rate limit is kept by claims that read the clock before they get the bucket; and
a loop that sleeps until it is woken must not miss what it was woken for.
The full list, by line, is under `hazards` in `PROJECT.json`.

What makes each part correct:

- claims: only the newest claim of a task can write its row; the token
  (worker, attempt) tells them apart; attempts stay within the retry budget;
  a finished row stays finished; a stranded row is always recovered;
- worker: a sync claim it holds has a thread; an at-most-once function never
  runs beside itself; a cancel request dies with its claim;
- schedules: no occurrence is enqueued twice, none is left due, leases of dead
  dispatchers are taken over;
- unique tasks: at most one active row per key, an enqueue is merged only into
  work that was active during the call;
- rate limits: all workers together start no more than a bucket of the declared
  burst and rate allows, and run no more at once than declared; a limit that ever
  allows a run does not stall its path;
- wakeups: no announced row is slept through, and `--once` does not end before
  the work it could wait for;
- retention: only finished rows are deleted.

## Modules

**`TaskQueue.tla`** is the core: the life of a row. `row` is the table; `run[t][s]`
is a claim that a worker holds, from the commit of `claim` to the end of
`_run_claimed`, with the place where it waits as `pc`. Each action is one
transaction or one stretch of code between two awaits:

| Code | Actions |
|---|---|
| `create` + `enqueue` | `Enqueue` |
| `cancel`, `requeue` | `Cancel`, `Requeue` |
| `claim`: transaction, then the read-back of attempts without the lock | `Claim`, `ReadBack` (or `LoseBatch` when it raises) |
| batch loop: `_start` or `_release` | `Start`, `Release`, `ReleaseFails` |
| `_run_claimed` | `MarkRunning`, `Load`/`LoadFails`, `Return`/`Raise`/`TimeOut`/`Interrupt`, `MarkSuccessful`, `MarkFailed`, `Nack`, `Ack`, `LoseClaim` |
| `_heartbeat_sender` | `Heartbeat` |
| errors that leave a run, shutdown and drain, kill | `Die`, `RequestShutdown`, `Abandon`, `Crash` |
| end of an abandoned thread | `ThreadReturns` |
| `reclaim_stale` | `Reap` |
| passing of `run_after` and of the stale timeout | `BecomeDue`, `GoStale` |

Two variables are not in the code: `current` (the slot of a task's newest claim)
is a history variable for one property, and `requeues` is a bound which also
tells properties that an operator asked for a repetition. `TaskQueueProperties.tla`
states what the component promises, `MCTaskQueue.tla` instantiates it. It also names what
tokens need of their environment where attempts can go back: `OrderlySpec` is `Spec` restricted to
the behaviours in which no read-back is late by a whole lease (`ReadBackInTime`) and no resetting
requeue overtakes an older claim (`ResetsAlone`); see *Proofs* for why they are needed.

**`Schedule.tla`** models the `PeriodicTask` table, the dispatch loops and
`syncschedules`. Time is counted per schedule in occurrences: `next_run_after_fire`
of occurrence *n* is *n + 1* for cron and for intervals (whose grid is anchored at
the last fire) alike. `_dispatch_sync` reads its clock in `BeginDispatch` and acts
in `Skip`, `Fire`, `Lapse` or `DispatchFails`, so that time passes between the two.
A sync is `SyncRead`, one `SyncSave` (or `SyncFails`) per declaration, `SyncEnd`;
the release it runs with is chosen in `SyncRead`. The ten fields of a declaration are one value
(`declared`), of which the model knows whether it catches up (`CatchesUp`) and whether the release
has another one (`_has_changed`): any change moves `next_run_at` to the next occurrence from now. A
change of the cron expression or the interval changes the times of later occurrences, not their order, so that
they are counted on.

**`UniqueTasks.tla`** models which rows exist: the two rounds of `_write_enqueue`
(`Insert`/`Conflict`, then `FindExisting`/`FindNone`), requeue against the constraint,
and a pruner that reads a batch of ids (`Select`) and deletes them (`Delete`). The
life of a row is reduced to its status; `TaskQueue` has the details.

**`UniqueWork.tla`** says what `enqueue` promises of a `@unique` task: every request is answered at
one instant, with work of its own if no work of its key is outstanding then, and with the
outstanding work of its key otherwise. It has no rounds, constraint violations or lookups.
**`UniqueTasksRefinement.tla`** maps `UniqueTasks` to it: outstanding is what is READY or RUNNING, and a
call is answered where its insert succeeds or its lookup finds a row.

**`TaskLife.tla`** says what a broker and a result store promise together, whatever the
storage: a task waits, is leased to one claim at a time, and is finished or handed
back by the claim that was granted last and by no other; a lease may be taken back
from a claim that goes on working. There are no tokens, attempts, heartbeats, threads
or processes in it: those are how `TaskQueue` keeps the promise.
**`TaskQueueRefinement.tla`** is the refinement mapping: the phase of a task is the status
of its row, its holder is `current`, and what a claim has done follows from its `pc`.

**`RateLimit.tla`** models the claim of a `@rate_limit` path as `PostgresBroker.claim` makes
it: `BeginClaim` reads the clock, `LockBucket` inserts or locks the bucket and works out
what it allows, `CommitClaim` saves the bucket and takes the rows; `SkipBucket` is SKIP
LOCKED, `AbortClaim` the roll-back. The remaining actions are what else happens to the path's rows,
`Release` with its refund among them. A time stamp is kept as its distance to the present
(`age`, `lag`), so that nothing but `MaxAge` and `MaxLag` bounds the clock. `budget` is
a history variable: an ideal bucket that every claim pays in full when it commits, and that only
time and releases refill. The code reads its clock at `broker/postgres.py:77`, before the bucket is
locked, and saves it as `updated_at`. Two things follow. What refills between that reading and the commit
is still the next claim's to spend, on top of a full bucket: so the ideal bucket holds the declared
burst and what refills during one claim (`IdealBurst`, at most `MaxLag` ticks). And a claim that
waited behind a later one moves `updated_at` back, and the time between them is refilled twice: `Charged` pays
that time into the ideal bucket as well (`Rewound`). `RateHeld` says that nothing *else* is
overspent: in any period, claims less refunds are within the burst, what refills in the period and in
one claim, and the time refilled twice.

**`ClaimLoop.tla`** composes those claims with the loop of `Worker.run` that makes them: the
event that is cleared before a claim, the waits (`full`, `idle`, `resting`, and the
deaf one after an error), the wait hint, `--once`, and the LISTEN connections with the
notifications under way. Its actions conjoin an action of `RateLimit` with what the
loop does before or after:

| Code | Actions |
|---|---|
| top of the loop: clear the event, look at the capacity, call `claim` | `NextPass`, and after a wait `Wake`, `TimeOut` (`ClaimOrWait` in all) |
| `claim` returns nothing, raises, or brings rows | `ClaimNothing`, `ClaimSkipped`, `ClaimHeldBack`; `ClaimFails`; `ClaimSome` |
| rows without a thread | `HandBack`, `HandBackFails`, `StartLate`, then `Rest` |
| `listener.py` | `Connect`, `Listen`, `Deliver`; `LoseConnection`, and `NoticeLoss` when the worker gets to know |
| end of a run (`_task_done`), start of a `--once` worker, death | `RunEnds`, `Relaunch`, `Crash` |

Some definitions are marked *Faulty*: a plausible slip in the definition after it
(a dropped filter, an off-by-one, a missing reset). No specification uses them. Each
property of a passing run is paired in `PROJECT.json` with one of them, and the run
finds the property violated when it stands in for the original.

### Abstractions

- Payloads, return values, error texts, priorities and queue names are left out. A
  worker serves a set of tasks; a claim takes any of the due rows, as order, limits
  and rows locked by others decide.
- Time is a flag for `run_after` and three ages of a heartbeat (none, fresh, stale).
  `GoStale` may happen at any time: a live worker may be slow, paused or cut off.
- Worker ids are never reused (`make_worker_id`), so a crashed worker stays down; a
  restart is another worker.
- A database call that is under way when its run is cancelled by the drain either
  took effect or did not: `Abandon` before or after the write. The drain cancels
  several runs in any order.
- A transaction that holds the row lock is one step.
- `Slots` bounds how many claims of one task can be alive at once, `MaxRequeues` the
  requeues of a row, `MaxOccurrence` the occurrences of a schedule, `MaxLag` the
  duration of a claim and `MaxAge` the age of a bucket in ticks (`MaxAge` is long enough to
  fill it), `MaxLimit` what a claim asks for.
- `RateLimit` has one limited path; paths share nothing but the capacity of a worker.
  Workers read one clock (the code compares the clocks of several hosts: their skew
  acts like `lag`). SKIP LOCKED on single task rows is left out, as rows of a limited path
  are claimed under the lock of its bucket; so is the moment in which a release waits for that lock.
- `ClaimLoop` has no reclaim of live workers, no shutdown and no threads of timed-out
  runs: they are in `TaskQueue`. So `_release_abandoned` (`worker/core.py:553`), which frees a
  thread without setting `_wakeup`, is not in it; that wait ends with the poll interval.
- The histories `budget`, `announced` and `skipped` are kept only where a rate is
  declared or somebody listens, to keep states few.

## Runs

Workers are two in all runs; two are enough for every race of this protocol to
have an owner and an intruder.

| Run | Instance | Shows |
|---|---|---|
| `lease` | 1 async task, 1 retry, 3 claims alive, 1 requeue keeping attempts | `OnlyNewestClaimOwns`, `ClaimMatchesStatus`, `TerminalIsFinal`, `ImplementsTaskLife` |
| `requeue` | 1 sync task, requeue with and without reset, 3 claims alive, `OrderlySpec` | `TypeOK`, `OnlyNewestClaimOwns`, `ClaimMatchesStatus`, `RetryBudget`, `TerminalIsFinal`, `ImplementsTaskLife` |
| `threads` | 2 sync tasks, one at-most-once with a retry, 1 thread per worker | `AtMostOnceNeverOverlaps`, `ThreadsFit` |
| `progress` | 1 sync task, worker `w1` stays up, fairness | `CancelMemoryIsBounded`, `FailedMeansExhausted`, `EventuallyFinished` |
| `schedule` | 1 schedule (new, or known: as the releases declare it, with another field, or without catchup), occurrences 0 and 1, 2 deploys of releases that declare it or drop it, fairness | `FiresForward`, `DueIsDispatched`, `MissedIsCaughtUp` |
| `unique` | 3 enqueues of one key, 1 pruner, 1 requeue each | `TypeOK`, `OneActivePerKey`, `AnswerWasActive`, `GivesUpAfterTwoFinishes`, `ActivePrunedOnlyIfRequeued`, `ImplementsUniqueWork` |
| `limits` | 2 rows of a limited path, 2 workers, claims of up to 2 rows that last up to 2 ticks; a burst of one or two tokens refilled by half a token per tick, the latter also with one run at a time, or one run at a time alone | `RateHeld`, `ConcurrencyHeld` |
| `claim_loop` | 2 rows of a limited path, `w1` dependable, `w2` with `--once`; limits and tasks vary: one at a time, one per row (async or sync), a slow rate with burst 1 whose claims may be handed back; `w1` listens where there is no rate | `LoopTypeOK`, `NoLostWakeup`, `OnceStopsWhenDone`, `DueWorkRuns` |
| `cancelled_retried` | 1 sync task | violated: `CancelledNeverRetried` |
| `stranded` | 1 task, requeue with reset | violated: `ClaimMatchesStatus` |
| `schedule_rewound` | 1 schedule, 1 deploy that may change its declaration | violated: `NoDoubleFire` |
| `prune_requeued` | 1 row | violated: `ActiveNeverPruned` |

The four violated runs are disagreements between the code and what its docs or
tests say; `findings` in `PROJECT.json` quotes both sides. In short: a cancelled task whose worker dies is retried by the
reaper; after `requeue(reset_attempts=True)` tokens repeat and an old `ack`, which has
no status filter, can strand a newer claim; `syncschedules` saves rows it read
earlier and can undo a dispatch; a prune batch deletes by id what was requeued
meanwhile. The passing runs state exactly how far the promise does hold:
`FiresForward` excepts rows that a sync has moved back, `ActivePrunedOnlyIfRequeued` rows that
were requeued, `lease` keeps the attempt counter, and `requeue` allows a reset where no older
claim is under way.

Other exceptions are part of what the properties say:

- `AtMostOnceNeverOverlaps` does not say that an at-most-once task runs once. `models.py:24` says such a
  task "never retries", but `_handle_failure` withholds the retry after a timeout only (`worker/core.py:597`):
  a function that raised is retried. The two lines say so by themselves, and no run is spent on it.
- `FailedMeansExhausted` excepts requeued tasks. `requeue` promises a fresh retry budget
  (`api.py:61`), but a worker remembers a cancel request by task id for as long as a
  claim of the task beats; when an older run of that worker is still alive, a failure
  of the requeued claim is final. `CancelMemoryIsBounded` says how long that can last.
- `MissedIsCaughtUp` is about a declaration as long as it stands. A deploy that changes any field of
  it, the priority for one, restarts `next_run_at` from the present (`syncschedules.py:79-83`) and drops
  what is due; the property says that nothing less does. It starts from states with no sync under way: of two
  that both see the change, the later one drops what came due after the first.
- `NoLostWakeup` and `OnceStopsWhenDone` except a claim that found the bucket locked: it
  returns nothing and no wait hint, so the loop waits a whole poll interval, and a `--once`
  worker ends, although rows may be due (the `--once` of the repository's `README.md:87`, which
  drains due work, does so unless another worker has the bucket at that moment).
- `DueWorkRuns` is about limits that ever allow a run. `decorators.py:136` accepts a rate such as
  `0.5/m`, whose burst is below one token: the bucket never holds a whole one, and the path never
  runs. No run has such a rate.
- After a release the loop means to rest until a thread is free (`worker/core.py:330-333`), but the
  NOTIFY of that release (`broker/postgres.py:228`) reaches the worker's own listener and wakes
  it at once. `HandBack` and `Deliver` do this in the model; it costs round trips, not safety.

Bounds. One task is enough for the ownership properties, which quantify over claims
of one task; three slots allow a live claim, a reaped one and a requeued one together.
`threads` needs two tasks, because threads are what tasks share. `claim_loop` has two rows
against one free slot, so that claims ask for more than limits or threads allow, and a
token worth two parts refilled by one per tick, so that a claim can find part of a token. In `limits` a claim
may outlast the refill of a whole token, so that another that overtakes it makes a difference of one row, and a
burst of two lets a claim leave a token behind: with a burst of one a full bucket would hide what is
credited twice. One retry separates
"budget left" from "budget used". Deadlock is not checked (`CHECK_DEADLOCK FALSE`): all
workers may stop, and a finished table is a legal end. Symmetry is used for the two
workers in `lease`, `requeue`, `threads` and `limits` and the calls in `unique`, where nothing tells them apart and
no liveness is checked.

`OnlyNewestClaimOwns` has two limits. With `reset_attempts` tokens repeat, which the `stranded` run
shows. And a sync claim may be released, which gives its attempt back: a read-back that is late by
a whole reclaim-and-claim cycle can take the newer claim's attempt for its own, and after a release of
that claim the next one is counted with the same number. No run shows the second, as it takes a worker
that stops for `STALE_RUNNING_TIMEOUT` between two statements of one call; with
`ReadBackInTime` left out of `Orderly` the `requeue` instance finds it in 17 steps, without any reset.

### Fairness

`EventuallyFinished` assumes that task functions and database calls end (weak fairness
of `RunStep`, `ReadBack`, `ThreadReturns`), that time passes (`BecomeDue`; `GoStale` for a row
whose heartbeat nobody renews), and that the claim loop and the reaper of a *dependable*
worker poll (weak fairness of its `Claim` and `Reap`): these are `while` loops that survive
errors and sleep for a bounded time. Nothing is assumed of the other worker, of `Cancel`,
`Requeue`, `Heartbeat` or of any failure. `DueIsDispatched` and `MissedIsCaughtUp` assume
strong fairness of a dependable worker's claim and dispatch: the lease is minutes long and a
dispatch takes milliseconds, so a live worker does not miss it, nor is beaten to the row
by others, every time; transactions may fail, but not all of them.

`DueWorkRuns` assumes `LoopFairness`: time passes, runs end or
are reaped, and a loop whose await is over goes on (weak fairness); a claim that is tried
for ever succeeds at some point (strong fairness of `ClaimReturns`, as `ClaimFails` may intervene
any number of times but not always), and a dependable worker does not find the bucket
locked by others at every poll (strong fairness of its `LoopLockBucket`: the lock is held for
milliseconds, polls are seconds apart). Nothing is assumed of enqueues, cancels,
notifications, connections or deaths: rows are found by polling alone.

## Proofs

| Module | Theorem | Argument |
|---|---|---|
| `TaskQueue_proofs` | `TypeCorrect`: `Spec => []TypeOK` | `release` subtracts one from `attempts`, which stays natural because a claimed row has been counted (`ClaimsCounted`) and a run under way has a worker (`RunsHaveWorkers`), so that it never takes an unclaimed row for its own; both are needed in the inductive invariant |
| `TaskQueue_proofs` | `ThreadsSuffice`: `Spec => []ThreadsFit` | stronger (`ThreadsCounted`): all started sync runs, also those not executing yet or any more, and the threads left behind are within `Concurrency`, each counted once. `Start` looks at that count; every other step moves a member from one part to the other or removes it |
| `TaskQueue_proofs` | `CancelsAreForgotten`: `Spec => []CancelMemoryIsBounded` | (`MemoryInv`) a claim that beats has been started; a request is remembered by a heartbeat, and whatever ends a beating claim forgets the task |
| `RetryBudget_proofs` | `BudgetKept`: `Spec => []RetryBudget` | strengthened by what the counter is before the increment: a READY row is at most `MaxRetries + requeues`, as is one whose run waits to hand it back; a reset or kept counter then makes room for exactly one more attempt |
| `RetryBudget_proofs` | `NobodyGivesUpEarly`: `Spec => []FailedMeansExhausted` | (`ExhaustInv`) a run about to give up has read an attempt past the budget or its row has a cancel request, and so has the row of every cancel that a worker remembers; the token in the filter makes the attempt read the one in the row when the write is accepted |
| `RetryBudget_proofs` | `OnceMeansAlone`: `Spec => []AtMostOnceNeverOverlaps` | (`OnceInv`) as long as nobody requeues, at most one claim of the task is *involved* (alive, or survived by its thread), a waiting row has none, and a claim survived by its thread will not hand the row back; only then does nothing but a claim involve a slot |
| `ClaimToken_proofs` | `NewestClaimOwns`: `OrderlySpec => []OnlyNewestClaimOwns` | no attempt that a run has read is ahead of its row's (`AttemptsNotAhead`), and a claim still to be read back counts as matching any. For sync tasks, as long as a row has an owner, its older claims have read attempts strictly below the row's (`OlderAreBehind`): a release that takes one back, with the owner, makes none of them match, and the next claim is ahead of them again. That needs a claim still to be read back to find its row fresh and its own (`UnreadIsFresh`), and a release that owns its row to find it RUNNING (`BatchedIsRunning`) |
| `ClaimToken_proofs` | `NewestAsyncClaimOwns`: `Sync = {}`, `ResetChoices` without TRUE `=> (Spec => []OnlyNewestClaimOwns)` | attempts never go back (`AttemptsOnlyGrow`), so that every behaviour is orderly (`OrderlyByConstants`) |
| `ClaimToken_proofs` | `NoRowIsStranded`: `OrderlySpec => []ClaimMatchesStatus`, and `NoAsyncRowIsStranded` of `Spec` | `ack` has no condition on the status, but by the token argument a run that acks owns a row only if it finished it itself (`AcksFinished`) |
| `ClaimToken_proofs` | `FinishedStaysFinished`: `OrderlySpec => TerminalIsFinal`, and `FinishedAsyncStaysFinished`: `Sync = {} => (Spec => TerminalIsFinal)` | `ack` and `release` are the only writes with no condition on the status of the row; `ack` leaves the status alone, and a release that owns its row finds it RUNNING (`BatchedIsRunning`); without sync tasks there is none, so that resets may come at any time |
| `Refinement_proofs` | `QueueImplementsLife`: `OrderlySpec => ImplementsTaskLife`, and `AsyncQueueImplementsLife` of `Spec` | one lemma per action: a step of a run that owns its row is that step of `TaskLife` by `NewestClaimOwns` (`nack` and `release` are its `HandBack`), a run without the row only leaves, a reclaim is `Expire`, the rest stutters |
| `RateLimit_proofs` | `LimitsAreKept`: `Spec => [](TypeOK /\ ConcurrencyHeld /\ RateHeld)` | with the bucket locked nobody else takes rows, so what a claim worked out stays allowed until it commits (`LockedFits`). The ideal bucket covers the most that a claim can make of the row: what it finds if it read its clock `MaxLag` ago, and all that refilled since (`Reach`); and it covers what a claim past the lock has read, with its lag, but for the time it rewinds (`BudgetCovers`) |
| `ClaimLoop_proofs` | `LoopImplementsRateLimit`, `LoopKeepsLimits`: `LoopSpec => [](TypeOK /\ ConcurrencyHeld /\ RateHeld)` | every step of the loop is a step of `RateLimit` or leaves its variables alone |
| `ClaimLoop_proofs` | `LoopTypeCorrect`: `LoopSpec => []LoopTypeOK`; `NoWakeupIsLost`: `LoopSpec => [](LoopTypeOK /\ NoLostWakeup)` | no announced row is hidden from the claim of a *silent* worker, one that listens with its event clear and no notification on its way (`ClaimsSeeAnnounced`), so a silent worker that has settled down for the long poll knows of none (`IdleMissNothing`): a row hidden by the claim's clock was announced after the event was cleared |
| `ClaimLoop_proofs` | `OnceEndsWhenDone`: `LoopSpec => OnceStopsWhenDone` | a claim that returns nothing without a hint asked for a row at least and was allowed as many as it asked for, so none was due; only a claim past the bucket holds its lock (`LockIsClaimed`), so a skipped bucket is another's |
| `Schedule_proofs` | `FiredForward`: `Spec => []FiresForward` | the strengthening is `NextIsAhead`: `next_run_at` is past everything that was enqueued. The locked lookup of a dispatch finds it at most the time read, and both paths leave it one past that time; every other step leaves it where it is or, in a sync, records that it moved it back. `TodoIsDeclared` keeps what a sync saves well typed |
| `Schedule_proofs` | `NoDoubleFireWithoutSyncs`: `Syncers = {} => (Spec => []NoDoubleFire)` | nothing is ever moved back, so the first theorem covers every row: the double fire of `schedule_rewound` comes from `syncschedules` alone |
| `UniqueTasks_proofs` | `UniqueTypeCorrect`, `KeysStayUnique`: `Spec => [](TypeOK)`, `[]OneActivePerKey` | the partial constraint is looked at by every step that makes a row active |
| `UniqueTasks_proofs` | `AnswersAreCurrent`: `Spec => []AnswerWasActive` | what is active while a call runs is in its `seen` (`LiveIsSeen`), by its first insert or by the step that made it active |
| `UniqueTasks_proofs` | `GivesUpForAReason`: `Spec => []GivesUpAfterTwoFinishes` | a call that lost a round has seen its key freed once per lost round, and in a round that still has to look, the key is taken or was freed once more (`RoundsArePaid`) |
| `UniqueTasks_proofs` | `OnlyRequeuedArePruned`: `Spec => ActivePrunedOnlyIfRequeued` | a selected row is finished, deleted or requeued (`BatchIsFinished`) |
| `UniqueTasks_proofs` | `ActiveRowsSurviveWithoutRequeues`: `MaxRequeues = 0 => (Spec => ActiveNeverPruned)` | from the theorem before it: the deletion that `prune_requeued` finds comes from requeues alone |
| `UniqueTasks_proofs` | `EnqueueIsOneStep`: `Spec => ImplementsUniqueWork` | a row exists only for the call that created and answered it (`RowsAreAnswers`), so a call that still looks is no rival of its own; what the constraint refuses and what the lookup finds are both the rivals of `UniqueWork` at that instant (`RivalsConflict`), and a deletion completes the active part of its batch |

The theorems hold for any tasks, workers, limits, rates, retry budgets, schedules, deploys, calls
and any number of slots, requeues and occurrences; the only assumptions are the `ASSUME`s of
the modules and those in the statement. The assumptions that recur are limits of the code, not of
the proofs. A token (worker, attempt) identifies a claim as long as attempts only grow, and they do for async tasks
and requeues that keep them. Two operations give attempts back: `release`, for sync tasks only, and
`requeue` with `reset_attempts`. The code checks nothing that would keep them from overtaking an older
claim, so `OrderlySpec` says it of the behaviour:

- `ReadBackInTime`: the row of a sync task does not go stale between the commit of its `claim` and the
  read-back in the same call (`broker/postgres.py:125-126`). This is milliseconds against a
  `STALE_RUNNING_TIMEOUT` of five minutes by default; every later wait of a run may still outlast its lease.
- `ResetsAlone`: a requeue that lowers the attempts finds no claim of that task under way. The row is
  FAILED then, so that what can be under way is the end of a run that lost it, or the `ack` after
  `mark_failed`. Requeues that keep the attempts, and resets of a row that never counted any, are free.

Neither can be dropped: TLC finds `OnlyNewestClaimOwns` violated without the first and `stranded` is what happens
without the second. Crashes, stalls, reclaims of live workers, cancels and lost or late writes stay as they are in
`Spec`. The theorems on `Spec` itself need neither, and cover what the orderly ones leave out where there are no
sync tasks. For tasks, the lemmas `RowOperators` and `RowFields` say what each row update does to the
fields that matter and are the only place where records are unfolded; each step of `Next` is then
a short argument, and steps that leave tokens alone share one lemma. For schedules, `Unfired`
does the same for every step that enqueues nothing.

Only model-checked: liveness (out of the prover's reach, as is `ENABLED`), that is
`EventuallyFinished`, `DueIsDispatched`, `MissedIsCaughtUp` and `DueWorkRuns`. Every other property of a passing run is a theorem. `TypeOK`,
`RetryBudget`, `FailedMeansExhausted`, `CancelMemoryIsBounded`, `AtMostOnceNeverOverlaps` and `ThreadsFit` are proved of every
behaviour of `Spec`; those about tokens of orderly ones and, for async tasks that keep their
attempts, of all (the `requeue` run checks the first, `lease` the second).

## Plan

1. Starvation in the claim order (`broker/postgres.py:112`), which needs priorities and a
   limit per queue in `ClaimLoop`.
2. Threads of timed-out runs in `ClaimLoop`, with the wait that nobody ends early.
3. The token theorems task by task: an orderly task next to others that are not.
4. The drain of a `--once` worker, and the order of start-up.

## Not modelled

- Presence, health and statistics write informational rows or only read.
- The admin calls the modelled API.
- Autostart and the `taskworker` command start one `Worker` in a thread or a process.
- Declarations, options and discovery are fixed at import and validated there; of them the model
  has what `@rate_limit` declares.
- Migrations lead to the modelled tables.
- Of the worker, the order of start-up and the drain of a `--once` worker; of retention, the
  advisory lock of `run_cleanup` and the records of dead workers.
