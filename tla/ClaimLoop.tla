----------------------------- MODULE ClaimLoop -----------------------------
(***************************************************************************)
(* The claim loop of the workers and what wakes it: the wakeup event, the   *)
(* poll timeout, LISTEN/NOTIFY and the wait hint of a rate limit.  It       *)
(* drives the claims of RateLimit and runs what they bring.                 *)
(***************************************************************************)
EXTENDS RateLimit

CONSTANTS
  Deployments,   \* [policy, sync, listeners]: the limits of the task, whether it is
                 \* a sync function that needs a thread, the workers that LISTEN
  Once,          \* workers started with --once
  Concurrency, MaxAsyncConcurrency, ClaimBatchSize,
  Dependable     \* workers that do not die, for the fairness

ASSUME LoopAssumption ==
  /\ Deployments \subseteq
       [policy : Policies, sync : BOOLEAN, listeners : SUBSET (Workers \ Once)]
  /\ Once \subseteq Workers /\ ClaimBatchSize \in 1..MaxLimit
  /\ Concurrency \in Nat \ {0} /\ MaxAsyncConcurrency \in Nat \ {0}

VARIABLES
  sync,       \* the task of the path is a sync function
  loop,       \* where the loop of each worker is
  batch,      \* rows claimed and not yet started or handed back
  wakeup,     \* the _wakeup event
  hinted,     \* the wait is cut short by a wait hint
  listen,     \* the LISTEN connection: down, connected, listening, or lost without
              \* the worker knowing; off where there is none
  notified,   \* a NOTIFY is on its way to this worker's connection
  announced,  \* history: due rows a NOTIFY was sent for
  skipped     \* history: the last claim found the bucket locked

loopVars == <<sync, loop, batch, wakeup, hinted, listen, notified, announced, skipped>>
allVars == <<vars, loopVars>>

Waits == {"full", "idle", "resting"}

Owned(w) == {j \in Jobs : owner[j] = w}

\* The runs of a worker: what it has claimed and started.
Inflight(w) == Owned(w) \ batch[w]

FreeSyncSlots(w) ==
  Concurrency - (IF sync THEN Cardinality(Inflight(w)) ELSE 0)
AvailableCapacity(w) ==
  Concurrency + MaxAsyncConcurrency - Cardinality(Inflight(w))

(* ------------------------------ waking -------------------------------- *)

\* A NOTIFY for row j reaches the connections that have executed LISTEN.  The
\* histories are kept only where somebody listens.
Notify(j) ==
  /\ notified' = [w \in Workers |-> notified[w] \/ listen[w] = "listening"]
  /\ announced' = IF \E w \in Workers : listen[w] # "off" THEN announced \cup {j}
                  ELSE announced

\* A run of w has ended: _task_done.
WakeOwner(j) ==
  wakeup' = [w \in Workers |-> wakeup[w] \/ owner[j] = w]

\* The LISTEN connection of w; with it comes _listening.
Connect(w) ==
  /\ listen[w] = "down"
  /\ listen' = [listen EXCEPT ![w] = "connected"]
  /\ UNCHANGED <<vars, sync, loop, batch, wakeup, hinted, notified, announced, skipped>>

Listen(w) ==
  /\ listen[w] = "connected"
  /\ listen' = [listen EXCEPT ![w] = "listening"]
  /\ wakeup' = [wakeup EXCEPT ![w] = TRUE]
  /\ UNCHANGED <<vars, sync, loop, batch, hinted, notified, announced, skipped>>

\* The connection drops, and with it the notifications on their way.  The worker
\* takes itself for listening until LISTEN or the wait for notifications raises.
LoseConnection(w) ==
  /\ listen[w] \in {"connected", "listening"}
  /\ listen' = [listen EXCEPT ![w] = "lost"]
  /\ notified' = [notified EXCEPT ![w] = FALSE]
  /\ UNCHANGED <<vars, sync, loop, batch, wakeup, hinted, announced, skipped>>

NoticeLoss(w) ==
  /\ listen[w] = "lost"
  /\ listen' = [listen EXCEPT ![w] = "down"]
  /\ UNCHANGED <<vars, sync, loop, batch, wakeup, hinted, notified, announced, skipped>>

\* consume(): the notification wakes the loop.
Deliver(w) ==
  /\ notified[w]
  /\ notified' = [notified EXCEPT ![w] = FALSE]
  /\ wakeup' = [wakeup EXCEPT ![w] = TRUE]
  /\ UNCHANGED <<vars, sync, loop, batch, hinted, listen, announced, skipped>>

(* ------------------------------ the loop ------------------------------ *)

\* A pass of the loop up to its first await: the event is cleared, then the
\* claim is made, or the loop waits while the worker is full.  Nothing comes
\* between the end of the last pass, or of the wait, and this one.
ClaimOrWait(w) ==
  /\ wakeup' = [wakeup EXCEPT ![w] = FALSE]
  /\ hinted' = [hinted EXCEPT ![w] = FALSE]
  /\ skipped' = [skipped EXCEPT ![w] = FALSE]
  /\ \/ /\ AvailableCapacity(w) <= 0
        /\ loop' = [loop EXCEPT ![w] = "full"]
        /\ UNCHANGED vars
     \/ /\ AvailableCapacity(w) > 0
        /\ BeginClaim(w, Least(AvailableCapacity(w), ClaimBatchSize))
        /\ loop' = [loop EXCEPT ![w] = "claiming"]
  /\ UNCHANGED <<sync, batch, listen, notified, announced>>

NextPass(w) == loop[w] = "top" /\ ClaimOrWait(w)

LoopLockBucket(w) == LockBucket(w) /\ UNCHANGED loopVars

\* A claim that brought nothing: --once stops unless there is a wait hint, the
\* others wait for work, but not longer than the hint.
WaitForWork(w, hint) ==
  /\ loop' = [loop EXCEPT ![w] = IF w \in Once /\ ~hint THEN "stopped" ELSE "idle"]
  /\ hinted' = [hinted EXCEPT ![w] = hint]

\* Faulty: the wakeup event is cleared after the claim.
ClaimNothingThenClear(w) ==
  /\ NothingDue(w)
  /\ WaitForWork(w, FALSE)
  /\ wakeup' = [wakeup EXCEPT ![w] = FALSE]
  /\ UNCHANGED <<sync, batch, listen, notified, announced, skipped>>

ClaimNothing(w) ==
  /\ NothingDue(w)
  /\ WaitForWork(w, FALSE)
  /\ UNCHANGED <<sync, batch, wakeup, listen, notified, announced, skipped>>

ClaimSkipped(w) ==
  /\ SkipBucket(w)
  /\ WaitForWork(w, FALSE)
  /\ skipped' = [skipped EXCEPT ![w] = listen[w] # "off"]
  /\ UNCHANGED <<sync, batch, wakeup, listen, notified, announced>>

\* Held back by the limits: more was asked for than they allow.
ClaimHeldBack(w) ==
  /\ CommitClaim(w, {})
  /\ WaitForWork(w, WaitHint(w))
  /\ UNCHANGED <<sync, batch, wakeup, listen, notified, announced, skipped>>

\* The runs are started while there is a thread for them; the rows left over
\* are to be handed back.
ClaimSome(w, S) ==
  /\ S # {} /\ CommitClaim(w, S)
  /\ \E rest \in SUBSET S :
       /\ Cardinality(rest) =
            IF sync THEN Most(Cardinality(S) - FreeSyncSlots(w), 0) ELSE 0
       /\ batch' = [batch EXCEPT ![w] = rest]
       /\ loop' = [loop EXCEPT ![w] = IF rest = {} THEN "top" ELSE "returning"]
  /\ announced' = announced \ S
  /\ UNCHANGED <<sync, wakeup, hinted, listen, notified, skipped>>

\* claim() raised: the loop waits for the poll interval, deaf to wakeups.  (Rows
\* that are lost in the read-back after the commit are in TaskQueue.)
ClaimFails(w) ==
  /\ AbortClaim(w)
  /\ loop' = [loop EXCEPT ![w] = "failed"]
  /\ UNCHANGED <<sync, batch, wakeup, hinted, listen, notified, announced, skipped>>

\* A row without a thread is handed back, or started after all if one has come
\* free.  The NOTIFY of a release reaches every listener, this one included.
HandBack(w, j) ==
  /\ j \in batch[w] /\ FreeSyncSlots(w) <= 0
  /\ Release(w, j)
  /\ batch' = [batch EXCEPT ![w] = @ \ {j}]
  /\ Notify(j)
  /\ UNCHANGED <<sync, loop, wakeup, hinted, listen, skipped>>

\* release() raised: the row is left to the reaper.
HandBackFails(w, j) ==
  /\ j \in batch[w] /\ FreeSyncSlots(w) <= 0
  /\ Orphan(j)
  /\ batch' = [batch EXCEPT ![w] = @ \ {j}]
  /\ UNCHANGED <<sync, loop, wakeup, hinted, listen, notified, announced, skipped>>

StartLate(w, j) ==
  /\ j \in batch[w] /\ FreeSyncSlots(w) > 0
  /\ batch' = [batch EXCEPT ![w] = @ \ {j}]
  /\ UNCHANGED <<vars, sync, loop, wakeup, hinted, listen, notified, announced, skipped>>

\* After a release the loop rests until a thread is free, instead of claiming
\* the row straight away.
Rest(w) ==
  /\ loop[w] = "returning" /\ batch[w] = {}
  /\ loop' = [loop EXCEPT ![w] = "resting"]
  /\ UNCHANGED <<vars, sync, batch, wakeup, hinted, listen, notified, announced, skipped>>

Wake(w) == loop[w] \in Waits /\ wakeup[w] /\ ClaimOrWait(w)
TimeOut(w) == loop[w] \in Waits \cup {"failed"} /\ ClaimOrWait(w)

\* A --once worker is started again after it has ended.
Relaunch(w) == loop[w] = "stopped" /\ Inflight(w) = {} /\ ClaimOrWait(w)

(* --------------------------- runs and rows ---------------------------- *)

\* The run of a row ends, which wakes its worker for the free capacity.
RunEnds(j) ==
  /\ owner[j] # NoWorker /\ j \notin batch[owner[j]]
  /\ EndRun(j)
  /\ WakeOwner(j)
  /\ UNCHANGED <<sync, loop, batch, hinted, listen, notified, announced, skipped>>

LoopEnqueue(j) ==
  /\ Enqueue(j)
  /\ Notify(j)
  /\ UNCHANGED <<sync, loop, batch, wakeup, hinted, listen, skipped>>

LoopCancel(j) ==
  /\ Cancel(j)
  /\ announced' = announced \ {j}
  /\ UNCHANGED <<sync, loop, batch, wakeup, hinted, listen, notified, skipped>>

\* Nothing is notified when run_after passes or the reaper hands a row back.
Unannounced(j) ==
  /\ ComeDue(j) \/ Reap(j)
  /\ UNCHANGED loopVars

\* The worker dies and is started anew.
Crash(w) ==
  /\ w \notin Dependable
  /\ Die(w)
  /\ loop' = [loop EXCEPT ![w] = "top"]
  /\ batch' = [batch EXCEPT ![w] = {}]
  /\ wakeup' = [wakeup EXCEPT ![w] = FALSE]
  /\ hinted' = [hinted EXCEPT ![w] = FALSE]
  /\ listen' = [listen EXCEPT ![w] = IF @ = "off" THEN "off" ELSE "down"]
  /\ notified' = [notified EXCEPT ![w] = FALSE]
  /\ skipped' = [skipped EXCEPT ![w] = FALSE]
  /\ UNCHANGED <<sync, announced>>

LoopTick == Tick /\ UNCHANGED loopVars

LoopInit ==
  /\ Init
  /\ \E d \in Deployments :
       /\ policy = d.policy /\ sync = d.sync
       /\ listen = [w \in Workers |-> IF w \in d.listeners THEN "down" ELSE "off"]
  /\ loop = [w \in Workers |-> "top"]
  /\ batch = [w \in Workers |-> {}]
  /\ wakeup = [w \in Workers |-> FALSE]
  /\ hinted = [w \in Workers |-> FALSE]
  /\ notified = [w \in Workers |-> FALSE]
  /\ announced = {}
  /\ skipped = [w \in Workers |-> FALSE]

LoopStep(w) ==
  \/ NextPass(w) \/ LoopLockBucket(w) \/ ClaimNothing(w) \/ ClaimSkipped(w)
  \/ ClaimHeldBack(w) \/ (\E S \in SUBSET Jobs : ClaimSome(w, S)) \/ ClaimFails(w)
  \/ \E j \in Jobs : HandBack(w, j) \/ HandBackFails(w, j) \/ StartLate(w, j)
  \/ Rest(w) \/ Wake(w) \/ TimeOut(w) \/ Relaunch(w) \/ Crash(w)

ListenerStep(w) ==
  Connect(w) \/ Listen(w) \/ LoseConnection(w) \/ NoticeLoss(w) \/ Deliver(w)

LoopNext ==
  \/ \E w \in Workers : LoopStep(w) \/ ListenerStep(w)
  \/ \E j \in Jobs :
       RunEnds(j) \/ LoopEnqueue(j) \/ LoopCancel(j) \/ Unannounced(j)
  \/ LoopTick

LoopSpec == LoopInit /\ [][LoopNext]_allVars

LoopAdvances(w) ==
  \/ NextPass(w) \/ LoopLockBucket(w) \/ ClaimSkipped(w) \/ ClaimNothing(w)
  \/ Rest(w) \/ TimeOut(w)
  \/ \E j \in Jobs : HandBack(w, j) \/ StartLate(w, j)

ClaimReturns(w) == ClaimHeldBack(w) \/ \E S \in SUBSET Jobs : ClaimSome(w, S)

\* Time passes, runs end, or the reaper ends them, and a loop whose awaits are
\* over goes on.  A claim that is tried again and again succeeds at some point,
\* and one of a worker that stays up finds the bucket free.
LoopFairness ==
  /\ WF_allVars(LoopTick)
  /\ WF_allVars(\E j \in Jobs : RunEnds(j) \/ (Reap(j) /\ UNCHANGED loopVars))
  /\ \A w \in Workers : WF_allVars(LoopAdvances(w)) /\ SF_allVars(ClaimReturns(w))
  /\ \A w \in Dependable : SF_allVars(LoopLockBucket(w))

FairLoopSpec == LoopSpec /\ LoopFairness

(* ---------------------------- properties ----------------------------- *)

LoopTypeOK ==
  /\ TypeOK
  /\ sync \in BOOLEAN
  /\ loop \in [Workers -> Waits \cup {"top", "claiming", "returning", "failed", "stopped"}]
  /\ batch \in [Workers -> SUBSET Jobs]
  /\ wakeup \in [Workers -> BOOLEAN] /\ hinted \in [Workers -> BOOLEAN]
  /\ notified \in [Workers -> BOOLEAN] /\ skipped \in [Workers -> BOOLEAN]
  /\ listen \in [Workers -> {"off", "down", "connected", "listening", "lost"}]
  /\ announced \subseteq Jobs

\* No wakeup is lost: a listening worker that settles down for the long poll
\* leaves no row waiting that a NOTIFY announced, unless its claim found the
\* bucket locked by another claim.
NoLostWakeup ==
  \A w \in Workers :
    /\ loop[w] = "idle" /\ listen[w] = "listening"
    /\ ~hinted[w] /\ ~skipped[w] /\ ~wakeup[w] /\ ~notified[w]
    => \A j \in announced : status[j] # "READY"

\* --once ends only when no row is due that it could have waited for: one held
\* back by a limit keeps it alive, only a bucket locked by another hides rows.
OnceStopsWhenDone ==
  [][\A w \in Once :
       loop[w] # "stopped" /\ loop'[w] = "stopped" =>
         Due(w) = {} \/ lock \notin {NoWorker, w}]_allVars

\* A limit that ever allows a run never stalls the path: no row stays due for
\* ever while none of the path runs.
DueWorkRuns ==
  policy.rate = 0 \/ policy.capacity >= Unit =>
    \A j \in Jobs : []<>(status[j] # "READY" \/ Running # {})

=============================================================================
