-------------------------- MODULE TaskQueue_proofs --------------------------
(***************************************************************************)
(* Proofs about TaskQueue, for every set of tasks and workers and every    *)
(* retry budget: types, threads, and the memory of cancel requests.        *)
(***************************************************************************)
EXTENDS TaskQueueProperties, FiniteSetTheorems, TLAPS

(* What TypeOK needs to be inductive: release subtracts one from attempts,  *)
(* which stays a number because a claimed row has been attempted; and a     *)
(* claim under way belongs to a worker, so that it never "owns" a row that  *)
(* nobody has claimed.                                                      *)
ClaimsCounted == \A t \in Tasks : row[t].claimed_by # NoWorker => row[t].attempts > 0

RunsHaveWorkers ==
  \A t \in Tasks, s \in Slots : run[t][s].pc # "idle" => run[t][s].worker \in Workers

TypeInv == TypeOK /\ ClaimsCounted /\ RunsHaveWorkers

-----------------------------------------------------------------------------
(* Each row operator returns a row.                                         *)

LEMMA RowOperators ==
  ASSUME NEW x \in Rows
  PROVE  /\ Unclaimed(x) \in Rows
         /\ Beat(x) \in Rows
         /\ RetriedRow(x) \in Rows
         /\ \A reset \in BOOLEAN : RequeuedRow(x, reset) \in Rows
         /\ x.status \in {"READY", "RUNNING"} => CancelledRow(x) \in Rows
         /\ \A w \in Workers : ClaimedRow(x, w) \in Rows
         /\ x.attempts > 0 => ReleasedRow(x) \in Rows
         /\ \A r \in Runs : FailedRow(x, r) \in Rows
<1>1. Unclaimed(x) \in Rows
  BY DEF Rows, Unclaimed
<1>2. Beat(x) \in Rows
  BY DEF Rows, Beat
<1>3. RetriedRow(x) \in Rows
  BY <1>1 DEF Rows, RetriedRow
<1>4. \A reset \in BOOLEAN : RequeuedRow(x, reset) \in Rows
  BY <1>1 DEF Rows, RequeuedRow, Errors
<1>5. x.status \in {"READY", "RUNNING"} => CancelledRow(x) \in Rows
  BY DEF Rows, CancelledRow, Errors
<1>6. \A w \in Workers : ClaimedRow(x, w) \in Rows
  <2>1. x.attempts + 1 \in Nat
    BY DEF Rows
  <2>2. QED
    BY <2>1 DEF Rows, ClaimedRow
<1>7. x.attempts > 0 => ReleasedRow(x) \in Rows
  <2>1. SUFFICES ASSUME x.attempts > 0 PROVE ReleasedRow(x) \in Rows
    OBVIOUS
  <2>2. x.attempts - 1 \in Nat
    BY <2>1 DEF Rows
  <2>3. Unclaimed(x).attempts - 1 \in Nat
    BY <2>2 DEF Unclaimed, Rows
  <2>4. QED
    BY <1>1, <2>3 DEF Rows, ReleasedRow
<1>8. \A r \in Runs : FailedRow(x, r) \in Rows
  BY DEF Rows, Runs, FailedRow
<1>9. QED
  BY <1>1, <1>2, <1>3, <1>4, <1>5, <1>6, <1>7, <1>8

\* Setting one row, or one run, keeps the table and the runs well typed.
LEMMA SetOne ==
  ASSUME TypeOK, NEW t \in Tasks, NEW s \in Slots
  PROVE  /\ \A x \in Rows : [row EXCEPT ![t] = x] \in [Tasks -> Rows]
         /\ \A r \in Runs : [run EXCEPT ![t][s] = r] \in [Tasks -> [Slots -> Runs]]
         /\ row[t] \in Rows /\ run[t][s] \in Runs
         /\ NoRun \in Runs
  BY DEF TypeOK, NoRun, Runs, Inflight, Errors

\* Setting one run leaves the others alone.
LEMMA OneRunSet ==
  ASSUME TypeInv, NEW t \in Tasks, NEW s \in Slots, NEW r, SetRun(t, s, r)
  PROVE  \A t2 \in Tasks, s2 \in Slots :
           run'[t2][s2] = IF t2 = t /\ s2 = s THEN r ELSE run[t2][s2]
  BY DEF SetRun, TypeInv, TypeOK

\* What each row operator does to the columns the invariants speak of.
LEMMA RowFields ==
  ASSUME NEW x \in Rows
  PROVE  /\ /\ Unclaimed(x).status = x.status
            /\ Unclaimed(x).attempts = x.attempts
            /\ Unclaimed(x).claimed_by = NoWorker
            /\ Unclaimed(x).heartbeat = "none"
         /\ /\ Beat(x).status = x.status
            /\ Beat(x).attempts = x.attempts
            /\ Beat(x).claimed_by = x.claimed_by
            /\ Beat(x).heartbeat = "fresh"
         /\ /\ RetriedRow(x).status = "READY"
            /\ RetriedRow(x).attempts = x.attempts
            /\ RetriedRow(x).claimed_by = NoWorker
            /\ RetriedRow(x).heartbeat = "none"
         /\ \A reset \in BOOLEAN :
              /\ RequeuedRow(x, reset).status = "READY"
              /\ RequeuedRow(x, reset).attempts = IF reset THEN 0 ELSE x.attempts
              /\ RequeuedRow(x, reset).claimed_by = NoWorker
              /\ RequeuedRow(x, reset).heartbeat = "none"
         /\ \A w \in Workers :
              /\ ClaimedRow(x, w).status = "RUNNING"
              /\ ClaimedRow(x, w).attempts = x.attempts + 1
              /\ ClaimedRow(x, w).claimed_by = w
              /\ ClaimedRow(x, w).heartbeat = "fresh"
         /\ /\ ReleasedRow(x).status = "READY"
            /\ ReleasedRow(x).attempts = x.attempts - 1
            /\ ReleasedRow(x).claimed_by = NoWorker
            /\ ReleasedRow(x).heartbeat = "none"
         /\ \A r \in Runs :
              /\ FailedRow(x, r).status = IF r.retry THEN x.status ELSE "FAILED"
              /\ FailedRow(x, r).attempts = x.attempts
              /\ FailedRow(x, r).claimed_by = x.claimed_by
              /\ FailedRow(x, r).heartbeat = x.heartbeat
         /\ x.status \in {"READY", "RUNNING"} =>
              /\ CancelledRow(x).status = IF x.status = "READY" THEN "FAILED" ELSE "RUNNING"
              /\ CancelledRow(x).attempts = x.attempts
              /\ CancelledRow(x).claimed_by = x.claimed_by
              /\ CancelledRow(x).heartbeat = x.heartbeat
<1>1. /\ Unclaimed(x) \in Rows
      /\ Unclaimed(x).status = x.status
      /\ Unclaimed(x).attempts = x.attempts
      /\ Unclaimed(x).claimed_by = NoWorker
      /\ Unclaimed(x).heartbeat = "none"
  BY DEF Rows, Unclaimed
<1>2. /\ Beat(x).status = x.status
      /\ Beat(x).attempts = x.attempts
      /\ Beat(x).claimed_by = x.claimed_by
      /\ Beat(x).heartbeat = "fresh"
  BY DEF Rows, Beat
<1>3. /\ RetriedRow(x).status = "READY"
      /\ RetriedRow(x).attempts = x.attempts
      /\ RetriedRow(x).claimed_by = NoWorker
      /\ RetriedRow(x).heartbeat = "none"
  BY <1>1 DEF Rows, RetriedRow
<1>4. \A reset \in BOOLEAN :
        /\ RequeuedRow(x, reset).status = "READY"
        /\ RequeuedRow(x, reset).attempts = IF reset THEN 0 ELSE x.attempts
        /\ RequeuedRow(x, reset).claimed_by = NoWorker
        /\ RequeuedRow(x, reset).heartbeat = "none"
  BY <1>1 DEF Rows, RequeuedRow
<1>5. \A w \in Workers :
        /\ ClaimedRow(x, w).status = "RUNNING"
        /\ ClaimedRow(x, w).attempts = x.attempts + 1
        /\ ClaimedRow(x, w).claimed_by = w
        /\ ClaimedRow(x, w).heartbeat = "fresh"
  BY DEF Rows, ClaimedRow
<1>6. /\ ReleasedRow(x).status = "READY"
      /\ ReleasedRow(x).attempts = x.attempts - 1
      /\ ReleasedRow(x).claimed_by = NoWorker
      /\ ReleasedRow(x).heartbeat = "none"
  BY <1>1 DEF Rows, ReleasedRow
<1>7. \A r \in Runs :
        /\ FailedRow(x, r).status = IF r.retry THEN x.status ELSE "FAILED"
        /\ FailedRow(x, r).attempts = x.attempts
        /\ FailedRow(x, r).claimed_by = x.claimed_by
        /\ FailedRow(x, r).heartbeat = x.heartbeat
  BY DEF Rows, Runs, FailedRow
<1>8. x.status \in {"READY", "RUNNING"} =>
        /\ CancelledRow(x).status = IF x.status = "READY" THEN "FAILED" ELSE "RUNNING"
        /\ CancelledRow(x).attempts = x.attempts
        /\ CancelledRow(x).claimed_by = x.claimed_by
        /\ CancelledRow(x).heartbeat = x.heartbeat
  BY DEF Rows, CancelledRow
<1>9. QED
  BY <1>1, <1>2, <1>3, <1>4, <1>5, <1>6, <1>7, <1>8

-----------------------------------------------------------------------------
(* Type correctness                                                         *)

LEMMA InitTypeInv == Init => TypeInv
  BY BoundAssumption
  DEF Init, TypeInv, TypeOK, ClaimsCounted, RunsHaveWorkers, NoRow, Rows, NoRun, Runs,
      Errors, Inflight

\* A step that sets the row of one task.
LEMMA RowChange ==
  ASSUME TypeInv, NEW t \in Tasks, NEW x \in Rows,
         x.claimed_by # NoWorker => x.attempts > 0,
         row' = [row EXCEPT ![t] = x]
  PROVE  row' \in [Tasks -> Rows] /\ ClaimsCounted'
  BY DEF TypeInv, TypeOK, ClaimsCounted

\* A step that sets the run in one slot.
LEMMA RunChange ==
  ASSUME TypeInv, NEW t \in Tasks, NEW s \in Slots, NEW r \in Runs,
         r.pc # "idle" => r.worker \in Workers,
         SetRun(t, s, r)
  PROVE  run' \in [Tasks -> [Slots -> Runs]] /\ RunsHaveWorkers'
<1>1. run' = [run EXCEPT ![t][s] = r]
  BY DEF SetRun
<1>2. run' \in [Tasks -> [Slots -> Runs]]
  BY <1>1, SetOne DEF TypeInv
<1>3. \A t2 \in Tasks, s2 \in Slots :
        run'[t2][s2] = IF t2 = t /\ s2 = s THEN r ELSE run[t2][s2]
  BY <1>1 DEF TypeInv, TypeOK
<1>4. QED
  BY <1>2, <1>3 DEF TypeInv, RunsHaveWorkers

\* A run that ends: its slot and the worker's memory of a cancel request.
LEMMA EndChange ==
  ASSUME TypeInv, NEW t \in Tasks, NEW s \in Slots, End(t, s)
  PROVE  /\ run' \in [Tasks -> [Slots -> Runs]] /\ RunsHaveWorkers'
         /\ cancel_seen' \in [Workers -> SUBSET Tasks]
<1>1. NoRun \in Runs /\ NoRun.pc = "idle"
  BY SetOne DEF TypeInv, NoRun
<1>2. run' \in [Tasks -> [Slots -> Runs]] /\ RunsHaveWorkers'
  BY <1>1, RunChange DEF End
<1>3. cancel_seen' \in [Workers -> SUBSET Tasks]
  BY DEF End, TypeInv, TypeOK
<1>4. QED
  BY <1>2, <1>3

LEMMA ProducersKeepTypeInv ==
  ASSUME TypeInv, NEW t \in Tasks
  PROVE  /\ \A due \in BOOLEAN : Enqueue(t, due) => TypeInv'
         /\ Cancel(t) => TypeInv'
         /\ \A reset \in ResetChoices : Requeue(t, reset) => TypeInv'
         /\ BecomeDue(t) => TypeInv'
         /\ GoStale(t) => TypeInv'
<1> DEFINE Others == UNCHANGED <<run, current, zombies, cancel_seen, mode>>
<1>1. row[t] \in Rows /\ (row[t].claimed_by # NoWorker => row[t].attempts > 0)
  BY DEF TypeInv, TypeOK, ClaimsCounted
<1>2. ASSUME NEW x \in Rows, x.claimed_by # NoWorker => x.attempts > 0,
             row' = [row EXCEPT ![t] = x], Others, requeues' \in [Tasks -> 0..MaxRequeues]
      PROVE  TypeInv'
  BY <1>2, RowChange DEF TypeInv, TypeOK, RunsHaveWorkers
<1>3. requeues \in [Tasks -> 0..MaxRequeues]
  BY DEF TypeInv, TypeOK
<1>4. ASSUME NEW due \in BOOLEAN, Enqueue(t, due)
      PROVE  TypeInv'
  <2> DEFINE x == [row[t] EXCEPT !.status = "READY", !.due = due]
  <2>1. x \in Rows /\ x.claimed_by = row[t].claimed_by /\ x.attempts = row[t].attempts
    BY <1>1 DEF Rows
  <2>2. row' = [row EXCEPT ![t] = x]
    BY <1>4 DEF Enqueue, TypeInv, TypeOK
  <2>3. QED
    BY <1>1, <1>2, <1>3, <1>4, <2>1, <2>2 DEF Enqueue
<1>5. ASSUME Cancel(t)
      PROVE  TypeInv'
  <2>1. CancelledRow(row[t]) \in Rows
    BY <1>1, <1>5, RowOperators DEF Cancel
  <2>2. /\ CancelledRow(row[t]).claimed_by = row[t].claimed_by
        /\ CancelledRow(row[t]).attempts = row[t].attempts
    BY <1>1, <1>5, RowFields DEF Cancel
  <2>3. QED
    BY <1>1, <1>2, <1>3, <1>5, <2>1, <2>2 DEF Cancel
<1>6. ASSUME NEW reset \in ResetChoices, Requeue(t, reset)
      PROVE  TypeInv'
  <2>1. reset \in BOOLEAN
    BY TaskAssumption
  <2>2. RequeuedRow(row[t], reset) \in Rows
    BY <1>1, <2>1, RowOperators
  <2>3. RequeuedRow(row[t], reset).claimed_by = NoWorker
    BY <1>1, <2>1, RowFields
  <2>4. requeues' \in [Tasks -> 0..MaxRequeues]
    BY <1>3, <1>6, BoundAssumption DEF Requeue
  <2>5. QED
    BY <1>2, <1>6, <2>2, <2>3, <2>4 DEF Requeue
<1>7. ASSUME BecomeDue(t)
      PROVE  TypeInv'
  <2> DEFINE x == [row[t] EXCEPT !.due = TRUE]
  <2>1. x \in Rows /\ x.claimed_by = row[t].claimed_by /\ x.attempts = row[t].attempts
    BY <1>1 DEF Rows
  <2>2. row' = [row EXCEPT ![t] = x]
    BY <1>7 DEF BecomeDue, TypeInv, TypeOK
  <2>3. QED
    BY <1>1, <1>2, <1>3, <1>7, <2>1, <2>2 DEF BecomeDue
<1>8. ASSUME GoStale(t)
      PROVE  TypeInv'
  <2> DEFINE x == [row[t] EXCEPT !.heartbeat = "stale"]
  <2>1. x \in Rows /\ x.claimed_by = row[t].claimed_by /\ x.attempts = row[t].attempts
    BY <1>1 DEF Rows
  <2>2. row' = [row EXCEPT ![t] = x]
    BY <1>8 DEF GoStale, TypeInv, TypeOK
  <2>3. QED
    BY <1>1, <1>2, <1>3, <1>8, <2>1, <2>2 DEF GoStale
<1>9. QED
  BY <1>4, <1>5, <1>6, <1>7, <1>8

\* Moving a run on keeps it a run of the same worker.
LEMMA RunUpdates ==
  ASSUME TypeInv, NEW t \in Tasks, NEW s \in Slots, run[t][s].pc # "idle"
  PROVE  /\ run[t][s] \in Runs /\ run[t][s].worker \in Workers
         /\ \A pc \in Inflight :
              /\ [run[t][s] EXCEPT !.pc = pc] \in Runs
              /\ [run[t][s] EXCEPT !.pc = pc].worker = run[t][s].worker
         /\ LET r == [run[t][s] EXCEPT !.pc = "executing", !.beating = TRUE]
            IN r \in Runs /\ r.worker = run[t][s].worker
         /\ \A pc \in {"nacking", "acking"} :
              LET r == [run[t][s] EXCEPT !.pc = pc, !.error = "none", !.retry = FALSE]
              IN r \in Runs /\ r.worker = run[t][s].worker
<1>1. run[t][s] \in Runs /\ run[t][s].worker \in Workers
  BY DEF TypeInv, TypeOK, RunsHaveWorkers
<1>2. \A pc \in Inflight :
        /\ [run[t][s] EXCEPT !.pc = pc] \in Runs
        /\ [run[t][s] EXCEPT !.pc = pc].worker = run[t][s].worker
  BY <1>1 DEF Runs
<1>3. LET r == [run[t][s] EXCEPT !.pc = "executing", !.beating = TRUE]
      IN r \in Runs /\ r.worker = run[t][s].worker
  BY <1>1 DEF Runs, Inflight
<1>4. \A pc \in {"nacking", "acking"} :
        LET r == [run[t][s] EXCEPT !.pc = pc, !.error = "none", !.retry = FALSE]
        IN r \in Runs /\ r.worker = run[t][s].worker
  BY <1>1 DEF Runs, Inflight, Errors
<1>5. QED
  BY <1>1, <1>2, <1>3, <1>4

LEMMA FailingKeepsRuns ==
  ASSUME TypeInv, NEW t \in Tasks, NEW s \in Slots, run[t][s].pc # "idle",
         NEW e \in Errors, Failing(t, s, e)
  PROVE  run' \in [Tasks -> [Slots -> Runs]] /\ RunsHaveWorkers'
<1> DEFINE r(b) == FailingRun(run[t][s], b, e)
<1>1. \A b \in BOOLEAN : r(b) \in Runs /\ r(b).worker \in Workers
  <2>1. run[t][s] \in Runs /\ run[t][s].worker \in Workers
    BY RunUpdates
  <2>2. QED
    BY <2>1 DEF Runs, Inflight, Errors, FailingRun
<1>2. WillRetry(t, run[t][s], e) \in BOOLEAN
  BY DEF WillRetry
<1>3. SetRun(t, s, r(WillRetry(t, run[t][s], e)))
  BY DEF Failing
<1>4. \A b \in BOOLEAN :
        SetRun(t, s, r(b)) => run' \in [Tasks -> [Slots -> Runs]] /\ RunsHaveWorkers'
  BY <1>1, RunChange
<1> HIDE DEF r
<1>5. QED
  BY <1>2, <1>3, <1>4, Zenon

\* One more thread that runs on without its claim.
LEMMA ZombieChange ==
  ASSUME TypeInv, NEW t \in Tasks, NEW s \in Slots, NEW w \in Workers
  PROVE  [zombies EXCEPT ![w] = @ \cup {<<t, s>>}] \in [Workers -> SUBSET (Tasks \X Slots)]
<1>1. zombies[w] \cup {<<t, s>>} \in SUBSET (Tasks \X Slots)
  BY DEF TypeInv, TypeOK
<1>2. QED
  BY <1>1 DEF TypeInv, TypeOK

LEMMA RunStepKeepsTypeInv ==
  ASSUME TypeInv, NEW t \in Tasks, NEW s \in Slots, RunStep(t, s)
  PROVE  TypeInv'
<1> DEFINE RunsOK == run' \in [Tasks -> [Slots -> Runs]] /\ RunsHaveWorkers'
           RowsOK == row' \in [Tasks -> Rows] /\ ClaimsCounted'
           RestOK == /\ zombies' \in [Workers -> SUBSET (Tasks \X Slots)]
                     /\ cancel_seen' \in [Workers -> SUBSET Tasks]
                     /\ UNCHANGED <<current, mode, requeues>>
<1>1. RunsOK /\ RowsOK /\ RestOK => TypeInv'
  BY DEF TypeInv, TypeOK
<1>2. UNCHANGED row => RowsOK
  BY DEF TypeInv, TypeOK, ClaimsCounted
<1>3. UNCHANGED <<zombies, cancel_seen, current, mode, requeues>> => RestOK
  BY DEF TypeInv, TypeOK
<1>4. row[t] \in Rows /\ NoRun \in Runs /\ NoRun.pc = "idle"
  BY SetOne DEF TypeInv, NoRun
<1>5. ASSUME NEW pc \in Inflight, run[t][s].pc # "idle", Goto(t, s, pc)
      PROVE  RunsOK
  BY <1>5, RunUpdates, RunChange DEF Goto
<1>6. SetRun(t, s, NoRun) => RunsOK
  BY <1>4, RunChange
<1>7. ASSUME NEW x \in Rows, x.claimed_by # NoWorker => x.attempts > 0,
             row' = [row EXCEPT ![t] = x]
      PROVE  RowsOK
  BY <1>7, RowChange
<1>8. CASE Start(t, s)
  BY <1>1, <1>2, <1>3, <1>5, <1>8 DEF Start, Inflight
<1>9. CASE Release(t, s)
  <2>1. CASE Owns(run[t][s], row[t])
    <3>1. run[t][s].worker \in Workers
      BY <1>9, RunUpdates DEF Release
    <3>2. row[t].attempts > 0
      BY <2>1, <3>1, TaskAssumption DEF Owns, Token, TypeInv, ClaimsCounted
    <3>3. ReleasedRow(row[t]) \in Rows /\ ReleasedRow(row[t]).claimed_by = NoWorker
      BY <1>4, <3>2, RowOperators, RowFields
    <3>4. RowsOK
      BY <1>7, <1>9, <2>1, <3>3 DEF Release
    <3>5. QED
      BY <1>1, <1>3, <1>6, <1>9, <3>4 DEF Release
  <2>2. CASE ~Owns(run[t][s], row[t])
    BY <1>1, <1>2, <1>3, <1>6, <1>9, <2>2 DEF Release
  <2>3. QED
    BY <2>1, <2>2
<1>10. CASE ReleaseFails(t, s)
  BY <1>1, <1>2, <1>3, <1>6, <1>10 DEF ReleaseFails
<1>11. CASE MarkRunning(t, s)
  BY <1>1, <1>2, <1>3, <1>5, <1>11 DEF MarkRunning, Inflight
<1>12. CASE LoseClaim(t, s)
  <2>1. RunsOK /\ cancel_seen' \in [Workers -> SUBSET Tasks]
    BY <1>12, EndChange DEF LoseClaim
  <2>2. RestOK
    BY <1>12, <2>1 DEF LoseClaim, TypeInv, TypeOK
  <2>3. QED
    BY <1>1, <1>2, <1>12, <2>1, <2>2 DEF LoseClaim
<1>13. CASE Load(t, s)
  <2>1. RunsOK
    BY <1>13, RunUpdates, RunChange DEF Load
  <2>2. QED
    BY <1>1, <1>2, <1>3, <1>13, <2>1 DEF Load
<1>14. ASSUME NEW e \in {"error", "unlisted"}, LoadFails(t, s, e)
       PROVE  TypeInv'
  BY <1>1, <1>2, <1>3, <1>14, FailingKeepsRuns DEF LoadFails, Errors
<1>15. CASE Return(t, s)
  BY <1>1, <1>2, <1>3, <1>5, <1>15 DEF Return, Inflight
<1>16. ASSUME NEW e \in {"error", "unlisted"}, Raise(t, s, e)
       PROVE  TypeInv'
  BY <1>1, <1>2, <1>3, <1>16, FailingKeepsRuns DEF Raise, Errors
<1>17. CASE TimeOut(t, s)
  <2>1. RunsOK
    <3>1. PICK e \in Errors : Failing(t, s, e)
      BY <1>17 DEF TimeOut, Errors
    <3>2. QED
      BY <1>17, <3>1, FailingKeepsRuns DEF TimeOut
  <2>2. RestOK
    <3>1. run[t][s].worker \in Workers
      BY <1>17, RunUpdates DEF TimeOut
    <3>2. zombies' \in [Workers -> SUBSET (Tasks \X Slots)]
      BY <1>17, <3>1, ZombieChange DEF TimeOut, TypeInv, TypeOK
    <3>3. QED
      BY <1>17, <3>2 DEF TimeOut, TypeInv, TypeOK
  <2>3. QED
    BY <1>1, <1>2, <1>17, <2>1, <2>2 DEF TimeOut
<1>18. CASE Interrupt(t, s)
  BY <1>1, <1>2, <1>3, <1>18, FailingKeepsRuns DEF Interrupt, Errors
<1>19. CASE MarkSuccessful(t, s)
  <2> DEFINE x == [row[t] EXCEPT !.status = "SUCCESSFUL"]
  <2>1. x \in Rows /\ x.claimed_by = row[t].claimed_by /\ x.attempts = row[t].attempts
    BY <1>4 DEF Rows
  <2>2. row' = [row EXCEPT ![t] = x]
    BY <1>19 DEF MarkSuccessful, TypeInv, TypeOK
  <2>3. RowsOK
    BY <1>7, <2>1, <2>2 DEF TypeInv, ClaimsCounted
  <2>4. QED
    BY <1>1, <1>3, <1>5, <1>19, <2>3 DEF MarkSuccessful, Inflight
<1>20. CASE MarkFailed(t, s)
  <2>1. run[t][s] \in Runs
    BY SetOne DEF TypeInv
  <2>2. /\ FailedRow(row[t], run[t][s]) \in Rows
        /\ FailedRow(row[t], run[t][s]).claimed_by = row[t].claimed_by
        /\ FailedRow(row[t], run[t][s]).attempts = row[t].attempts
    BY <1>4, <2>1, RowOperators, RowFields
  <2>3. RowsOK
    BY <1>7, <1>20, <2>2 DEF MarkFailed, TypeInv, ClaimsCounted
  <2>4. RunsOK
    BY <1>20, RunUpdates, RunChange DEF MarkFailed
  <2>5. QED
    BY <1>1, <1>3, <1>20, <2>3, <2>4 DEF MarkFailed
<1>21. CASE Nack(t, s)
  <2>1. RetriedRow(row[t]) \in Rows /\ RetriedRow(row[t]).claimed_by = NoWorker
    BY <1>4, RowOperators, RowFields
  <2>2. RowsOK
    BY <1>2, <1>7, <1>21, <2>1 DEF Nack
  <2>3. RunsOK /\ RestOK
    BY <1>21, EndChange DEF Nack, TypeInv, TypeOK
  <2>4. QED
    BY <1>1, <2>2, <2>3
<1>22. CASE Ack(t, s)
  <2>1. Unclaimed(row[t]) \in Rows /\ Unclaimed(row[t]).claimed_by = NoWorker
    BY <1>4, RowOperators, RowFields
  <2>2. RowsOK
    BY <1>2, <1>7, <1>22, <2>1 DEF Ack
  <2>3. RunsOK /\ RestOK
    BY <1>22, EndChange DEF Ack, TypeInv, TypeOK
  <2>4. QED
    BY <1>1, <2>2, <2>3
<1>23. QED
  BY <1>8, <1>9, <1>10, <1>11, <1>12, <1>13, <1>14, <1>15, <1>16, <1>17, <1>18,
     <1>19, <1>20, <1>21, <1>22 DEF RunStep

LEMMA InterruptsKeepTypeInv ==
  ASSUME TypeInv, NEW t \in Tasks, NEW s \in Slots
  PROVE  /\ Heartbeat(t, s) => TypeInv'
         /\ Die(t, s) => TypeInv'
         /\ Abandon(t, s) => TypeInv'
<1>1. row[t] \in Rows /\ run[t][s] \in Runs
  BY SetOne DEF TypeInv
<1>2. ASSUME Heartbeat(t, s)
      PROVE  TypeInv'
  <2>1. /\ Beat(row[t]) \in Rows /\ Beat(row[t]).claimed_by = row[t].claimed_by
        /\ Beat(row[t]).attempts = row[t].attempts
    BY <1>1, RowOperators, RowFields
  <2>2. row' \in [Tasks -> Rows] /\ ClaimsCounted'
    BY <1>2, <2>1, RowChange DEF Heartbeat, TypeInv, ClaimsCounted
  <2>3. cancel_seen' \in [Workers -> SUBSET Tasks]
    BY <1>2 DEF Heartbeat, TypeInv, TypeOK
  <2>4. QED
    BY <1>2, <2>2, <2>3 DEF Heartbeat, TypeInv, TypeOK, RunsHaveWorkers
<1>3. ASSUME Die(t, s)
      PROVE  TypeInv'
  BY <1>3, EndChange DEF Die, TypeInv, TypeOK, ClaimsCounted
<1>4. ASSUME Abandon(t, s)
      PROVE  TypeInv'
  <2>1. End(t, s) /\ run[t][s].pc # "idle"
    BY <1>4 DEF Abandon, Inflight
  <2>2. run[t][s].worker \in Workers
    BY <2>1, RunUpdates
  <2>3. zombies' \in [Workers -> SUBSET (Tasks \X Slots)]
    BY <1>4, <2>2, ZombieChange DEF Abandon, TypeInv, TypeOK
  <2>4. QED
    BY <1>4, <2>1, <2>3, EndChange DEF Abandon, TypeInv, TypeOK, ClaimsCounted
<1>5. QED
  BY <1>2, <1>3, <1>4

LEMMA WorkersKeepTypeInv ==
  ASSUME TypeInv, NEW w \in Workers
  PROVE  /\ \A S \in SUBSET Tasks : Claim(w, S) => TypeInv'
         /\ \A S \in SUBSET Tasks : Reap(w, S) => TypeInv'
         /\ ReadBack(w) => TypeInv'
         /\ LoseBatch(w) => TypeInv'
         /\ \A k \in Tasks \X Slots : ThreadReturns(w, k) => TypeInv'
         /\ RequestShutdown(w) => TypeInv'
         /\ Crash(w) => TypeInv'
<1>1. \A t \in Tasks : row[t] \in Rows /\ \A s \in Slots : run[t][s] \in Runs
  BY SetOne DEF TypeInv, TypeOK
<1>2. NoRun \in Runs /\ NoRun.pc = "idle"
  BY DEF NoRun, Runs, Errors
<1>3. ASSUME NEW S \in SUBSET Tasks, Claim(w, S)
      PROVE  TypeInv'
  <2> DEFINE r == [NoRun EXCEPT !.pc = "claimed", !.worker = w]
  <2>1. r \in Runs /\ r.worker \in Workers
    BY <1>2 DEF Runs
  <2>2. \A t \in S : FreeSlot(t) \in Slots
    BY <1>3 DEF Claim, Due, FreeSlot, FreeSlots
  <2>3. row' \in [Tasks -> Rows] /\ ClaimsCounted'
    <3>1. ASSUME NEW t \in Tasks
          PROVE  ClaimedRow(row[t], w) \in Rows /\ ClaimedRow(row[t], w).attempts > 0
      <4>1. row[t] \in Rows /\ row[t].attempts \in Nat
        BY <1>1 DEF Rows
      <4>2. ClaimedRow(row[t], w).attempts = row[t].attempts + 1
        BY <4>1, RowFields
      <4>3. QED
        BY <4>1, <4>2, RowOperators
    <3>2. QED
      BY <1>1, <1>3, <3>1 DEF Claim, TypeInv, ClaimsCounted
  <2>4. run' \in [Tasks -> [Slots -> Runs]] /\ RunsHaveWorkers'
    <3>1. \A t \in Tasks : run'[t] = IF t \in S THEN [run[t] EXCEPT ![FreeSlot(t)] = r] ELSE run[t]
      BY <1>3 DEF Claim
    <3>2. run' = [t \in Tasks |-> run'[t]]
      BY <1>3 DEF Claim
    <3>3. \A t \in Tasks : run[t] \in [Slots -> Runs]
      BY DEF TypeInv, TypeOK
    <3>4. \A t \in Tasks : run'[t] \in [Slots -> Runs]
      BY <2>1, <3>1, <3>3
    <3>5. \A t \in Tasks, s \in Slots : run'[t][s] \in {run[t][s], r}
      BY <3>1, <3>3
    <3>6. QED
      BY <2>1, <3>2, <3>4, <3>5 DEF TypeInv, RunsHaveWorkers
  <2>5. current' \in [Tasks -> Slots \cup {0}]
    BY <1>3, <2>2 DEF Claim, TypeInv, TypeOK
  <2>6. QED
    BY <1>3, <2>3, <2>4, <2>5 DEF Claim, TypeInv, TypeOK
<1>4. ASSUME NEW S \in SUBSET Tasks, Reap(w, S)
      PROVE  TypeInv'
  <2>1. \A t \in Tasks : ReclaimedRow(t) \in Rows /\ ReclaimedRow(t).claimed_by = NoWorker
    <3>1. TAKE t \in Tasks
    <3>2. /\ Unclaimed(row[t]) \in Rows /\ Unclaimed(row[t]).claimed_by = NoWorker
          /\ RetriedRow(row[t]) \in Rows /\ RetriedRow(row[t]).claimed_by = NoWorker
      BY <1>1, RowOperators, RowFields
    <3>3. \A y \in Rows :
            /\ [y EXCEPT !.status = "FAILED", !.error = "stale"] \in Rows
            /\ [y EXCEPT !.status = "FAILED", !.error = "stale"].claimed_by = y.claimed_by
      BY DEF Rows, Errors
    <3>4. QED
      BY <3>2, <3>3 DEF ReclaimedRow
  <2>2. row' \in [Tasks -> Rows] /\ ClaimsCounted'
    BY <1>1, <1>4, <2>1 DEF Reap, TypeInv, ClaimsCounted
  <2>3. QED
    BY <1>4, <2>2 DEF Reap, TypeInv, TypeOK, RunsHaveWorkers
<1>5. ASSUME ReadBack(w)
      PROVE  TypeInv'
  <2> DEFINE r(t, s) == [run[t][s] EXCEPT !.pc = "batched", !.attempt = row[t].attempts]
  <2>1. \A t \in Tasks, s \in Slots : r(t, s) \in Runs /\ r(t, s).worker = run[t][s].worker
    <3>1. TAKE t \in Tasks, s \in Slots
    <3>2. run[t][s] \in Runs /\ row[t].attempts \in Nat
      BY <1>1 DEF Rows
    <3>3. \A x \in Runs, n \in Nat :
            LET y == [x EXCEPT !.pc = "batched", !.attempt = n]
            IN y \in Runs /\ y.worker = x.worker
      BY DEF Runs
    <3>4. QED
      BY <3>2, <3>3
  <2>2. \A t \in Tasks, s \in Slots : <<t, s>> \in Batch(w) => run[t][s].worker = w
    BY DEF Batch, RunsOf
  <2>3. run' = [t \in Tasks |-> [s \in Slots |->
                 IF <<t, s>> \in Batch(w) THEN r(t, s) ELSE run[t][s]]]
    BY <1>5 DEF ReadBack
  <2> HIDE DEF r
  <2>4. run' \in [Tasks -> [Slots -> Runs]] /\ RunsHaveWorkers'
    BY <1>1, <2>1, <2>2, <2>3 DEF TypeInv, RunsHaveWorkers
  <2>5. QED
    BY <1>5, <2>4 DEF ReadBack, TypeInv, TypeOK, ClaimsCounted
<1>6. ASSUME LoseBatch(w)
      PROVE  TypeInv'
  <2>1. run' \in [Tasks -> [Slots -> Runs]] /\ RunsHaveWorkers'
    BY <1>1, <1>2, <1>6 DEF LoseBatch, TypeInv, RunsHaveWorkers
  <2>2. QED
    BY <1>6, <2>1 DEF LoseBatch, TypeInv, TypeOK, ClaimsCounted
<1>7. ASSUME NEW k \in Tasks \X Slots, ThreadReturns(w, k)
      PROVE  TypeInv'
  <2>1. zombies' \in [Workers -> SUBSET (Tasks \X Slots)]
    <3>1. zombies[w] \ {k} \in SUBSET (Tasks \X Slots)
      BY DEF TypeInv, TypeOK
    <3>2. QED
      BY <1>7, <3>1 DEF ThreadReturns, TypeInv, TypeOK
  <2>2. QED
    BY <1>7, <2>1 DEF ThreadReturns, TypeInv, TypeOK, ClaimsCounted, RunsHaveWorkers
<1>8. ASSUME RequestShutdown(w)
      PROVE  TypeInv'
  BY <1>8 DEF RequestShutdown, TypeInv, TypeOK, ClaimsCounted, RunsHaveWorkers
<1>9. ASSUME Crash(w)
      PROVE  TypeInv'
  <2>1. run' \in [Tasks -> [Slots -> Runs]] /\ RunsHaveWorkers'
    BY <1>1, <1>2, <1>9 DEF Crash, TypeInv, RunsHaveWorkers
  <2>2. /\ zombies' \in [Workers -> SUBSET (Tasks \X Slots)]
        /\ cancel_seen' \in [Workers -> SUBSET Tasks]
        /\ mode' \in [Workers -> {"up", "draining", "down"}]
    BY <1>9 DEF Crash, TypeInv, TypeOK
  <2>3. QED
    BY <1>9, <2>1, <2>2 DEF Crash, TypeInv, TypeOK, ClaimsCounted
<1>10. QED
  BY <1>3, <1>4, <1>5, <1>6, <1>7, <1>8, <1>9

LEMMA StepTypeInv == TypeInv /\ [Next]_vars => TypeInv'
<1>1. CASE UNCHANGED vars
  BY <1>1 DEF vars, TypeInv, TypeOK, ClaimsCounted, RunsHaveWorkers
<1>2. ASSUME TypeInv, Next
      PROVE  TypeInv'
  BY <1>2, ProducersKeepTypeInv, RunStepKeepsTypeInv, InterruptsKeepTypeInv,
     WorkersKeepTypeInv DEF Next
<1>3. QED
  BY <1>1, <1>2

\* Every column of the table, every claim and every worker keeps its type;
\* above all attempts, a positive integer column that release decrements
\* (PostgresBroker.release), never goes below zero.
THEOREM TypeCorrect == Spec => []TypeOK
<1>1. TypeInv => TypeOK
  BY DEF TypeInv
<1>2. QED
  BY <1>1, InitTypeInv, StepTypeInv, PTL DEF Spec

-----------------------------------------------------------------------------
(* Threads.  Counting claims and leftover threads together, rather than one *)
(* plus the other as FreeSyncSlots does, makes the sum inductive: a run     *)
(* that times out has its thread in both.                                   *)

\* The claims of w that have a thread, or had one and left it running.
Threads(w) == zombies[w] \cup SyncInflight(w)

ThreadsCounted ==
  \A w \in Workers : IsFiniteSet(Threads(w)) /\ Cardinality(Threads(w)) <= Concurrency

\* A step that gives nobody a thread.
NoNewThread == \A w \in Workers : Threads(w)' \subseteq Threads(w)

LEMMA FewerThreads ==
  ASSUME ThreadsCounted, TypeInv, NoNewThread
  PROVE  ThreadsCounted'
<1> SUFFICES ASSUME NEW w \in Workers
             PROVE  IsFiniteSet(Threads(w)') /\ Cardinality(Threads(w)') <= Concurrency
  BY DEF ThreadsCounted
<1>1. IsFiniteSet(Threads(w)) /\ Cardinality(Threads(w)) <= Concurrency
  BY DEF ThreadsCounted
<1>2. /\ IsFiniteSet(Threads(w)')
      /\ Cardinality(Threads(w)') <= Cardinality(Threads(w))
  BY <1>1, FS_Subset DEF NoNewThread
<1>3. Cardinality(Threads(w)) \in Nat /\ Cardinality(Threads(w)') \in Nat
  BY <1>1, <1>2, FS_CardinalityType
<1> QED
  BY <1>1, <1>2, <1>3, BoundAssumption

\* A run that is under way stays with its worker or ends.
LEMMA SameThreads ==
  ASSUME TypeInv, NEW t \in Tasks, NEW s \in Slots, NEW r, SetRun(t, s, r),
         r.pc \in Inflight => run[t][s].pc \in Inflight /\ r.worker = run[t][s].worker,
         \A w \in Workers : zombies'[w] \subseteq Threads(w)
  PROVE  NoNewThread
<1> SUFFICES ASSUME NEW w \in Workers, NEW k \in SyncInflight(w)'
             PROVE  k \in SyncInflight(w)
  BY DEF NoNewThread, Threads
<1>1. k \in Tasks \X Slots /\ k[1] \in Sync /\ run'[k[1]][k[2]].worker = w
      /\ run'[k[1]][k[2]].pc \in Inflight
  BY DEF SyncInflight, RunsOf
<1>2. k[1] \in Tasks /\ k[2] \in Slots
  BY <1>1
<1>3. run'[k[1]][k[2]] = IF k[1] = t /\ k[2] = s THEN r ELSE run[k[1]][k[2]]
  BY <1>2, OneRunSet
<1> QED
  BY <1>1, <1>3 DEF SyncInflight, RunsOf

LEMMA StartThreads ==
  ASSUME ThreadsCounted, TypeInv, NEW t \in Tasks, NEW s \in Slots, Start(t, s)
  PROVE  ThreadsCounted'
<1> DEFINE r == [run[t][s] EXCEPT !.pc = "starting"]
<1>0. PICK w0 \in Workers : w0 = run[t][s].worker
  BY RunUpdates DEF Start, Inflight
<1>1. r.worker = w0 /\ run[t][s].pc = "batched"
  BY <1>0, RunUpdates DEF Start, Inflight
<1>2. \A t2 \in Tasks, s2 \in Slots :
        run'[t2][s2] = IF t2 = t /\ s2 = s THEN r ELSE run[t2][s2]
  BY OneRunSet DEF Start, Goto
<1>3. zombies' = zombies
  BY DEF Start
<1>4. ASSUME NEW w \in Workers, w # w0 \/ t \notin Sync
      PROVE  Threads(w)' \subseteq Threads(w)
  <2> SUFFICES ASSUME NEW k \in SyncInflight(w)'
               PROVE  k \in SyncInflight(w)
    BY <1>3 DEF Threads
  <2>1. /\ k \in Tasks \X Slots /\ k[1] \in Sync /\ run'[k[1]][k[2]].worker = w
        /\ run'[k[1]][k[2]].pc \in Inflight /\ k[1] \in Tasks /\ k[2] \in Slots
    BY DEF SyncInflight, RunsOf
  <2>2. run'[k[1]][k[2]] = IF k[1] = t /\ k[2] = s THEN r ELSE run[k[1]][k[2]]
    BY <1>2, <2>1
  <2>3. run'[k[1]][k[2]] = run[k[1]][k[2]]
    BY <1>1, <1>4, <2>1, <2>2
  <2> QED
    BY <2>1, <2>3 DEF SyncInflight, RunsOf
<1>5. ASSUME t \in Sync
      PROVE  /\ IsFiniteSet(Threads(w0)')
             /\ Cardinality(Threads(w0)') <= Concurrency
  <2>1. Threads(w0)' \subseteq Threads(w0) \cup {<<t, s>>}
    <3> SUFFICES ASSUME NEW k \in SyncInflight(w0)', k # <<t, s>>
                 PROVE  k \in SyncInflight(w0)
      BY <1>3, <1>1 DEF Threads
    <3>1. /\ k \in Tasks \X Slots /\ k[1] \in Sync /\ run'[k[1]][k[2]].worker = w0
          /\ run'[k[1]][k[2]].pc \in Inflight /\ k[1] \in Tasks /\ k[2] \in Slots
          /\ k = <<k[1], k[2]>>
      BY <1>1, <1>2 DEF SyncInflight, RunsOf
    <3> QED
      BY <1>2, <3>1 DEF SyncInflight, RunsOf
  <2> DEFINE Z == zombies[w0]
             I == SyncInflight(w0)
  <2>2. IsFiniteSet(Threads(w0))
    BY <1>1 DEF ThreadsCounted
  <2>3. IsFiniteSet(Z) /\ IsFiniteSet(I) /\ Threads(w0) = I \cup Z
    BY <2>2, FS_Subset DEF Threads
  <2>4. FreeSyncSlots(w0) > 0
    <3>1. FreeSyncSlots(w0) \in Int
      BY <2>3, FS_CardinalityType, BoundAssumption DEF FreeSyncSlots
    <3> QED
      BY <1>0, <1>5, <3>1 DEF Start, MustRelease
  <2>5. /\ Cardinality(I) \in Nat /\ Cardinality(Z) \in Nat
        /\ Cardinality(I \cap Z) \in Nat /\ Cardinality(I \cup Z) \in Nat
    BY <2>3, FS_CardinalityType, FS_Subset, FS_Union
  <2>6. Cardinality(I \cup Z) = Cardinality(I) + Cardinality(Z) - Cardinality(I \cap Z)
    BY <2>3, FS_Union
  <2>7. Cardinality(Threads(w0)) < Concurrency
    <3>1. Concurrency - Cardinality(I) - Cardinality(Z) > 0
      BY <2>4 DEF FreeSyncSlots
    <3> HIDE DEF I, Z
    <3> QED
      BY <2>3, <2>5, <2>6, <3>1, BoundAssumption
  <2>8. /\ IsFiniteSet(Threads(w0) \cup {<<t, s>>})
        /\ Cardinality(Threads(w0) \cup {<<t, s>>}) <= Concurrency
    <3>1. Cardinality(Threads(w0)) \in Nat
      BY <2>2, FS_CardinalityType
    <3>2. Cardinality(Threads(w0)) + 1 <= Concurrency
      BY <2>7, <3>1, BoundAssumption
    <3>3. /\ IsFiniteSet(Threads(w0) \cup {<<t, s>>})
          /\ \/ Cardinality(Threads(w0) \cup {<<t, s>>}) = Cardinality(Threads(w0))
             \/ Cardinality(Threads(w0) \cup {<<t, s>>}) = Cardinality(Threads(w0)) + 1
      BY <2>2, FS_AddElement
    <3> QED
      BY <3>1, <3>2, <3>3, BoundAssumption
  <2>9. /\ IsFiniteSet(Threads(w0)')
        /\ Cardinality(Threads(w0)') <= Cardinality(Threads(w0) \cup {<<t, s>>})
    BY <2>1, <2>8, FS_Subset
  <2> QED
    BY <2>8, <2>9, FS_CardinalityType, BoundAssumption
<1>6. ASSUME NEW w \in Workers, w # w0 \/ t \notin Sync
      PROVE  IsFiniteSet(Threads(w)') /\ Cardinality(Threads(w)') <= Concurrency
  <2>1. IsFiniteSet(Threads(w)) /\ Cardinality(Threads(w)) <= Concurrency
    BY DEF ThreadsCounted
  <2>2. /\ IsFiniteSet(Threads(w)')
        /\ Cardinality(Threads(w)') <= Cardinality(Threads(w))
    BY <1>4, <1>6, <2>1, FS_Subset
  <2> QED
    BY <2>1, <2>2, FS_CardinalityType, BoundAssumption
<1> QED
  BY <1>5, <1>6 DEF ThreadsCounted

\* What the other steps of a run do to it.
RunMoves(t, s) ==
  \E r : /\ SetRun(t, s, r)
         /\ r.pc \in Inflight => run[t][s].pc \in Inflight /\ r.worker = run[t][s].worker

LEMMA StepMovesRun ==
  ASSUME TypeInv, NEW t \in Tasks, NEW s \in Slots,
         RunStep(t, s) \/ Die(t, s) \/ Abandon(t, s), ~Start(t, s)
  PROVE  RunMoves(t, s)
<1>1. run[t][s] \in Runs /\ NoRun.pc = "idle"
  BY SetOne DEF TypeInv, NoRun
<1>2. ASSUME SetRun(t, s, NoRun)
      PROVE  RunMoves(t, s)
  BY <1>1, <1>2 DEF RunMoves, Inflight
<1>3. ASSUME NEW pc \in Inflight, Goto(t, s, pc), run[t][s].pc \in Inflight
      PROVE  RunMoves(t, s)
  <2>1. [run[t][s] EXCEPT !.pc = pc].worker = run[t][s].worker
    BY <1>1 DEF Runs
  <2> QED
    BY <1>3, <2>1 DEF Goto, RunMoves
<1>4. ASSUME NEW e, Failing(t, s, e), run[t][s].pc \in Inflight
      PROVE  RunMoves(t, s)
  <2> DEFINE r == FailingRun(run[t][s], WillRetry(t, run[t][s], e), e)
  <2>1. r.worker = run[t][s].worker
    BY <1>1 DEF Runs, FailingRun
  <2> QED
    BY <1>4, <2>1 DEF Failing, RunMoves
<1>5. CASE \/ Release(t, s) \/ ReleaseFails(t, s) \/ LoseClaim(t, s)
           \/ Nack(t, s) \/ Ack(t, s) \/ Die(t, s) \/ Abandon(t, s)
  BY <1>2, <1>5 DEF Release, ReleaseFails, LoseClaim, Nack, Ack, Die, Abandon, End
<1>6. CASE MarkRunning(t, s) \/ Return(t, s) \/ MarkSuccessful(t, s)
  BY <1>3, <1>6 DEF MarkRunning, Return, MarkSuccessful, Inflight
<1>7. CASE Load(t, s)
  <2>1. [run[t][s] EXCEPT !.pc = "executing", !.beating = TRUE].worker = run[t][s].worker
    BY <1>1 DEF Runs
  <2> QED
    BY <1>7, <2>1 DEF Load, RunMoves, Inflight
<1>8. CASE MarkFailed(t, s)
  <2> DEFINE r == [run[t][s] EXCEPT !.pc = IF run[t][s].retry THEN "nacking" ELSE "acking",
                                    !.error = "none", !.retry = FALSE]
  <2>1. r.worker = run[t][s].worker
    BY <1>1 DEF Runs
  <2> QED
    BY <1>8, <2>1 DEF MarkFailed, RunMoves, Inflight
<1>9. CASE \/ TimeOut(t, s) \/ Interrupt(t, s)
           \/ (\E e \in {"error", "unlisted"} : LoadFails(t, s, e) \/ Raise(t, s, e))
  BY <1>4, <1>9 DEF TimeOut, Interrupt, LoadFails, Raise, Inflight
<1> QED
  BY <1>5, <1>6, <1>7, <1>8, <1>9 DEF RunStep

LEMMA ThreadsStep == TypeInv /\ ThreadsCounted /\ [Next]_vars => ThreadsCounted'
<1> SUFFICES ASSUME TypeInv, ThreadsCounted, [Next]_vars
             PROVE  ThreadsCounted'
  OBVIOUS
<1>1. ASSUME NEW t \in Tasks, NEW s \in Slots,
             RunStep(t, s) \/ Die(t, s) \/ Abandon(t, s), ~Start(t, s)
      PROVE  ThreadsCounted'
  <2>1. PICK r : /\ SetRun(t, s, r)
                 /\ r.pc \in Inflight => run[t][s].pc \in Inflight /\ r.worker = run[t][s].worker
    BY <1>1, StepMovesRun DEF RunMoves
  <2>2. \/ UNCHANGED zombies
        \/ /\ zombies' = [zombies EXCEPT ![run[t][s].worker] = @ \cup {<<t, s>>}]
           /\ run[t][s].pc = "executing" /\ t \in Sync
    BY <1>1 DEF RunStep, Release, ReleaseFails, MarkRunning, LoseClaim, Load, LoadFails,
       Return, Raise, TimeOut, Interrupt, MarkSuccessful, MarkFailed, Nack, Ack, Die, Abandon
  <2>3. ASSUME NEW w \in Workers
        PROVE  zombies'[w] \subseteq Threads(w)
    BY <2>2 DEF Threads, SyncInflight, RunsOf, Inflight, TypeInv, TypeOK
  <2> QED
    BY <2>1, <2>3, SameThreads, FewerThreads
<1>2. ASSUME NEW t \in Tasks, NEW s \in Slots, Start(t, s)
      PROVE  ThreadsCounted'
  BY <1>2, StartThreads
<1>3. CASE UNCHANGED <<run, zombies>>
  BY <1>3 DEF ThreadsCounted, Threads, SyncInflight, RunsOf
<1>4. ASSUME NEW w \in Workers, ReadBack(w) \/ LoseBatch(w) \/ Crash(w)
      PROVE  ThreadsCounted'
  <2>1. ASSUME NEW t \in Tasks, NEW s \in Slots
        PROVE  run'[t][s].pc \in Inflight => run'[t][s] = run[t][s]
    <3>1. NoRun.pc \notin Inflight
      BY DEF NoRun, Inflight
    <3>2. run[t][s] \in Runs
      BY SetOne DEF TypeInv
    <3>3. [run[t][s] EXCEPT !.pc = "batched", !.attempt = row[t].attempts].pc \notin Inflight
      BY <3>2 DEF Runs, Inflight
    <3>4. run'[t][s] \in {run[t][s], NoRun,
                          [run[t][s] EXCEPT !.pc = "batched", !.attempt = row[t].attempts]}
      <4>1. CASE ReadBack(w)
        BY <4>1 DEF ReadBack
      <4>2. CASE LoseBatch(w)
        BY <4>2 DEF LoseBatch
      <4>3. CASE Crash(w)
        BY <4>3 DEF Crash
      <4> QED
        BY <1>4, <4>1, <4>2, <4>3
    <3> QED
      BY <3>1, <3>3, <3>4, Zenon
  <2>2. \A v \in Workers : zombies'[v] \subseteq zombies[v]
    BY <1>4 DEF ReadBack, LoseBatch, Crash, TypeInv, TypeOK
  <2>3. NoNewThread
    BY <2>1, <2>2 DEF NoNewThread, Threads, SyncInflight, RunsOf
  <2> QED
    BY <2>3, FewerThreads
<1>5. ASSUME NEW w \in Workers, NEW S \in SUBSET Tasks, Claim(w, S)
      PROVE  ThreadsCounted'
  <2>1. ASSUME NEW t \in Tasks, NEW s \in Slots
        PROVE  run'[t][s].pc \in Inflight => run'[t][s] = run[t][s]
    <3>1. [NoRun EXCEPT !.pc = "claimed", !.worker = w].pc \notin Inflight
      BY DEF NoRun, Inflight
    <3> QED
      BY <1>5, <3>1 DEF Claim, TypeInv, TypeOK
  <2>2. NoNewThread
    <3>1. UNCHANGED zombies
      BY <1>5 DEF Claim
    <3> QED
      BY <2>1, <3>1 DEF NoNewThread, Threads, SyncInflight, RunsOf
  <2> QED
    BY <2>2, FewerThreads
<1>6. ASSUME NEW w \in Workers, NEW k \in Tasks \X Slots, ThreadReturns(w, k)
      PROVE  ThreadsCounted'
  <2>1. NoNewThread
    BY <1>6 DEF NoNewThread, Threads, SyncInflight, RunsOf, ThreadReturns, TypeInv, TypeOK
  <2> QED
    BY <2>1, FewerThreads
<1>7. CASE \/ \E t \in Tasks :
                \/ (\E due \in BOOLEAN : Enqueue(t, due)) \/ Cancel(t)
                \/ (\E reset \in ResetChoices : Requeue(t, reset))
                \/ BecomeDue(t) \/ GoStale(t) \/ (\E s \in Slots : Heartbeat(t, s))
           \/ \E w \in Workers : (\E S \in SUBSET Tasks : Reap(w, S)) \/ RequestShutdown(w)
           \/ UNCHANGED vars
  BY <1>3, <1>7 DEF Enqueue, Cancel, Requeue, BecomeDue, GoStale, Heartbeat, Reap,
     RequestShutdown, vars
<1> QED
  BY <1>1, <1>2, <1>4, <1>5, <1>6, <1>7 DEF Next

\* A worker's threads, those of timed-out and abandoned runs included, never
\* exceed its pool: every sync task it runs has one.
THEOREM ThreadsSuffice == Spec => []ThreadsFit
<1>1. Init => ThreadsCounted
  <2> SUFFICES ASSUME Init, NEW w \in Workers
               PROVE  IsFiniteSet(Threads(w)) /\ Cardinality(Threads(w)) <= Concurrency
    BY DEF ThreadsCounted
  <2>1. Threads(w) = {}
    BY DEF Init, Threads, SyncInflight, RunsOf, Inflight, NoRun
  <2> QED
    BY <2>1, FS_EmptySet, BoundAssumption
<1>2. ThreadsCounted => ThreadsFit
  <2> SUFFICES ASSUME ThreadsCounted, NEW w \in Workers
               PROVE  Cardinality(zombies[w] \cup {k \in RunsOf(w, {"executing"}) : k[1] \in Sync})
                        <= Concurrency
    BY DEF ThreadsFit
  <2> DEFINE X == zombies[w] \cup {k \in RunsOf(w, {"executing"}) : k[1] \in Sync}
  <2>1. X \subseteq Threads(w)
    BY DEF Threads, SyncInflight, RunsOf, Inflight
  <2>2. IsFiniteSet(X) /\ Cardinality(X) <= Cardinality(Threads(w))
    BY <2>1, FS_Subset DEF ThreadsCounted
  <2>3. Cardinality(X) \in Nat /\ Cardinality(Threads(w)) \in Nat
    BY <2>2, FS_CardinalityType DEF ThreadsCounted
  <2> HIDE DEF X
  <2>4. Cardinality(X) <= Concurrency
    BY <2>2, <2>3, BoundAssumption DEF ThreadsCounted
  <2> QED
    BY <2>4 DEF X
<1> QED
  BY <1>1, <1>2, ThreadsStep, InitTypeInv, StepTypeInv, PTL DEF Spec

-----------------------------------------------------------------------------
(* The memory of cancel requests.  A run that beats has been loaded, so it  *)
(* leaves through _run_claimed's finally block, which forgets.              *)

BeatsStarted ==
  \A t \in Tasks, s \in Slots :
    run[t][s].beating => run[t][s].pc \in Inflight

MemoryInv == CancelMemoryIsBounded /\ BeatsStarted

\* Run s of t becomes r, which beats on if it beat.
LEMMA MemoryOfRun ==
  ASSUME MemoryInv, TypeInv, NEW t \in Tasks, NEW s \in Slots, NEW r, SetRun(t, s, r),
         run[t][s].beating => r.beating /\ r.worker = run[t][s].worker,
         r.beating => r.pc \in Inflight,
         UNCHANGED cancel_seen
  PROVE  MemoryInv'
<1>1. \A t2 \in Tasks, s2 \in Slots :
        run'[t2][s2] = IF t2 = t /\ s2 = s THEN r ELSE run[t2][s2]
  BY OneRunSet
<1>2. BeatsStarted'
  BY <1>1 DEF MemoryInv, BeatsStarted
<1>3. ASSUME NEW w \in Workers, NEW t2 \in cancel_seen[w]
      PROVE  \E s2 \in Slots : run'[t2][s2].worker = w /\ run'[t2][s2].beating
  <2>1. PICK s2 \in Slots : run[t2][s2].worker = w /\ run[t2][s2].beating
    BY DEF MemoryInv, CancelMemoryIsBounded
  <2>2. t2 \in Tasks
    BY DEF TypeInv, TypeOK
  <2> QED
    BY <1>1, <2>1, <2>2
<1> QED
  BY <1>2, <1>3 DEF MemoryInv, CancelMemoryIsBounded

LEMMA MemoryOfEnd ==
  ASSUME MemoryInv, TypeInv, NEW t \in Tasks, NEW s \in Slots, End(t, s), run[t][s].pc # "idle"
  PROVE  MemoryInv'
<1>1. \A t2 \in Tasks, s2 \in Slots :
        run'[t2][s2] = IF t2 = t /\ s2 = s THEN NoRun ELSE run[t2][s2]
  BY OneRunSet DEF End
<1>2. BeatsStarted'
  BY <1>1 DEF MemoryInv, BeatsStarted, NoRun
<1>3. ASSUME NEW w \in Workers, NEW t2 \in cancel_seen'[w]
      PROVE  \E s2 \in Slots : run'[t2][s2].worker = w /\ run'[t2][s2].beating
  <2>1. t2 \in cancel_seen[w] /\ t2 \in Tasks
    BY DEF End, TypeInv, TypeOK
  <2>2. PICK s2 \in Slots : run[t2][s2].worker = w /\ run[t2][s2].beating
    BY <2>1 DEF MemoryInv, CancelMemoryIsBounded
  <2>3. ~(t2 = t /\ s2 = s)
    <3> SUFFICES ASSUME t2 = t, s2 = s
                 PROVE  FALSE
      OBVIOUS
    <3>1. cancel_seen' = [cancel_seen EXCEPT ![w] = @ \ {t}]
      BY <2>2 DEF End
    <3> QED
      BY <1>3, <3>1 DEF TypeInv, TypeOK
  <2> QED
    BY <1>1, <2>1, <2>2, <2>3
<1> QED
  BY <1>2, <1>3 DEF MemoryInv, CancelMemoryIsBounded

LEMMA MemoryOfRunStep ==
  ASSUME MemoryInv, TypeInv, NEW t \in Tasks, NEW s \in Slots,
         RunStep(t, s) \/ Die(t, s) \/ Abandon(t, s)
  PROVE  MemoryInv'
<1>1. run[t][s] \in Runs /\ (run[t][s].beating => run[t][s].pc \in Inflight)
  BY SetOne DEF TypeInv, MemoryInv, BeatsStarted
<1>2. CASE \/ LoseClaim(t, s) \/ Nack(t, s) \/ Ack(t, s) \/ Die(t, s) \/ Abandon(t, s)
  BY <1>2, MemoryOfEnd DEF LoseClaim, Nack, Ack, Die, Abandon, Inflight
<1>3. CASE Release(t, s) \/ ReleaseFails(t, s)
  BY <1>1, <1>3, MemoryOfRun DEF Release, ReleaseFails, NoRun, Inflight
<1>4. ASSUME NEW pc \in Inflight, Goto(t, s, pc), UNCHANGED cancel_seen
      PROVE  MemoryInv'
  <2> DEFINE r == [run[t][s] EXCEPT !.pc = pc]
  <2>1. r.worker = run[t][s].worker /\ r.beating = run[t][s].beating /\ r.pc = pc
    BY <1>1 DEF Runs
  <2> HIDE DEF r
  <2>2. SetRun(t, s, r)
    BY <1>4 DEF Goto, r
  <2> QED
    BY <1>4, <2>1, <2>2, MemoryOfRun
<1>5. CASE Start(t, s) \/ MarkRunning(t, s) \/ Return(t, s) \/ MarkSuccessful(t, s)
  BY <1>4, <1>5 DEF Start, MarkRunning, Return, MarkSuccessful, Inflight
<1>6. ASSUME NEW e, Failing(t, s, e), UNCHANGED cancel_seen
      PROVE  MemoryInv'
  <2> DEFINE r == FailingRun(run[t][s], WillRetry(t, run[t][s], e), e)
  <2>1. r.worker = run[t][s].worker /\ r.beating = run[t][s].beating /\ r.pc = "failing"
    BY <1>1 DEF Runs, FailingRun
  <2> HIDE DEF r
  <2>2. SetRun(t, s, r)
    BY <1>6 DEF Failing, r
  <2> QED
    BY <1>6, <2>1, <2>2, MemoryOfRun DEF Inflight
<1>7. CASE \/ TimeOut(t, s) \/ Interrupt(t, s)
           \/ (\E e \in {"error", "unlisted"} : LoadFails(t, s, e) \/ Raise(t, s, e))
  BY <1>6, <1>7 DEF TimeOut, Interrupt, LoadFails, Raise
<1>8. CASE Load(t, s)
  <2> DEFINE r == [run[t][s] EXCEPT !.pc = "executing", !.beating = TRUE]
  <2>1. r.worker = run[t][s].worker /\ r.beating /\ r.pc = "executing"
    BY <1>1 DEF Runs
  <2> HIDE DEF r
  <2>2. SetRun(t, s, r) /\ UNCHANGED cancel_seen
    BY <1>8 DEF Load, r
  <2> QED
    BY <2>1, <2>2, MemoryOfRun DEF Inflight
<1>9. CASE MarkFailed(t, s)
  <2> DEFINE r == [run[t][s] EXCEPT !.pc = IF run[t][s].retry THEN "nacking" ELSE "acking",
                                    !.error = "none", !.retry = FALSE]
  <2>1. r.worker = run[t][s].worker /\ r.beating = run[t][s].beating /\ r.pc \in Inflight
    BY <1>1 DEF Runs, Inflight
  <2> HIDE DEF r
  <2>2. SetRun(t, s, r) /\ UNCHANGED cancel_seen
    BY <1>9 DEF MarkFailed, r
  <2> QED
    BY <2>1, <2>2, MemoryOfRun
<1> QED
  BY <1>2, <1>3, <1>5, <1>7, <1>8, <1>9 DEF RunStep

LEMMA MemoryStep == TypeInv /\ MemoryInv /\ [Next]_vars => MemoryInv'
<1> SUFFICES ASSUME TypeInv, MemoryInv, [Next]_vars
             PROVE  MemoryInv'
  OBVIOUS
<1>1. CASE UNCHANGED <<run, cancel_seen>>
  BY <1>1 DEF MemoryInv, CancelMemoryIsBounded, BeatsStarted
<1>2. ASSUME NEW t \in Tasks, NEW s \in Slots, Heartbeat(t, s)
      PROVE  MemoryInv'
  <2>1. UNCHANGED run /\ run[t][s].beating
    BY <1>2 DEF Heartbeat
  <2>2. \A w \in Workers : \A t2 \in cancel_seen'[w] :
          t2 \in cancel_seen[w] \/ (t2 = t /\ w = run[t][s].worker)
    BY <1>2 DEF Heartbeat, TypeInv, TypeOK
  <2> QED
    BY <2>1, <2>2 DEF MemoryInv, CancelMemoryIsBounded, BeatsStarted
<1>3. ASSUME \A t \in Tasks, s \in Slots :
               IF run[t][s].beating THEN run'[t][s] = run[t][s] ELSE ~run'[t][s].beating,
             UNCHANGED cancel_seen
      PROVE  MemoryInv'
  <2>1. \A w \in Workers : cancel_seen[w] \subseteq Tasks
    BY DEF TypeInv, TypeOK
  <2> QED
    BY <1>3, <2>1 DEF MemoryInv, CancelMemoryIsBounded, BeatsStarted
<1>4. \A t \in Tasks, s \in Slots :
        /\ run[t][s] \in Runs
        /\ run[t][s].pc \in {"idle", "claimed"} => ~run[t][s].beating
  BY SetOne DEF TypeInv, TypeOK, MemoryInv, BeatsStarted, Inflight
<1>5. ASSUME NEW w \in Workers, ReadBack(w) \/ LoseBatch(w)
      PROVE  MemoryInv'
  <2>1. ASSUME NEW t \in Tasks, NEW s \in Slots
        PROVE  IF run[t][s].beating THEN run'[t][s] = run[t][s] ELSE ~run'[t][s].beating
    <3>1. <<t, s>> \in Batch(w) => ~run[t][s].beating
      BY <1>4 DEF Batch, RunsOf
    <3>2. [run[t][s] EXCEPT !.pc = "batched", !.attempt = row[t].attempts].beating
            = run[t][s].beating
      BY <1>4 DEF Runs
    <3>3. ~NoRun.beating
      BY DEF NoRun
    <3>4. CASE ReadBack(w)
      BY <3>1, <3>2, <3>4 DEF ReadBack
    <3>5. CASE LoseBatch(w)
      BY <3>1, <3>3, <3>5 DEF LoseBatch
    <3> QED
      BY <1>5, <3>4, <3>5
  <2> QED
    BY <1>3, <1>5, <2>1 DEF ReadBack, LoseBatch
<1>6. ASSUME NEW w \in Workers, NEW S \in SUBSET Tasks, Claim(w, S)
      PROVE  MemoryInv'
  <2>1. ASSUME NEW t \in Tasks, NEW s \in Slots
        PROVE  IF run[t][s].beating THEN run'[t][s] = run[t][s] ELSE ~run'[t][s].beating
    <3> DEFINE r == [NoRun EXCEPT !.pc = "claimed", !.worker = w]
    <3>1. ~r.beating
      BY DEF NoRun
    <3>2. t \in S => FreeSlot(t) \in Slots /\ run[t][FreeSlot(t)].pc = "idle"
      BY <1>6 DEF Claim, Due, FreeSlot, FreeSlots
    <3>3. run'[t][s] = IF t \in S /\ s = FreeSlot(t) THEN r ELSE run[t][s]
      BY <1>6 DEF Claim, TypeInv, TypeOK
    <3> QED
      BY <1>4, <3>1, <3>2, <3>3
  <2>2. UNCHANGED cancel_seen
    BY <1>6 DEF Claim
  <2> QED
    BY <1>3, <2>1, <2>2
<1>7. ASSUME NEW w \in Workers, Crash(w)
      PROVE  MemoryInv'
  <2>1. \A t \in Tasks, s \in Slots :
          run'[t][s] = IF run[t][s].worker = w THEN NoRun ELSE run[t][s]
    BY <1>7 DEF Crash
  <2>2. \A v \in Workers : cancel_seen'[v] = IF v = w THEN {} ELSE cancel_seen[v]
    BY <1>7 DEF Crash, TypeInv, TypeOK
  <2>3. \A v \in Workers : cancel_seen[v] \subseteq Tasks
    BY DEF TypeInv, TypeOK
  <2>4. ~NoRun.beating
    BY DEF NoRun
  <2>5. BeatsStarted'
    BY <2>1, <2>4 DEF MemoryInv, BeatsStarted
  <2>6. ASSUME NEW v \in Workers, NEW t \in cancel_seen'[v]
        PROVE  \E s \in Slots : run'[t][s].worker = v /\ run'[t][s].beating
    <3>1. v # w /\ t \in cancel_seen[v] /\ t \in Tasks
      BY <2>2, <2>3, <2>6
    <3>2. PICK s \in Slots : run[t][s].worker = v /\ run[t][s].beating
      BY <3>1 DEF MemoryInv, CancelMemoryIsBounded
    <3> QED
      BY <2>1, <3>1, <3>2
  <2> QED
    BY <2>5, <2>6 DEF MemoryInv, CancelMemoryIsBounded
<1>8. CASE \/ \E t \in Tasks :
                \/ (\E due \in BOOLEAN : Enqueue(t, due)) \/ Cancel(t)
                \/ (\E reset \in ResetChoices : Requeue(t, reset))
                \/ BecomeDue(t) \/ GoStale(t)
           \/ \E w \in Workers :
                \/ (\E S \in SUBSET Tasks : Reap(w, S)) \/ RequestShutdown(w)
                \/ (\E k \in Tasks \X Slots : ThreadReturns(w, k))
           \/ UNCHANGED vars
  BY <1>1, <1>8 DEF Enqueue, Cancel, Requeue, BecomeDue, GoStale, Reap, RequestShutdown,
     ThreadReturns, vars
<1> QED
  BY <1>2, <1>5, <1>6, <1>7, <1>8, MemoryOfRunStep DEF Next

\* A cancel request is remembered only while a claim of the task beats in that
\* worker, however claims end.
THEOREM CancelsAreForgotten == Spec => []CancelMemoryIsBounded
<1>1. Init => MemoryInv
  BY DEF Init, MemoryInv, CancelMemoryIsBounded, BeatsStarted, NoRun
<1>2. MemoryInv => CancelMemoryIsBounded
  BY DEF MemoryInv
<1> QED
  BY <1>1, <1>2, MemoryStep, InitTypeInv, StepTypeInv, PTL DEF Spec

=============================================================================
