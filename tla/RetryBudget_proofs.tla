------------------------ MODULE RetryBudget_proofs ------------------------
(***************************************************************************)
(* No task is attempted more often than its budget allows, none is given   *)
(* up before the budget is used, and the function of an at-most-once task  *)
(* never runs beside itself.                                               *)
(***************************************************************************)
EXTENDS TaskQueue_proofs

-----------------------------------------------------------------------------
(* The budget is kept.  RetryBudget is not inductive: a claim adds an       *)
(* attempt, so a row that may be claimed must be one below the bound        *)
(* (ReadyFits); a row is handed back by a run that decided to retry some    *)
(* steps earlier, from the attempt it read when it was claimed, so that     *)
(* decision must still be right when the run finds itself the owner         *)
(* (RetryFits).                                                             *)

ReadyFits ==
  \A t \in Tasks :
    row[t].status \in {"absent", "READY"} => row[t].attempts <= MaxRetries[t] + requeues[t]

MayHandBack(r) == r.pc = "nacking" \/ (r.pc = "failing" /\ r.retry)

RetryFits ==
  \A t \in Tasks, s \in Slots :
    MayHandBack(run[t][s]) => run[t][s].attempt <= MaxRetries[t]

BudgetInv == RetryBudget /\ ReadyFits /\ RetryFits

-----------------------------------------------------------------------------

LEMMA InitBudget == Init => BudgetInv
<1>1. SUFFICES ASSUME Init PROVE BudgetInv
  OBVIOUS
<1>2. \A t \in Tasks : MaxRetries[t] \in Nat /\ row[t].attempts = 0 /\ requeues[t] = 0
  BY <1>1, TaskAssumption DEF Init, NoRow
<1>3. \A t \in Tasks, s \in Slots : run[t][s].pc = "idle"
  BY <1>1 DEF Init, NoRun
<1>4. QED
  BY <1>2, <1>3 DEF BudgetInv, RetryBudget, ReadyFits, RetryFits, MayHandBack

\* A step that sets the row of one task to one within the budget.
LEMMA BudgetRow ==
  ASSUME TypeInv, BudgetInv, NEW t \in Tasks, NEW x \in Rows,
         row' = [row EXCEPT ![t] = x], UNCHANGED requeues,
         x.attempts <= MaxRetries[t] + 1 + requeues[t],
         x.status \in {"absent", "READY"} => x.attempts <= MaxRetries[t] + requeues[t]
  PROVE  RetryBudget' /\ ReadyFits'
<1>1. \A t2 \in Tasks : row'[t2] = IF t2 = t THEN x ELSE row[t2]
  BY DEF TypeInv, TypeOK
<1>2. QED
  BY <1>1 DEF BudgetInv, RetryBudget, ReadyFits

\* A step that leaves every row alone.
LEMMA BudgetSameRows ==
  ASSUME BudgetInv, UNCHANGED <<row, requeues>>
  PROVE  RetryBudget' /\ ReadyFits'
  BY DEF BudgetInv, RetryBudget, ReadyFits

\* A step that sets one run.
LEMMA BudgetRun ==
  ASSUME TypeInv, BudgetInv, NEW t \in Tasks, NEW s \in Slots, NEW r,
         SetRun(t, s, r),
         MayHandBack(r) => r.attempt <= MaxRetries[t]
  PROVE  RetryFits'
<1>1. \A t2 \in Tasks, s2 \in Slots :
        run'[t2][s2] = IF t2 = t /\ s2 = s THEN r ELSE run[t2][s2]
  BY DEF SetRun, TypeInv, TypeOK
<1>2. QED
  BY <1>1 DEF BudgetInv, RetryFits, MayHandBack

\* A step that leaves the runs alone.
LEMMA BudgetSameRuns ==
  ASSUME BudgetInv, UNCHANGED run
  PROVE  RetryFits'
  BY DEF BudgetInv, RetryFits, MayHandBack

\* A run that failed hands its row back only within the budget.
LEMMA BudgetFailing ==
  ASSUME TypeInv, BudgetInv, NEW t \in Tasks, NEW s \in Slots, NEW e \in Errors,
         Failing(t, s, e)
  PROVE  RetryFits'
<1> DEFINE r == FailingRun(run[t][s], WillRetry(t, run[t][s], e), e)
<1>1. run[t][s] \in Runs
  BY SetOne DEF TypeInv
<1>2. r.pc = "failing" /\ r.attempt = run[t][s].attempt /\ r.retry = WillRetry(t, run[t][s], e)
  BY <1>1 DEF Runs, FailingRun
<1>3. WillRetry(t, run[t][s], e) => run[t][s].attempt <= MaxRetries[t]
  BY DEF WillRetry, RetriesRemaining
<1>4. MayHandBack(r) => r.attempt <= MaxRetries[t]
  BY <1>2, <1>3 DEF MayHandBack
<1>5. SetRun(t, s, r)
  BY DEF Failing
<1>6. QED
  BY <1>4, <1>5, BudgetRun

LEMMA ProducersKeepBudget ==
  ASSUME TypeInv, BudgetInv, NEW t \in Tasks
  PROVE  /\ \A due \in BOOLEAN : Enqueue(t, due) => BudgetInv'
         /\ Cancel(t) => BudgetInv'
         /\ \A reset \in ResetChoices : Requeue(t, reset) => BudgetInv'
         /\ BecomeDue(t) => BudgetInv'
         /\ GoStale(t) => BudgetInv'
<1>1. /\ row[t] \in Rows /\ row[t].attempts \in Nat
      /\ MaxRetries[t] \in Nat /\ requeues[t] \in Nat
  BY TaskAssumption, BoundAssumption DEF TypeInv, TypeOK, Rows
<1>2. /\ row[t].attempts <= MaxRetries[t] + 1 + requeues[t]
      /\ row[t].status \in {"absent", "READY"} =>
           row[t].attempts <= MaxRetries[t] + requeues[t]
  BY DEF BudgetInv, RetryBudget, ReadyFits
<1>3. ASSUME NEW due \in BOOLEAN, Enqueue(t, due)
      PROVE  BudgetInv'
  <2> DEFINE x == [row[t] EXCEPT !.status = "READY", !.due = due]
  <2>1. x \in Rows /\ x.status = "READY" /\ x.attempts = row[t].attempts
    BY <1>1 DEF Rows
  <2>2. row' = [row EXCEPT ![t] = x]
    BY <1>3 DEF Enqueue, TypeInv, TypeOK
  <2>3. RetryBudget' /\ ReadyFits'
    BY <1>2, <1>3, <2>1, <2>2, BudgetRow DEF Enqueue
  <2>4. QED
    BY <1>3, <2>3, BudgetSameRuns DEF Enqueue, BudgetInv
<1>4. ASSUME Cancel(t)
      PROVE  BudgetInv'
  <2>1. /\ CancelledRow(row[t]) \in Rows
        /\ CancelledRow(row[t]).status \notin {"absent", "READY"}
        /\ CancelledRow(row[t]).attempts = row[t].attempts
    BY <1>1, <1>4, RowOperators, RowFields DEF Cancel
  <2>2. RetryBudget' /\ ReadyFits'
    BY <1>2, <1>4, <2>1, BudgetRow DEF Cancel
  <2>3. QED
    BY <1>4, <2>2, BudgetSameRuns DEF Cancel, BudgetInv
<1>5. ASSUME NEW reset \in ResetChoices, Requeue(t, reset)
      PROVE  BudgetInv'
  <2>1. RequeuedRow(row[t], reset).attempts = IF reset THEN 0 ELSE row[t].attempts
    BY <1>1, RowFields, TaskAssumption
  <2>2. requeues'[t] = requeues[t] + 1
    BY <1>5 DEF Requeue, TypeInv, TypeOK
  <2>3. \A t2 \in Tasks \ {t} : row'[t2] = row[t2] /\ requeues'[t2] = requeues[t2]
    BY <1>5 DEF Requeue, TypeInv, TypeOK
  <2>4. row'[t] = RequeuedRow(row[t], reset)
    BY <1>5 DEF Requeue, TypeInv, TypeOK
  <2>5. row'[t].attempts <= MaxRetries[t] + requeues'[t]
    BY <1>1, <1>2, <2>1, <2>2, <2>4
  <2>6. RetryBudget' /\ ReadyFits'
    <3>1. row'[t].attempts <= MaxRetries[t] + 1 + requeues'[t]
      BY <1>1, <1>2, <2>1, <2>2, <2>4
    <3>2. QED
      BY <2>3, <2>5, <3>1 DEF BudgetInv, RetryBudget, ReadyFits
  <2>7. QED
    BY <1>5, <2>6, BudgetSameRuns DEF Requeue, BudgetInv
<1>6. ASSUME BecomeDue(t)
      PROVE  BudgetInv'
  <2> DEFINE x == [row[t] EXCEPT !.due = TRUE]
  <2>1. x \in Rows /\ x.status = row[t].status /\ x.attempts = row[t].attempts
    BY <1>1 DEF Rows
  <2>2. row' = [row EXCEPT ![t] = x]
    BY <1>6 DEF BecomeDue, TypeInv, TypeOK
  <2>3. RetryBudget' /\ ReadyFits'
    BY <1>2, <1>6, <2>1, <2>2, BudgetRow DEF BecomeDue
  <2>4. QED
    BY <1>6, <2>3, BudgetSameRuns DEF BecomeDue, BudgetInv
<1>7. ASSUME GoStale(t)
      PROVE  BudgetInv'
  <2> DEFINE x == [row[t] EXCEPT !.heartbeat = "stale"]
  <2>1. x \in Rows /\ x.status = row[t].status /\ x.attempts = row[t].attempts
    BY <1>1 DEF Rows
  <2>2. row' = [row EXCEPT ![t] = x]
    BY <1>7 DEF GoStale, TypeInv, TypeOK
  <2>3. RetryBudget' /\ ReadyFits'
    BY <1>2, <1>7, <2>1, <2>2, BudgetRow DEF GoStale
  <2>4. QED
    BY <1>7, <2>3, BudgetSameRuns DEF GoStale, BudgetInv
<1>8. QED
  BY <1>3, <1>4, <1>5, <1>6, <1>7

LEMMA RunStepKeepsBudget ==
  ASSUME TypeInv, BudgetInv, NEW t \in Tasks, NEW s \in Slots, RunStep(t, s)
  PROVE  BudgetInv'
<1>1. /\ row[t] \in Rows /\ run[t][s] \in Runs /\ row[t].attempts \in Nat
      /\ MaxRetries[t] \in Nat /\ requeues[t] \in Nat
  BY TaskAssumption, BoundAssumption, SetOne DEF TypeInv, TypeOK, Rows
<1>2. /\ row[t].attempts <= MaxRetries[t] + 1 + requeues[t]
      /\ row[t].status \in {"absent", "READY"} =>
           row[t].attempts <= MaxRetries[t] + requeues[t]
      /\ MayHandBack(run[t][s]) => run[t][s].attempt <= MaxRetries[t]
  BY DEF BudgetInv, RetryBudget, ReadyFits, RetryFits
<1>3. UNCHANGED <<row, requeues>> /\ RetryFits' => BudgetInv'
  BY BudgetSameRows DEF BudgetInv
<1>4. \A pc \in {"starting", "loading", "succeeding", "acking"} : Goto(t, s, pc) => RetryFits'
  <2>1. TAKE pc \in {"starting", "loading", "succeeding", "acking"}
  <2>2. ~MayHandBack([run[t][s] EXCEPT !.pc = pc])
    BY <1>1 DEF Runs, MayHandBack
  <2>3. QED
    BY <2>2, BudgetRun DEF Goto
<1>5. SetRun(t, s, NoRun) => RetryFits'
  <2>1. ~MayHandBack(NoRun)
    BY DEF NoRun, MayHandBack
  <2>2. QED
    BY <2>1, BudgetRun
<1>6. End(t, s) => RetryFits'
  BY <1>5 DEF End
<1>7. CASE Start(t, s)
  BY <1>3, <1>4, <1>7 DEF Start
<1>8. CASE Release(t, s)
  <2>1. /\ ReleasedRow(row[t]).attempts = row[t].attempts - 1
        /\ ReleasedRow(row[t]).attempts <= MaxRetries[t] + requeues[t]
    BY <1>1, <1>2, RowFields
  <2>2. \A t2 \in Tasks : row'[t2] \in {row[t2], IF t2 = t THEN ReleasedRow(row[t]) ELSE row[t2]}
    BY <1>8 DEF Release, TypeInv, TypeOK
  <2>3. RetryBudget' /\ ReadyFits'
    <3>1. ReleasedRow(row[t]).attempts <= MaxRetries[t] + 1 + requeues[t]
      BY <1>1, <2>1
    <3>2. requeues' = requeues
      BY <1>8 DEF Release
    <3>3. QED
      BY <2>1, <2>2, <3>1, <3>2 DEF BudgetInv, RetryBudget, ReadyFits
  <2>4. QED
    BY <1>5, <1>8, <2>3 DEF Release, BudgetInv
<1>9. CASE ReleaseFails(t, s)
  BY <1>3, <1>5, <1>9 DEF ReleaseFails
<1>10. CASE MarkRunning(t, s)
  BY <1>3, <1>4, <1>10 DEF MarkRunning
<1>11. CASE LoseClaim(t, s)
  BY <1>3, <1>6, <1>11 DEF LoseClaim
<1>12. CASE Load(t, s)
  <2>1. ~MayHandBack([run[t][s] EXCEPT !.pc = "executing", !.beating = TRUE])
    BY <1>1 DEF Runs, MayHandBack
  <2>2. QED
    BY <1>3, <1>12, <2>1, BudgetRun DEF Load
<1>13. ASSUME NEW e \in {"error", "unlisted"}, LoadFails(t, s, e)
       PROVE  BudgetInv'
  BY <1>3, <1>13, BudgetFailing DEF LoadFails, Errors
<1>14. CASE Return(t, s)
  BY <1>3, <1>4, <1>14 DEF Return
<1>15. ASSUME NEW e \in {"error", "unlisted"}, Raise(t, s, e)
       PROVE  BudgetInv'
  BY <1>3, <1>15, BudgetFailing DEF Raise, Errors
<1>16. CASE TimeOut(t, s)
  <2>1. PICK e \in Errors : Failing(t, s, e)
    BY <1>16 DEF TimeOut, Errors
  <2>2. QED
    BY <1>3, <1>16, <2>1, BudgetFailing DEF TimeOut
<1>17. CASE Interrupt(t, s)
  BY <1>3, <1>17, BudgetFailing DEF Interrupt, Errors
<1>18. CASE MarkSuccessful(t, s)
  <2> DEFINE x == [row[t] EXCEPT !.status = "SUCCESSFUL"]
  <2>1. x \in Rows /\ x.status = "SUCCESSFUL" /\ x.attempts = row[t].attempts
    BY <1>1 DEF Rows
  <2>2. row' = [row EXCEPT ![t] = x]
    BY <1>18 DEF MarkSuccessful, TypeInv, TypeOK
  <2>3. RetryBudget' /\ ReadyFits'
    BY <1>2, <1>18, <2>1, <2>2, BudgetRow DEF MarkSuccessful
  <2>4. QED
    BY <1>4, <1>18, <2>3 DEF MarkSuccessful, BudgetInv
<1>19. CASE MarkFailed(t, s)
  <2> DEFINE x == FailedRow(row[t], run[t][s])
             r == [run[t][s] EXCEPT !.pc = IF run[t][s].retry THEN "nacking" ELSE "acking",
                                    !.error = "none", !.retry = FALSE]
  <2>1. /\ x \in Rows /\ x.attempts = row[t].attempts
        /\ x.status = IF run[t][s].retry THEN row[t].status ELSE "FAILED"
    BY <1>1, RowOperators, RowFields
  <2>2. RetryBudget' /\ ReadyFits'
    BY <1>2, <1>19, <2>1, BudgetRow DEF MarkFailed
  <2>3. MayHandBack(r) => run[t][s].retry /\ r.attempt = run[t][s].attempt
    BY <1>1 DEF Runs, MayHandBack
  <2>4. MayHandBack(r) => r.attempt <= MaxRetries[t]
    BY <1>2, <1>19, <2>3 DEF MarkFailed, MayHandBack
  <2>5. RetryFits'
    BY <1>19, <2>4, BudgetRun DEF MarkFailed
  <2>6. QED
    BY <2>2, <2>5 DEF BudgetInv
<1>20. CASE Nack(t, s)
  <2>1. CASE Holds(run[t][s], row[t])
    <3>1. row[t].attempts <= MaxRetries[t]
      BY <1>2, <1>20, <2>1 DEF Nack, MayHandBack, Holds, Owns, Token
    <3>2. /\ RetriedRow(row[t]) \in Rows
          /\ RetriedRow(row[t]).attempts = row[t].attempts
      BY <1>1, RowOperators, RowFields
    <3>3. /\ row[t].attempts <= MaxRetries[t] + requeues[t]
          /\ row[t].attempts <= MaxRetries[t] + 1 + requeues[t]
      BY <1>1, <3>1
    <3>4. RetryBudget' /\ ReadyFits'
      BY <1>20, <2>1, <3>2, <3>3, BudgetRow DEF Nack
    <3>5. QED
      BY <1>6, <1>20, <3>4 DEF Nack, BudgetInv
  <2>2. CASE ~Holds(run[t][s], row[t])
    BY <1>3, <1>6, <1>20, <2>2 DEF Nack
  <2>3. QED
    BY <2>1, <2>2
<1>21. CASE Ack(t, s)
  <2>1. CASE Owns(run[t][s], row[t])
    <3>1. /\ Unclaimed(row[t]) \in Rows
          /\ Unclaimed(row[t]).status = row[t].status
          /\ Unclaimed(row[t]).attempts = row[t].attempts
      BY <1>1, RowOperators, RowFields
    <3>2. RetryBudget' /\ ReadyFits'
      BY <1>2, <1>21, <2>1, <3>1, BudgetRow DEF Ack
    <3>3. QED
      BY <1>6, <1>21, <3>2 DEF Ack, BudgetInv
  <2>2. CASE ~Owns(run[t][s], row[t])
    BY <1>3, <1>6, <1>21, <2>2 DEF Ack
  <2>3. QED
    BY <2>1, <2>2
<1>22. QED
  BY <1>7, <1>8, <1>9, <1>10, <1>11, <1>12, <1>13, <1>14, <1>15, <1>16, <1>17,
     <1>18, <1>19, <1>20, <1>21 DEF RunStep

LEMMA InterruptsKeepBudget ==
  ASSUME TypeInv, BudgetInv, NEW t \in Tasks, NEW s \in Slots
  PROVE  /\ Heartbeat(t, s) => BudgetInv'
         /\ Die(t, s) => BudgetInv'
         /\ Abandon(t, s) => BudgetInv'
<1>1. SetRun(t, s, NoRun) => RetryFits'
  <2>1. ~MayHandBack(NoRun)
    BY DEF NoRun, MayHandBack
  <2>2. QED
    BY <2>1, BudgetRun
<1>2. ASSUME Heartbeat(t, s)
      PROVE  BudgetInv'
  <2>1. row[t] \in Rows
    BY SetOne DEF TypeInv
  <2>2. /\ Beat(row[t]) \in Rows
        /\ Beat(row[t]).status = row[t].status
        /\ Beat(row[t]).attempts = row[t].attempts
    BY <2>1, RowOperators, RowFields
  <2>3. RetryBudget' /\ ReadyFits'
    BY <1>2, <2>2, BudgetRow DEF Heartbeat, BudgetInv, RetryBudget, ReadyFits
  <2>4. QED
    BY <1>2, <2>3, BudgetSameRuns DEF Heartbeat, BudgetInv
<1>3. Die(t, s) => BudgetInv'
  BY <1>1, BudgetSameRows DEF Die, End, BudgetInv
<1>4. Abandon(t, s) => BudgetInv'
  BY <1>1, BudgetSameRows DEF Abandon, End, BudgetInv
<1>5. QED
  BY <1>2, <1>3, <1>4

LEMMA WorkersKeepBudget ==
  ASSUME TypeInv, BudgetInv, NEW w \in Workers
  PROVE  /\ \A S \in SUBSET Tasks : Claim(w, S) => BudgetInv'
         /\ \A S \in SUBSET Tasks : Reap(w, S) => BudgetInv'
         /\ ReadBack(w) => BudgetInv'
         /\ LoseBatch(w) => BudgetInv'
         /\ \A k \in Tasks \X Slots : ThreadReturns(w, k) => BudgetInv'
         /\ RequestShutdown(w) => BudgetInv'
         /\ Crash(w) => BudgetInv'
<1>1. \A t \in Tasks : /\ row[t] \in Rows /\ row[t].attempts \in Nat
                       /\ MaxRetries[t] \in Nat /\ requeues[t] \in Nat
  BY TaskAssumption, BoundAssumption DEF TypeInv, TypeOK, Rows
<1>2. \A t \in Tasks, s \in Slots : run[t][s] \in Runs
  BY DEF TypeInv, TypeOK
<1>3. ASSUME NEW S \in SUBSET Tasks, Claim(w, S)
      PROVE  BudgetInv'
  <2>1. \A t \in S : row[t].status = "READY"
    BY <1>3 DEF Claim, Due
  <2>2. \A t \in S : /\ row'[t].status = "RUNNING"
                     /\ row'[t].attempts = row[t].attempts + 1
    BY <1>1, <1>3, RowFields DEF Claim
  <2>3. \A t \in Tasks \ S : row'[t] = row[t]
    BY <1>3 DEF Claim
  <2>4. requeues' = requeues
    BY <1>3 DEF Claim
  <2>5. RetryBudget' /\ ReadyFits'
    <3>1. \A t \in S : row'[t].attempts <= MaxRetries[t] + 1 + requeues[t]
      <4>1. TAKE t \in S
      <4>2. row[t].attempts <= MaxRetries[t] + requeues[t]
        BY <2>1 DEF BudgetInv, ReadyFits
      <4>3. QED
        BY <1>1, <2>2, <4>2
    <3>2. QED
      BY <2>2, <2>3, <2>4, <3>1 DEF BudgetInv, RetryBudget, ReadyFits
  <2>6. RetryFits'
    <3> DEFINE r == [NoRun EXCEPT !.pc = "claimed", !.worker = w]
    <3>1. ~MayHandBack(r)
      BY DEF NoRun, MayHandBack
    <3>2. \A t \in Tasks : run[t] \in [Slots -> Runs]
      BY DEF TypeInv, TypeOK
    <3>3. \A t \in Tasks : run'[t] = IF t \in S THEN [run[t] EXCEPT ![FreeSlot(t)] = r] ELSE run[t]
      BY <1>3 DEF Claim
    <3> HIDE DEF r
    <3>4. \A t \in Tasks, s \in Slots : run'[t][s] \in {run[t][s], r}
      BY <3>2, <3>3
    <3>5. QED
      BY <3>1, <3>4 DEF BudgetInv, RetryFits, MayHandBack
  <2>7. QED
    BY <2>5, <2>6 DEF BudgetInv
<1>4. ASSUME NEW S \in SUBSET Tasks, Reap(w, S)
      PROVE  BudgetInv'
  <2>1. ASSUME NEW t \in Tasks
        PROVE  /\ ReclaimedRow(t).attempts = row[t].attempts
               /\ ReclaimedRow(t).status \in {"absent", "READY"} => row[t].attempts <= MaxRetries[t]
    <3>1. CASE CanRetry(t)
      <4>1. RetriedRow(row[t]).attempts = row[t].attempts
        BY <1>1, RowFields
      <4>2. QED
        BY <3>1, <4>1 DEF ReclaimedRow, CanRetry, RetriesRemaining
    <3>2. CASE ~CanRetry(t)
      <4>1. Unclaimed(row[t]) \in Rows /\ Unclaimed(row[t]).attempts = row[t].attempts
        BY <1>1, RowOperators, RowFields
      <4>2. QED
        BY <3>2, <4>1 DEF ReclaimedRow, Rows
    <3>3. QED
      BY <3>1, <3>2
  <2>2. requeues' = requeues /\ \A t \in Tasks : row'[t] \in {row[t], ReclaimedRow(t)}
    BY <1>4 DEF Reap
  <2>3. RetryBudget' /\ ReadyFits'
    <3>1. \A t \in Tasks :
            row[t].attempts <= MaxRetries[t] => row[t].attempts <= MaxRetries[t] + requeues[t]
      BY <1>1
    <3>2. QED
      BY <2>1, <2>2, <3>1 DEF BudgetInv, RetryBudget, ReadyFits
  <2>4. QED
    BY <1>4, <2>3, BudgetSameRuns DEF Reap, BudgetInv
<1>5. ASSUME ReadBack(w)
      PROVE  BudgetInv'
  <2>1. \A t \in Tasks, s \in Slots :
          run'[t][s] = run[t][s] \/ run'[t][s].pc = "batched"
    BY <1>2, <1>5 DEF ReadBack, Runs
  <2>2. RetryFits'
    BY <2>1 DEF BudgetInv, RetryFits, MayHandBack
  <2>3. QED
    BY <1>5, <2>2, BudgetSameRows DEF ReadBack, BudgetInv
<1>6. ASSUME LoseBatch(w)
      PROVE  BudgetInv'
  <2>1. \A t \in Tasks, s \in Slots : run'[t][s] \in {run[t][s], NoRun}
    BY <1>6 DEF LoseBatch
  <2>2. RetryFits'
    BY <2>1 DEF BudgetInv, RetryFits, MayHandBack, NoRun
  <2>3. QED
    BY <1>6, <2>2, BudgetSameRows DEF LoseBatch, BudgetInv
<1>7. \A k \in Tasks \X Slots : ThreadReturns(w, k) => BudgetInv'
  BY BudgetSameRows, BudgetSameRuns DEF ThreadReturns, BudgetInv
<1>8. RequestShutdown(w) => BudgetInv'
  BY BudgetSameRows, BudgetSameRuns DEF RequestShutdown, BudgetInv
<1>9. ASSUME Crash(w)
      PROVE  BudgetInv'
  <2>1. \A t \in Tasks, s \in Slots : run'[t][s] \in {run[t][s], NoRun}
    BY <1>9 DEF Crash
  <2>2. RetryFits'
    BY <2>1 DEF BudgetInv, RetryFits, MayHandBack, NoRun
  <2>3. QED
    BY <1>9, <2>2, BudgetSameRows DEF Crash, BudgetInv
<1>10. QED
  BY <1>3, <1>4, <1>5, <1>6, <1>7, <1>8, <1>9

LEMMA StepBudget == TypeInv /\ BudgetInv /\ [Next]_vars => BudgetInv'
<1>1. ASSUME BudgetInv, UNCHANGED vars
      PROVE  BudgetInv'
  BY <1>1, BudgetSameRows, BudgetSameRuns DEF vars, BudgetInv
<1>2. ASSUME TypeInv, BudgetInv, Next
      PROVE  BudgetInv'
  BY <1>2, ProducersKeepBudget, RunStepKeepsBudget, InterruptsKeepBudget,
     WorkersKeepBudget DEF Next
<1>3. QED
  BY <1>1, <1>2

\* MAX_RETRIES = n means at most n + 1 attempts, and one more for each time an
\* operator requeues the task (retries_remaining, Worker._handle_failure and
\* PostgresBroker.reclaim_stale), for any number of workers that crash, fall
\* behind, release work and answer late.
THEOREM BudgetKept == Spec => []RetryBudget
<1>1. BudgetInv => RetryBudget
  BY DEF BudgetInv
<1>2. QED
  BY <1>1, InitTypeInv, StepTypeInv, InitBudget, StepBudget, PTL DEF Spec

-----------------------------------------------------------------------------
(* The budget is used.  Once a run has decided not to retry, what justified *)
(* it must last until it writes the failure: its attempt is fixed, and a    *)
(* cancel request stays in the row until a requeue.                         *)

\* A failure that is final only when the retries are used up.
Retryable(t, error) == error = "error" \/ (error \in {"timeout", "stale"} /\ t \notin AtMostOnce)

Exhausted(t, attempt, x) == attempt > MaxRetries[t] \/ x.cancel_requested

FailsFairly(t, x) ==
  x.status = "FAILED" /\ Retryable(t, x.error) => Exhausted(t, x.attempts, x)

GivesUp(t, r) == r.pc = "failing" /\ ~r.retry /\ Retryable(t, r.error)

ExhaustInv ==
  \A t \in Tasks :
    requeues[t] = 0 =>
      /\ FailsFairly(t, row[t])
      /\ \A s \in Slots : GivesUp(t, run[t][s]) => Exhausted(t, run[t][s].attempt, row[t])
      /\ \A w \in Workers : t \in cancel_seen[w] => row[t].cancel_requested

\* What a step without a requeue may do to a row and what belongs to it.
RowsFair ==
  \A t \in Tasks :
    /\ requeues'[t] = 0 => requeues[t] = 0
    /\ requeues'[t] = 0 =>
         /\ row[t].cancel_requested => row'[t].cancel_requested
         /\ FailsFairly(t, row[t]) => FailsFairly(t, row'[t])

RunsFair ==
  \A t \in Tasks, s \in Slots :
    requeues[t] = 0 /\ GivesUp(t, run'[t][s]) =>
      \/ GivesUp(t, run[t][s]) /\ run'[t][s].attempt = run[t][s].attempt
      \/ Exhausted(t, run'[t][s].attempt, row[t])

MemoryFair ==
  \A w \in Workers : \A t \in cancel_seen'[w] : t \in cancel_seen[w] \/ row[t].cancel_requested

LEMMA FairStep == ExhaustInv /\ RowsFair /\ RunsFair /\ MemoryFair => ExhaustInv'
  BY DEF ExhaustInv, RowsFair, RunsFair, MemoryFair, Exhausted

\* The columns of a row that tell why it failed.
LEMMA FailureFields ==
  ASSUME NEW x \in Rows
  PROVE  /\ /\ Unclaimed(x) \in Rows /\ Unclaimed(x).status = x.status
            /\ Unclaimed(x).error = x.error
            /\ Unclaimed(x).attempts = x.attempts
            /\ Unclaimed(x).cancel_requested = x.cancel_requested
         /\ /\ Beat(x).status = x.status /\ Beat(x).error = x.error
            /\ Beat(x).attempts = x.attempts
            /\ Beat(x).cancel_requested = x.cancel_requested
         /\ RetriedRow(x).status = "READY" /\ RetriedRow(x).cancel_requested = x.cancel_requested
         /\ ReleasedRow(x).status = "READY" /\ ReleasedRow(x).cancel_requested = x.cancel_requested
         /\ \A w \in Workers : /\ ClaimedRow(x, w).status = "RUNNING"
                               /\ ClaimedRow(x, w).cancel_requested = x.cancel_requested
         /\ \A r \in Runs :
              /\ FailedRow(x, r).cancel_requested = x.cancel_requested
              /\ FailedRow(x, r).attempts = x.attempts
              /\ r.retry => FailedRow(x, r) = x
              /\ ~r.retry => FailedRow(x, r).error = r.error
         /\ x.status \in {"READY", "RUNNING"} =>
              /\ x.cancel_requested => CancelledRow(x).cancel_requested
              /\ CancelledRow(x).status = "FAILED" => CancelledRow(x).error = "cancelled"
<1>1. /\ Unclaimed(x) \in Rows /\ Unclaimed(x).status = x.status
      /\ Unclaimed(x).error = x.error
      /\ Unclaimed(x).attempts = x.attempts
      /\ Unclaimed(x).cancel_requested = x.cancel_requested
  BY DEF Rows, Unclaimed
<1>2. /\ Beat(x).status = x.status /\ Beat(x).error = x.error
      /\ Beat(x).attempts = x.attempts
      /\ Beat(x).cancel_requested = x.cancel_requested
  BY DEF Rows, Beat
<1>3. RetriedRow(x).status = "READY" /\ RetriedRow(x).cancel_requested = x.cancel_requested
  BY <1>1 DEF Rows, RetriedRow
<1>4. ReleasedRow(x).status = "READY" /\ ReleasedRow(x).cancel_requested = x.cancel_requested
  BY <1>1 DEF Rows, ReleasedRow
<1>5. \A w \in Workers : /\ ClaimedRow(x, w).status = "RUNNING"
                         /\ ClaimedRow(x, w).cancel_requested = x.cancel_requested
  BY DEF Rows, ClaimedRow
<1>6. \A r \in Runs :
        /\ FailedRow(x, r).cancel_requested = x.cancel_requested
        /\ FailedRow(x, r).attempts = x.attempts
        /\ r.retry => FailedRow(x, r) = x
        /\ ~r.retry => FailedRow(x, r).error = r.error
  BY DEF Rows, Runs, FailedRow
<1>7. x.status \in {"READY", "RUNNING"} =>
        /\ x.cancel_requested => CancelledRow(x).cancel_requested
        /\ CancelledRow(x).status = "FAILED" => CancelledRow(x).error = "cancelled"
  BY DEF Rows, CancelledRow
<1> QED
  BY <1>1, <1>2, <1>3, <1>4, <1>5, <1>6, <1>7

\* Setting one row to y.
LEMMA OneRowFair ==
  ASSUME TypeInv, NEW t \in Tasks, NEW y,
         row' = row \/ row' = [row EXCEPT ![t] = y], UNCHANGED requeues,
         requeues[t] = 0 =>
           /\ row[t].cancel_requested => y.cancel_requested
           /\ FailsFairly(t, row[t]) => FailsFairly(t, y)
  PROVE  RowsFair
  BY DEF RowsFair, TypeInv, TypeOK

LEMMA SameRowsFair == UNCHANGED <<row, requeues>> => RowsFair
  BY DEF RowsFair

LEMMA SameRunsFair == UNCHANGED run => RunsFair
  BY DEF RunsFair

LEMMA OneRunFair ==
  ASSUME TypeInv, NEW t \in Tasks, NEW s \in Slots, NEW r, SetRun(t, s, r),
         requeues[t] = 0 /\ GivesUp(t, r) => Exhausted(t, r.attempt, row[t])
  PROVE  RunsFair
<1>1. \A t2 \in Tasks, s2 \in Slots :
        run'[t2][s2] = IF t2 = t /\ s2 = s THEN r ELSE run[t2][s2]
  BY OneRunSet
<1> QED
  BY <1>1 DEF RunsFair

LEMMA SameMemoryFair == UNCHANGED cancel_seen => MemoryFair
  BY DEF MemoryFair

LEMMA FairOfRunStep ==
  ASSUME ExhaustInv, TypeInv, NEW t \in Tasks, NEW s \in Slots,
         RunStep(t, s) \/ Die(t, s) \/ Abandon(t, s)
  PROVE  ExhaustInv'
<1>1. row[t] \in Rows /\ run[t][s] \in Runs /\ NoRun.pc = "idle" /\ MaxRetries[t] \in Nat
  BY SetOne, TaskAssumption DEF TypeInv, NoRun
<1>2. SetRun(t, s, NoRun) => RunsFair
  BY <1>1, OneRunFair DEF GivesUp
<1>3. End(t, s) => RunsFair /\ MemoryFair
  <2>1. End(t, s) => MemoryFair
    BY DEF End, MemoryFair, TypeInv, TypeOK
  <2> QED
    BY <1>2, <2>1 DEF End
<1>4. ASSUME NEW pc, Goto(t, s, pc), pc # "failing"
      PROVE  RunsFair
  <2>1. [run[t][s] EXCEPT !.pc = pc].pc = pc
    BY <1>1 DEF Runs
  <2> QED
    BY <1>4, <2>1, OneRunFair DEF Goto, GivesUp
<1>5. ASSUME NEW e \in {"error", "unlisted", "timeout", "cancelled"}, Failing(t, s, e),
             run[t][s].pc # "idle"
      PROVE  RunsFair
  <2> DEFINE r == FailingRun(run[t][s], WillRetry(t, run[t][s], e), e)
  <2>1. /\ r.attempt = run[t][s].attempt /\ r.retry = WillRetry(t, run[t][s], e)
        /\ ~r.retry => r.error = e
    BY <1>1 DEF Runs, FailingRun
  <2>2. SetRun(t, s, r)
    BY <1>5 DEF Failing
  <2> HIDE DEF r
  <2>3. ASSUME requeues[t] = 0, GivesUp(t, r)
        PROVE  Exhausted(t, r.attempt, row[t])
    <3>1. ~WillRetry(t, run[t][s], e) /\ Retryable(t, e)
      BY <2>1, <2>3 DEF GivesUp
    <3>2. ~RetriesRemaining(t, run[t][s].attempt) \/ t \in cancel_seen[run[t][s].worker]
      BY <3>1 DEF WillRetry, Retryable
    <3>3. run[t][s].worker \in Workers
      BY <1>5, RunUpdates
    <3>4. t \in cancel_seen[run[t][s].worker] => row[t].cancel_requested
      BY <2>3, <3>3 DEF ExhaustInv
    <3>5. run[t][s].attempt \in Nat
      BY <1>1 DEF Runs
    <3> QED
      BY <1>1, <2>1, <3>2, <3>4, <3>5 DEF Exhausted, RetriesRemaining
  <2> QED
    BY <2>2, <2>3, OneRunFair
<1>6. CASE Start(t, s) \/ MarkRunning(t, s) \/ Return(t, s)
  BY <1>4, <1>6, SameRowsFair, SameMemoryFair, FairStep DEF Start, MarkRunning, Return
<1>7. CASE ReleaseFails(t, s) \/ LoseClaim(t, s) \/ Die(t, s) \/ Abandon(t, s)
  BY <1>2, <1>3, <1>7, SameRowsFair, SameMemoryFair, FairStep
  DEF ReleaseFails, LoseClaim, Die, Abandon
<1>8. CASE Load(t, s)
  <2>1. [run[t][s] EXCEPT !.pc = "executing", !.beating = TRUE].pc = "executing"
    BY <1>1 DEF Runs
  <2>2. RunsFair
    BY <1>8, <2>1, OneRunFair DEF Load, GivesUp
  <2> QED
    BY <1>8, <2>2, SameRowsFair, SameMemoryFair, FairStep DEF Load
<1>9. CASE \/ TimeOut(t, s) \/ Interrupt(t, s)
           \/ (\E e \in {"error", "unlisted"} : LoadFails(t, s, e) \/ Raise(t, s, e))
  BY <1>5, <1>9, SameRowsFair, SameMemoryFair, FairStep DEF TimeOut, Interrupt, LoadFails, Raise
<1>10. CASE Release(t, s)
  <2>1. RowsFair
    BY <1>1, <1>10, FailureFields, OneRowFair DEF Release, FailsFairly
  <2> QED
    BY <1>2, <1>10, <2>1, SameMemoryFair, FairStep DEF Release
<1>11. CASE Nack(t, s)
  <2>1. RowsFair
    BY <1>1, <1>11, FailureFields, OneRowFair DEF Nack, FailsFairly
  <2> QED
    BY <1>3, <1>11, <2>1, FairStep DEF Nack
<1>12. CASE Ack(t, s)
  <2>1. RowsFair
    BY <1>1, <1>12, FailureFields, OneRowFair DEF Ack, FailsFairly, Exhausted
  <2> QED
    BY <1>3, <1>12, <2>1, FairStep DEF Ack
<1>13. CASE MarkSuccessful(t, s)
  <2> DEFINE x == [row[t] EXCEPT !.status = "SUCCESSFUL"]
  <2>1. x.status = "SUCCESSFUL" /\ x.cancel_requested = row[t].cancel_requested
    BY <1>1 DEF Rows
  <2>2. row' = [row EXCEPT ![t] = x] /\ UNCHANGED requeues
    BY <1>13 DEF MarkSuccessful, TypeInv, TypeOK
  <2> HIDE DEF x
  <2>3. RowsFair
    BY <2>1, <2>2, OneRowFair DEF FailsFairly
  <2> QED
    BY <1>4, <1>13, <2>3, SameMemoryFair, FairStep DEF MarkSuccessful
<1>14. CASE MarkFailed(t, s)
  <2> DEFINE r == [run[t][s] EXCEPT !.pc = IF run[t][s].retry THEN "nacking" ELSE "acking",
                                    !.error = "none", !.retry = FALSE]
             y == FailedRow(row[t], run[t][s])
  <2>1. r.pc # "failing" /\ SetRun(t, s, r)
    BY <1>1, <1>14 DEF Runs, MarkFailed
  <2> HIDE DEF r
  <2>2. RunsFair
    BY <2>1, OneRunFair DEF GivesUp
  <2>3. row[t].attempts = run[t][s].attempt
    BY <1>14 DEF MarkFailed, Holds, Owns, Token
  <2>4. /\ y.cancel_requested = row[t].cancel_requested /\ y.attempts = row[t].attempts
        /\ run[t][s].retry => y = row[t]
        /\ ~run[t][s].retry => y.error = run[t][s].error
    BY <1>1, FailureFields
  <2>5. row' = [row EXCEPT ![t] = y] /\ UNCHANGED <<requeues, cancel_seen>>
    BY <1>14 DEF MarkFailed
  <2> HIDE DEF y
  <2>6. requeues[t] = 0 /\ FailsFairly(t, row[t]) => FailsFairly(t, y)
    <3>1. requeues[t] = 0 /\ GivesUp(t, run[t][s]) => Exhausted(t, run[t][s].attempt, row[t])
      BY DEF ExhaustInv
    <3> QED
      BY <1>14, <2>3, <2>4, <3>1 DEF MarkFailed, FailsFairly, GivesUp, Exhausted
  <2>7. RowsFair
    BY <2>4, <2>5, <2>6, OneRowFair
  <2> QED
    BY <2>2, <2>5, <2>7, SameMemoryFair, FairStep
<1> QED
  BY <1>6, <1>7, <1>8, <1>9, <1>10, <1>11, <1>12, <1>13, <1>14 DEF RunStep

LEMMA FairOfTask ==
  ASSUME ExhaustInv, TypeInv, NEW t \in Tasks,
         \/ \E due \in BOOLEAN : Enqueue(t, due)
         \/ Cancel(t)
         \/ \E reset \in ResetChoices : Requeue(t, reset)
         \/ BecomeDue(t) \/ GoStale(t)
         \/ \E s \in Slots : Heartbeat(t, s)
  PROVE  ExhaustInv'
<1>1. row[t] \in Rows /\ requeues[t] \in Nat
  BY BoundAssumption DEF TypeInv, TypeOK
<1>2. UNCHANGED run
  BY DEF Enqueue, Cancel, Requeue, BecomeDue, GoStale, Heartbeat
<1>3. MemoryFair
  BY DEF MemoryFair, Enqueue, Cancel, Requeue, BecomeDue, GoStale, Heartbeat, TypeInv, TypeOK
<1>4. SUFFICES RowsFair
  BY <1>2, <1>3, SameRunsFair, FairStep
<1>5. ASSUME NEW due \in BOOLEAN, Enqueue(t, due)
      PROVE  RowsFair
  <2> DEFINE y == [row[t] EXCEPT !.status = "READY", !.due = due]
  <2>1. y.status = "READY" /\ y.cancel_requested = row[t].cancel_requested
    BY <1>1 DEF Rows
  <2>2. row' = [row EXCEPT ![t] = y] /\ UNCHANGED requeues
    BY <1>5 DEF Enqueue, TypeInv, TypeOK
  <2> HIDE DEF y
  <2> QED
    BY <2>1, <2>2, OneRowFair DEF FailsFairly
<1>6. CASE Cancel(t)
  <2>1. row' = [row EXCEPT ![t] = CancelledRow(row[t])] /\ UNCHANGED requeues
    BY <1>6 DEF Cancel
  <2>2. /\ row[t].cancel_requested => CancelledRow(row[t]).cancel_requested
        /\ CancelledRow(row[t]).status = "FAILED" => CancelledRow(row[t]).error = "cancelled"
    BY <1>1, <1>6, FailureFields DEF Cancel
  <2> QED
    BY <2>1, <2>2, OneRowFair DEF FailsFairly, Retryable
<1>7. ASSUME NEW reset \in ResetChoices, Requeue(t, reset)
      PROVE  RowsFair
  <2>1. \A t2 \in Tasks \ {t} : row'[t2] = row[t2] /\ requeues'[t2] = requeues[t2]
    BY <1>7 DEF Requeue, TypeInv, TypeOK
  <2>2. requeues'[t] = requeues[t] + 1
    BY <1>7 DEF Requeue, TypeInv, TypeOK
  <2>3. requeues'[t] # 0
    BY <1>1, <2>2
  <2> QED
    BY <2>1, <2>3 DEF RowsFair
<1>8. ASSUME NEW y, row' = [row EXCEPT ![t] = y], UNCHANGED requeues,
             y.status = row[t].status, y.error = row[t].error, y.attempts = row[t].attempts,
             y.cancel_requested = row[t].cancel_requested
      PROVE  RowsFair
  BY <1>8, OneRowFair DEF FailsFairly, Exhausted
<1>9. CASE BecomeDue(t)
  <2> DEFINE y == [row[t] EXCEPT !.due = TRUE]
  <2>1. /\ y.status = row[t].status /\ y.error = row[t].error /\ y.attempts = row[t].attempts
        /\ y.cancel_requested = row[t].cancel_requested
    BY <1>1 DEF Rows
  <2>2. row' = [row EXCEPT ![t] = y] /\ UNCHANGED requeues
    BY <1>9 DEF BecomeDue, TypeInv, TypeOK
  <2> QED
    BY <1>8, <2>1, <2>2
<1>10. CASE GoStale(t)
  <2> DEFINE y == [row[t] EXCEPT !.heartbeat = "stale"]
  <2>1. /\ y.status = row[t].status /\ y.error = row[t].error /\ y.attempts = row[t].attempts
        /\ y.cancel_requested = row[t].cancel_requested
    BY <1>1 DEF Rows
  <2>2. row' = [row EXCEPT ![t] = y] /\ UNCHANGED requeues
    BY <1>10 DEF GoStale, TypeInv, TypeOK
  <2> QED
    BY <1>8, <2>1, <2>2
<1>11. CASE \E s \in Slots : Heartbeat(t, s)
  BY <1>1, <1>8, <1>11, FailureFields DEF Heartbeat
<1> QED
  BY <1>5, <1>6, <1>7, <1>9, <1>10, <1>11

LEMMA FairOfWorker ==
  ASSUME ExhaustInv, TypeInv, NEW w \in Workers,
         \/ \E S \in SUBSET Tasks : Claim(w, S) \/ Reap(w, S)
         \/ ReadBack(w) \/ LoseBatch(w)
         \/ \E k \in Tasks \X Slots : ThreadReturns(w, k)
         \/ RequestShutdown(w) \/ Crash(w)
  PROVE  ExhaustInv'
<1>1. /\ \A t \in Tasks : row[t] \in Rows /\ MaxRetries[t] \in Nat
      /\ \A t \in Tasks, s \in Slots : run[t][s] \in Runs
      /\ NoRun.pc = "idle"
  BY TaskAssumption DEF TypeInv, TypeOK, NoRun
<1>2. MemoryFair
  BY DEF MemoryFair, Claim, Reap, ReadBack, LoseBatch, ThreadReturns, RequestShutdown, Crash,
         TypeInv, TypeOK
<1>3. ASSUME \A t \in Tasks, s \in Slots : run'[t][s] = run[t][s] \/ run'[t][s].pc # "failing"
      PROVE  RunsFair
  BY <1>3 DEF RunsFair, GivesUp
<1>4. ASSUME NEW S \in SUBSET Tasks, Claim(w, S)
      PROVE  ExhaustInv'
  <2>1. [NoRun EXCEPT !.pc = "claimed", !.worker = w].pc = "claimed"
    BY DEF NoRun
  <2>2. \A t \in Tasks, s \in Slots : run'[t][s] = run[t][s] \/ run'[t][s].pc # "failing"
    BY <1>4, <2>1 DEF Claim, TypeInv, TypeOK
  <2>3. \A t \in Tasks : row'[t] = IF t \in S THEN ClaimedRow(row[t], w) ELSE row[t]
    BY <1>4 DEF Claim
  <2>4. UNCHANGED requeues
    BY <1>4 DEF Claim
  <2>5. RowsFair
    BY <1>1, <2>3, <2>4, FailureFields DEF RowsFair, FailsFairly
  <2> QED
    BY <1>2, <1>3, <2>2, <2>5, FairStep
<1>5. ASSUME NEW S \in SUBSET Tasks, Reap(w, S)
      PROVE  ExhaustInv'
  <2>1. ASSUME NEW t \in Tasks
        PROVE  /\ ReclaimedRow(t).cancel_requested = row[t].cancel_requested
               /\ FailsFairly(t, ReclaimedRow(t))
    <3>1. CASE CanRetry(t)
      BY <1>1, <3>1, FailureFields DEF ReclaimedRow, FailsFairly
    <3>2. CASE ~CanRetry(t)
      <4> DEFINE y == [Unclaimed(row[t]) EXCEPT !.status = "FAILED", !.error = "stale"]
      <4>1. /\ y.error = "stale" /\ y.attempts = row[t].attempts
            /\ y.cancel_requested = row[t].cancel_requested
        BY <1>1, FailureFields DEF Rows
      <4>2. ReclaimedRow(t) = y
        BY <3>2 DEF ReclaimedRow
      <4> HIDE DEF y
      <4>3. row[t].attempts \in Nat
        BY <1>1 DEF Rows
      <4>4. t \in AtMostOnce \/ row[t].attempts > MaxRetries[t]
        BY <1>1, <3>2, <4>3 DEF CanRetry, RetriesRemaining
      <4> QED
        BY <4>1, <4>2, <4>4 DEF FailsFairly, Retryable, Exhausted
    <3> QED
      BY <3>1, <3>2
  <2>2. \A t \in Tasks : row'[t] = IF t \in S THEN ReclaimedRow(t) ELSE row[t]
    BY <1>5 DEF Reap
  <2>3. UNCHANGED <<run, requeues>>
    BY <1>5 DEF Reap
  <2>4. RowsFair
    BY <2>1, <2>2, <2>3 DEF RowsFair
  <2> QED
    BY <1>2, <2>3, <2>4, SameRunsFair, FairStep
<1>6. ASSUME UNCHANGED <<row, requeues>>,
             \A t \in Tasks, s \in Slots : run'[t][s] = run[t][s] \/ run'[t][s].pc # "failing"
      PROVE  ExhaustInv'
  BY <1>2, <1>3, <1>6, SameRowsFair, FairStep
<1>7. CASE ReadBack(w)
  <2>1. \A t \in Tasks, s \in Slots : run'[t][s] = run[t][s] \/ run'[t][s].pc # "failing"
    <3>1. TAKE t \in Tasks, s \in Slots
    <3>2. [run[t][s] EXCEPT !.pc = "batched", !.attempt = row[t].attempts].pc # "failing"
      BY <1>1 DEF Runs
    <3> QED
      BY <1>7, <3>2 DEF ReadBack
  <2> QED
    BY <1>6, <1>7, <2>1 DEF ReadBack
<1>8. CASE LoseBatch(w)
  BY <1>1, <1>6, <1>8 DEF LoseBatch
<1>9. CASE Crash(w)
  BY <1>1, <1>6, <1>9 DEF Crash
<1>10. CASE RequestShutdown(w) \/ \E k \in Tasks \X Slots : ThreadReturns(w, k)
  BY <1>6, <1>10 DEF RequestShutdown, ThreadReturns
<1> QED
  BY <1>4, <1>5, <1>7, <1>8, <1>9, <1>10

LEMMA ExhaustStep == TypeInv /\ ExhaustInv /\ [Next]_vars => ExhaustInv'
<1> SUFFICES ASSUME TypeInv, ExhaustInv, [Next]_vars
             PROVE  ExhaustInv'
  OBVIOUS
<1>1. CASE UNCHANGED vars
  BY <1>1, SameRowsFair, SameRunsFair, SameMemoryFair, FairStep DEF vars
<1> QED
  BY <1>1, FairOfRunStep, FairOfTask, FairOfWorker DEF Next

\* A task that nobody cancelled or requeued is FAILED on a retryable error only
\* when its retries are used up, whoever decided so: a run from the attempt it
\* read when it was claimed, or the reaper from the row.
THEOREM NobodyGivesUpEarly == Spec => []FailedMeansExhausted
<1>1. Init => ExhaustInv
  BY DEF Init, ExhaustInv, FailsFairly, GivesUp, NoRow, NoRun
<1>2. ExhaustInv => FailedMeansExhausted
  BY DEF ExhaustInv, FailsFairly, Retryable, Exhausted, FailedMeansExhausted
<1> QED
  BY <1>1, <1>2, ExhaustStep, InitTypeInv, StepTypeInv, PTL DEF Spec

-----------------------------------------------------------------------------
(* At-most-once tasks.  A row that waits has neither claim nor thread left; *)
(* what a timeout left running belongs to a run that will not hand the row  *)
(* back.                                                                    *)

Waits(x) == x.status \in {"absent", "READY"}

\* A thread still runs the function for slot s of t, without its claim.
ThreadLeft(t, s) == \E w \in Workers : <<t, s>> \in zombies[w]

Involved(t, s) == run[t][s].pc # "idle" \/ ThreadLeft(t, s)

\* What is left of a run whose thread runs on will not hand the row back.
GivenUp(r) == r.pc \in {"idle", "acking"} \/ (r.pc = "failing" /\ ~r.retry)

OnceInv ==
  \A t \in AtMostOnce :
    requeues[t] = 0 =>
      /\ \A s1, s2 \in Slots : Involved(t, s1) /\ Involved(t, s2) => s1 = s2
      /\ Waits(row[t]) => \A s \in Slots : ~Involved(t, s)
      /\ \A s \in Slots : ThreadLeft(t, s) => GivenUp(run[t][s])

\* No step but a claim involves a slot of t; only its own run lets it wait.
OnceQuiet ==
  \A t \in AtMostOnce :
    /\ requeues'[t] = 0 => requeues[t] = 0
    /\ requeues[t] = 0 =>
         /\ \A s \in Slots : Involved(t, s)' => Involved(t, s)
         /\ \A s \in Slots : ThreadLeft(t, s)' => GivenUp(run'[t][s])
         /\ Waits(row'[t]) => Waits(row[t]) \/ \A s \in Slots : ~Involved(t, s)'

LEMMA OnceOfQuiet == OnceInv /\ OnceQuiet => OnceInv'
  BY DEF OnceInv, OnceQuiet

\* Nothing happens to claims and threads.
LEMMA OnceSameRuns ==
  ASSUME OnceInv, TypeInv, UNCHANGED <<run, zombies>>,
         \A t \in AtMostOnce : requeues'[t] = 0 =>
           requeues[t] = 0 /\ (Waits(row'[t]) => Waits(row[t]))
  PROVE  OnceInv'
<1>1. \A t \in AtMostOnce, s \in Slots :
        /\ Involved(t, s)' <=> Involved(t, s)
        /\ ThreadLeft(t, s)' <=> ThreadLeft(t, s)
  BY DEF Involved, ThreadLeft
<1> QED
  BY <1>1 DEF OnceInv

\* Run s of t becomes r and threads stay as they are.
LEMMA OnceOfRun ==
  ASSUME OnceInv, TypeInv, NEW t \in Tasks, NEW s \in Slots, NEW r, SetRun(t, s, r),
         run[t][s].pc # "idle", UNCHANGED <<zombies, requeues>>,
         GivenUp(run[t][s]) => GivenUp(r),
         \A t2 \in AtMostOnce : Waits(row'[t2]) =>
           Waits(row[t2]) \/ (t2 = t /\ r.pc = "idle" /\ ~GivenUp(run[t][s]))
  PROVE  OnceInv'
<1>1. \A t2 \in Tasks, s2 \in Slots :
        run'[t2][s2] = IF t2 = t /\ s2 = s THEN r ELSE run[t2][s2]
  BY OneRunSet
<1>2. \A t2 \in Tasks, s2 \in Slots :
        /\ ThreadLeft(t2, s2)' <=> ThreadLeft(t2, s2)
        /\ Involved(t2, s2)' => Involved(t2, s2)
  BY <1>1 DEF Involved, ThreadLeft
<1>3. SUFFICES ASSUME NEW t2 \in AtMostOnce, requeues[t2] = 0
               PROVE  /\ \A s2 \in Slots : ThreadLeft(t2, s2) => GivenUp(run'[t2][s2])
                      /\ \/ Waits(row'[t2]) => Waits(row[t2])
                         \/ \A s2 \in Slots : ~Involved(t2, s2)'
  BY <1>2, OnceOfQuiet, TaskAssumption DEF OnceQuiet
<1>4. t2 \in Tasks
  BY TaskAssumption
<1>5. \A s2 \in Slots : ThreadLeft(t2, s2) => GivenUp(run'[t2][s2])
  BY <1>1, <1>3, <1>4 DEF OnceInv
<1>6. ASSUME t2 = t, r.pc = "idle", ~GivenUp(run[t][s]), NEW s2 \in Slots
      PROVE  ~Involved(t2, s2)'
  <2>1. Involved(t, s) /\ ~ThreadLeft(t, s)
    BY <1>3, <1>6 DEF OnceInv, Involved
  <2>2. CASE s2 = s
    BY <1>1, <1>2, <1>4, <1>6, <2>1, <2>2 DEF Involved
  <2>3. CASE s2 # s
    BY <1>2, <1>3, <1>4, <1>6, <2>1, <2>3 DEF OnceInv
  <2> QED
    BY <2>2, <2>3
<1> QED
  BY <1>5, <1>6

LEMMA OnceOfRunStep ==
  ASSUME OnceInv, TypeInv, NEW t \in Tasks, NEW s \in Slots, RunStep(t, s) \/ Die(t, s)
  PROVE  OnceInv'
<1>1. run[t][s] \in Runs /\ row[t] \in Rows /\ GivenUp(NoRun) /\ NoRun.pc = "idle"
  BY SetOne DEF TypeInv, NoRun, GivenUp
<1>2. ASSUME SetRun(t, s, NoRun), run[t][s].pc # "idle", UNCHANGED <<row, zombies, requeues>>
      PROVE  OnceInv'
  BY <1>1, <1>2, OnceOfRun
<1>3. CASE LoseClaim(t, s) \/ ReleaseFails(t, s) \/ Die(t, s)
  BY <1>2, <1>3 DEF LoseClaim, ReleaseFails, Die, End, Inflight
<1>4. ASSUME SetRun(t, s, NoRun), run[t][s].pc \in {"batched", "nacking"},
             UNCHANGED <<zombies, requeues>>, NEW x, row' = row \/ row' = [row EXCEPT ![t] = x]
      PROVE  OnceInv'
  <2>1. ~GivenUp(run[t][s])
    BY <1>4 DEF GivenUp
  <2>2. \A t2 \in Tasks \ {t} : row'[t2] = row[t2]
    BY <1>4 DEF TypeInv, TypeOK
  <2>3. \A t2 \in AtMostOnce : Waits(row'[t2]) => Waits(row[t2]) \/ t2 = t
    BY <2>2, TaskAssumption
  <2> QED
    BY <1>1, <1>4, <2>1, <2>3, OnceOfRun
<1>5. CASE Release(t, s)
  BY <1>4, <1>5 DEF Release
<1>6. CASE Nack(t, s)
  BY <1>4, <1>6 DEF Nack, End
<1>7. ASSUME NEW x, ~Waits(x) \/ Waits(row[t]), row' = row \/ row' = [row EXCEPT ![t] = x]
      PROVE  \A t2 \in AtMostOnce : Waits(row'[t2]) => Waits(row[t2])
  BY <1>7, TaskAssumption DEF TypeInv, TypeOK
<1>8. CASE Ack(t, s)
  <2>1. Unclaimed(row[t]).status = row[t].status
    BY <1>1, RowFields
  <2>2. \A t2 \in AtMostOnce : Waits(row'[t2]) => Waits(row[t2])
    BY <1>7, <1>8, <2>1 DEF Ack, Waits
  <2> QED
    BY <1>1, <1>8, <2>2, OnceOfRun DEF Ack, End
<1>9. ASSUME NEW pc \in Inflight, Goto(t, s, pc), run[t][s].pc # "idle", ~GivenUp(run[t][s]),
             UNCHANGED <<zombies, requeues>>,
             \A t2 \in AtMostOnce : Waits(row'[t2]) => Waits(row[t2])
      PROVE  OnceInv'
  BY <1>9, OnceOfRun DEF Goto
<1>10. CASE Start(t, s) \/ MarkRunning(t, s) \/ Return(t, s)
  BY <1>9, <1>10 DEF Start, MarkRunning, Return, Inflight, GivenUp
<1>11. CASE MarkSuccessful(t, s)
  <2> DEFINE x == [row[t] EXCEPT !.status = "SUCCESSFUL"]
  <2>1. ~Waits(x)
    BY <1>1 DEF Rows, Waits
  <2>2. row' = [row EXCEPT ![t] = x]
    BY <1>11 DEF MarkSuccessful, TypeInv, TypeOK
  <2>3. \A t2 \in AtMostOnce : Waits(row'[t2]) => Waits(row[t2])
    BY <1>7, <2>1, <2>2
  <2> QED
    BY <1>9, <1>11, <2>3 DEF MarkSuccessful, Inflight, GivenUp
<1>12. CASE Load(t, s)
  BY <1>12, OnceOfRun DEF Load, GivenUp
<1>13. ASSUME NEW e, Failing(t, s, e), run[t][s].pc \in {"loading", "executing"},
              UNCHANGED <<row, zombies, requeues>>
       PROVE  OnceInv'
  BY <1>13, OnceOfRun DEF Failing, GivenUp
<1>14. CASE \/ Interrupt(t, s) \/ (TimeOut(t, s) /\ t \notin Sync)
            \/ (\E e \in {"error", "unlisted"} : LoadFails(t, s, e) \/ Raise(t, s, e))
  BY <1>13, <1>14 DEF Interrupt, TimeOut, LoadFails, Raise
<1>15. CASE TimeOut(t, s) /\ t \in Sync
  <2>0. PICK e \in {"timeout", "unlisted"} : Failing(t, s, e)
    BY <1>15 DEF TimeOut
  <2> DEFINE r == FailingRun(run[t][s], WillRetry(t, run[t][s], e), e)
  <2>1. run'[t][s] = r /\ SetRun(t, s, r)
    BY <2>0, OneRunSet DEF Failing
  <2>2. r.pc = "failing" /\ r.retry = WillRetry(t, run[t][s], e)
    BY <1>1 DEF Runs, FailingRun
  <2>3. t \in AtMostOnce => GivenUp(r)
    BY <2>2 DEF WillRetry, GivenUp
  <2> HIDE DEF r
  <2>4. \A t2 \in Tasks, s2 \in Slots :
          run'[t2][s2] = IF t2 = t /\ s2 = s THEN r ELSE run[t2][s2]
    BY <2>1, OneRunSet
  <2>5. /\ run[t][s].pc = "executing" /\ UNCHANGED <<row, requeues>>
        /\ zombies' = [zombies EXCEPT ![run[t][s].worker] = @ \cup {<<t, s>>}]
    BY <1>15 DEF TimeOut
  <2>6. \A t2 \in Tasks, s2 \in Slots :
          ThreadLeft(t2, s2)' => ThreadLeft(t2, s2) \/ (t2 = t /\ s2 = s)
    BY <2>5 DEF ThreadLeft, TypeInv, TypeOK
  <2>7. OnceQuiet
    BY <2>3, <2>4, <2>5, <2>6, TaskAssumption DEF OnceQuiet, OnceInv, Involved
  <2> QED
    BY <2>7, OnceOfQuiet
<1>16. CASE MarkFailed(t, s)
  <2> DEFINE r == [run[t][s] EXCEPT !.pc = IF run[t][s].retry THEN "nacking" ELSE "acking",
                                    !.error = "none", !.retry = FALSE]
  <2>1. r.pc = (IF run[t][s].retry THEN "nacking" ELSE "acking") /\ SetRun(t, s, r)
    BY <1>1, <1>16 DEF Runs, MarkFailed
  <2>2. GivenUp(run[t][s]) => GivenUp(r)
    BY <1>16, <2>1 DEF GivenUp, MarkFailed
  <2> HIDE DEF r
  <2>3. ~Waits(FailedRow(row[t], run[t][s]))
    BY <1>1, <1>16, RowFields DEF MarkFailed, Holds, Waits
  <2>4. \A t2 \in AtMostOnce : Waits(row'[t2]) => Waits(row[t2])
    BY <1>7, <1>16, <2>3 DEF MarkFailed
  <2> QED
    BY <1>16, <2>1, <2>2, <2>4, OnceOfRun DEF MarkFailed
<1> QED
  BY <1>3, <1>5, <1>6, <1>8, <1>10, <1>11, <1>12, <1>14, <1>15, <1>16 DEF RunStep

LEMMA OnceOfAbandon ==
  ASSUME OnceInv, TypeInv, NEW t \in Tasks, NEW s \in Slots, Abandon(t, s)
  PROVE  OnceInv'
<1>1. \A t2 \in Tasks, s2 \in Slots :
        run'[t2][s2] = IF t2 = t /\ s2 = s THEN NoRun ELSE run[t2][s2]
  BY OneRunSet DEF Abandon, End
<1>2. GivenUp(NoRun) /\ run[t][s].pc # "idle" /\ UNCHANGED <<row, requeues>>
  BY DEF Abandon, Inflight, GivenUp, NoRun
<1>3. \A t2 \in Tasks, s2 \in Slots :
        ThreadLeft(t2, s2)' => ThreadLeft(t2, s2) \/ (t2 = t /\ s2 = s)
  BY DEF Abandon, ThreadLeft, TypeInv, TypeOK
<1>4. NoRun.pc = "idle"
  BY DEF NoRun
<1>5. OnceQuiet
  BY <1>1, <1>2, <1>3, <1>4, TaskAssumption DEF OnceQuiet, OnceInv, Involved
<1> QED
  BY <1>5, OnceOfQuiet

LEMMA OnceStep == TypeInv /\ OnceInv /\ [Next]_vars => OnceInv'
<1> SUFFICES ASSUME TypeInv, OnceInv, [Next]_vars
             PROVE  OnceInv'
  OBVIOUS
<1>1. \A t \in AtMostOnce : t \in Tasks /\ row[t] \in Rows /\ requeues[t] \in Nat
  BY TaskAssumption, BoundAssumption DEF TypeInv, TypeOK
<1>2. ASSUME UNCHANGED <<run, zombies, requeues>>,
             \A t \in AtMostOnce : Waits(row'[t]) => Waits(row[t])
      PROVE  OnceInv'
  BY <1>2, OnceSameRuns
<1>3. ASSUME NEW t \in Tasks, NEW x, row' = [row EXCEPT ![t] = x],
             Waits(x) => Waits(row[t]), UNCHANGED <<run, zombies, requeues>>
      PROVE  OnceInv'
  BY <1>2, <1>3, TaskAssumption DEF TypeInv, TypeOK
<1>4. ASSUME NEW t \in Tasks,
             (\E due \in BOOLEAN : Enqueue(t, due)) \/ Cancel(t) \/ BecomeDue(t) \/ GoStale(t)
      PROVE  OnceInv'
  <2>1. row[t] \in Rows
    BY DEF TypeInv, TypeOK
  <2>2. \A t2 \in AtMostOnce : Waits(row'[t2]) => Waits(row[t2])
    <3>1. \A t2 \in Tasks \ {t} : row'[t2] = row[t2]
      BY <1>4 DEF Enqueue, Cancel, BecomeDue, GoStale, TypeInv, TypeOK
    <3>2. CASE \E due \in BOOLEAN : Enqueue(t, due)
      BY <3>1, <3>2, <1>1 DEF Enqueue, Waits
    <3>3. CASE Cancel(t)
      <4>1. row'[t] = CancelledRow(row[t])
        BY <3>3 DEF Cancel, TypeInv, TypeOK
      <4>2. ~Waits(row'[t])
        BY <2>1, <3>3, <4>1, RowFields DEF Cancel, Waits
      <4> QED
        BY <3>1, <4>2, <1>1
    <3>4. CASE BecomeDue(t) \/ GoStale(t)
      <4>1. row'[t].status = row[t].status
        BY <2>1, <3>4 DEF BecomeDue, GoStale, TypeInv, TypeOK, Rows
      <4> QED
        BY <3>1, <4>1, <1>1 DEF Waits
    <3> QED
      BY <1>4, <3>2, <3>3, <3>4
  <2> QED
    BY <1>2, <1>4, <2>2 DEF Enqueue, Cancel, BecomeDue, GoStale
<1>5. ASSUME NEW t \in Tasks, NEW reset \in ResetChoices, Requeue(t, reset)
      PROVE  OnceInv'
  <2>1. /\ UNCHANGED <<run, zombies>>
        /\ \A t2 \in Tasks \ {t} : row'[t2] = row[t2] /\ requeues'[t2] = requeues[t2]
    BY <1>5 DEF Requeue, TypeInv, TypeOK
  <2>2. requeues'[t] = requeues[t] + 1 /\ requeues[t] \in Nat
    BY <1>5, BoundAssumption DEF Requeue, TypeInv, TypeOK
  <2>3. requeues'[t] # 0
    BY <2>2
  <2> QED
    BY <1>1, <2>1, <2>2, <2>3, OnceSameRuns
<1>6. ASSUME NEW t \in Tasks, NEW s \in Slots, Heartbeat(t, s)
      PROVE  OnceInv'
  <2>1. row[t] \in Rows
    BY DEF TypeInv, TypeOK
  <2>2. Waits(Beat(row[t])) => Waits(row[t])
    BY <2>1, RowFields DEF Waits
  <2> QED
    BY <1>3, <1>6, <2>2 DEF Heartbeat
<1>7. ASSUME NEW w \in Workers, NEW S \in SUBSET Tasks, Reap(w, S)
      PROVE  OnceInv'
  <2>1. ASSUME NEW t \in AtMostOnce
        PROVE  Waits(row'[t]) => Waits(row[t])
    <3>1. Unclaimed(row[t]) \in Rows
      BY <1>1, <2>1, RowOperators
    <3>2. ReclaimedRow(t).status = "FAILED"
      BY <2>1, <3>1 DEF ReclaimedRow, CanRetry, Rows
    <3>3. row'[t] = IF t \in S THEN ReclaimedRow(t) ELSE row[t]
      BY <1>1, <1>7, <2>1 DEF Reap
    <3> QED
      BY <3>2, <3>3 DEF Waits
  <2> QED
    BY <1>2, <1>7, <2>1 DEF Reap
<1>8. ASSUME NEW w \in Workers, NEW S \in SUBSET Tasks, Claim(w, S)
      PROVE  OnceInv'
  <2> DEFINE r == [NoRun EXCEPT !.pc = "claimed", !.worker = w]
  <2>1. ASSUME NEW t \in S
        PROVE  row[t].status = "READY" /\ ~Waits(row'[t])
    <3>1. row[t] \in Rows /\ row'[t] = ClaimedRow(row[t], w) /\ row[t].status = "READY"
      BY <1>8, <2>1 DEF Claim, Due, TypeInv, TypeOK
    <3> QED
      BY <3>1, RowFields DEF Waits
  <2>2. \A t \in Tasks, s \in Slots :
          run'[t][s] = IF t \in S /\ s = FreeSlot(t) THEN r ELSE run[t][s]
    BY <1>8 DEF Claim, TypeInv, TypeOK
  <2>3. \A t \in Tasks \ S : row'[t] = row[t]
    BY <1>8 DEF Claim
  <2>4. UNCHANGED <<zombies, requeues>>
    BY <1>8 DEF Claim
  <2>5. \A t \in Tasks, s \in Slots : ThreadLeft(t, s)' <=> ThreadLeft(t, s)
    BY <2>4 DEF ThreadLeft
  <2> HIDE DEF r
  <2>6. ASSUME NEW t \in AtMostOnce, requeues[t] = 0
        PROVE  /\ \A s1, s2 \in Slots : Involved(t, s1)' /\ Involved(t, s2)' => s1 = s2
               /\ Waits(row'[t]) => \A s \in Slots : ~Involved(t, s)'
               /\ \A s \in Slots : ThreadLeft(t, s)' => GivenUp(run'[t][s])
    <3>1. CASE t \in S
      <4>1. \A s \in Slots : ~Involved(t, s)
        BY <2>1, <2>6, <3>1 DEF OnceInv, Waits
      <4>2. \A s \in Slots : Involved(t, s)' => s = FreeSlot(t)
        BY <1>1, <2>2, <2>5, <2>6, <4>1 DEF Involved
      <4> QED
        BY <1>1, <2>1, <2>5, <2>6, <3>1, <4>1, <4>2 DEF Involved
    <3>2. CASE t \notin S
      <4>1. \A s \in Slots : run'[t][s] = run[t][s] /\ (Involved(t, s)' <=> Involved(t, s))
        BY <1>1, <2>2, <2>5, <3>2 DEF Involved
      <4> QED
        BY <1>1, <2>3, <2>5, <2>6, <3>2, <4>1 DEF OnceInv
    <3> QED
      BY <3>1, <3>2
  <2> QED
    BY <2>4, <2>6 DEF OnceInv
<1>9. ASSUME UNCHANGED <<row, requeues>>,
             \A t \in Tasks, s \in Slots : run'[t][s].pc # "idle" =>
               \/ run'[t][s] = run[t][s]
               \/ run[t][s].pc = "claimed",
             \A w \in Workers : zombies'[w] \subseteq zombies[w]
      PROVE  OnceInv'
  <2>1. \A t \in Tasks, s \in Slots : ThreadLeft(t, s)' => ThreadLeft(t, s)
    BY <1>9 DEF ThreadLeft
  <2>2. \A t \in Tasks, s \in Slots : run[t][s].pc = "claimed" => ~GivenUp(run[t][s])
    BY DEF GivenUp
  <2>3. \A t \in Tasks, s \in Slots : run'[t][s].pc = "idle" => GivenUp(run'[t][s])
    BY DEF GivenUp
  <2>4. OnceQuiet
    BY <1>1, <1>9, <2>1, <2>2, <2>3 DEF OnceQuiet, OnceInv, Involved
  <2> QED
    BY <2>4, OnceOfQuiet
<1>10. NoRun.pc = "idle"
  BY DEF NoRun
<1>11. ASSUME NEW w \in Workers, ReadBack(w)
       PROVE  OnceInv'
  <2>1. \A t \in Tasks, s \in Slots :
          \/ run'[t][s] = run[t][s]
          \/ /\ run[t][s].pc = "claimed"
             /\ run'[t][s] = [run[t][s] EXCEPT !.pc = "batched", !.attempt = row[t].attempts]
    BY <1>11 DEF ReadBack, Batch, RunsOf
  <2> QED
    BY <1>9, <1>11, <2>1 DEF ReadBack
<1>12. ASSUME NEW w \in Workers,
              LoseBatch(w) \/ Crash(w) \/ \E k \in Tasks \X Slots : ThreadReturns(w, k)
       PROVE  OnceInv'
  <2>1. \A t \in Tasks, s \in Slots : run'[t][s] = run[t][s] \/ run'[t][s] = NoRun
    <3>1. CASE LoseBatch(w)
      BY <3>1 DEF LoseBatch
    <3>2. CASE Crash(w)
      BY <3>2 DEF Crash
    <3>3. CASE \E k \in Tasks \X Slots : ThreadReturns(w, k)
      BY <3>3 DEF ThreadReturns
    <3> QED
      BY <1>12, <3>1, <3>2, <3>3
  <2>2. \A v \in Workers : zombies'[v] \subseteq zombies[v]
    BY <1>12 DEF LoseBatch, Crash, ThreadReturns, TypeInv, TypeOK
  <2> QED
    BY <1>9, <1>10, <1>12, <2>1, <2>2 DEF LoseBatch, Crash, ThreadReturns
<1>13. CASE (\E w \in Workers : RequestShutdown(w)) \/ UNCHANGED vars
  BY <1>2, <1>13 DEF RequestShutdown, vars
<1> QED
  BY <1>4, <1>5, <1>6, <1>7, <1>8, <1>11, <1>12, <1>13, OnceOfRunStep, OnceOfAbandon DEF Next

\* Unless an operator requeues it, the function of an at-most-once task runs in
\* one place at most, whatever times out, crashes or is reclaimed.
THEOREM OnceMeansAlone == Spec => []AtMostOnceNeverOverlaps
<1>1. Init => OnceInv
  BY TaskAssumption DEF Init, OnceInv, Involved, ThreadLeft, NoRun
<1>2. OnceInv => AtMostOnceNeverOverlaps
  <2> SUFFICES ASSUME OnceInv, NEW t \in AtMostOnce, requeues[t] = 0
               PROVE  Cardinality({s \in Slots : \/ run[t][s].pc = "executing"
                                                 \/ \E w \in Workers : <<t, s>> \in zombies[w]}) <= 1
    BY DEF AtMostOnceNeverOverlaps
  <2> DEFINE X == {s \in Slots : run[t][s].pc = "executing" \/ ThreadLeft(t, s)}
  <2>1. \A s1, s2 \in X : s1 = s2
    BY DEF OnceInv, Involved
  <2> HIDE DEF X
  <2>2. X = {} => Cardinality(X) = 0
    BY FS_EmptySet
  <2>3. ASSUME NEW s \in X
        PROVE  Cardinality(X) = 1
    <3>1. X = {s}
      BY <2>1, <2>3
    <3> QED
      BY <3>1, FS_Singleton
  <2>4. Cardinality(X) = 0 \/ Cardinality(X) = 1
    BY <2>2, <2>3, FS_EmptySet
  <2> QED
    BY <2>4 DEF X, ThreadLeft
<1> QED
  BY <1>1, <1>2, OnceStep, InitTypeInv, StepTypeInv, PTL DEF Spec

=============================================================================
