-------------------------- MODULE Refinement_proofs --------------------------
(***************************************************************************)
(* The task queue implements TaskLife where tokens identify claims.  Each  *)
(* step of the queue changes the status of rows and the work of claims in  *)
(* one of four ways: not at all (a claim may end), for one row by a client,*)
(* for one row by the claim whose token it carries, or for a set of rows   *)
(* at once by claim and reclaim_stale.                                     *)
(***************************************************************************)
EXTENDS ClaimToken_proofs, TaskQueueRefinement

LEMMA WorkOfClaims ==
  \A r : /\ WorkOf(r) \in {"none", "working", "reported"}
         /\ r.pc = "idle" => WorkOf(r) = "none"
         /\ r.pc = "acking" => WorkOf(r) = "reported"
         /\ r.pc \notin {"idle", "acking"} => WorkOf(r) = "working"
  BY DEF WorkOf

\* A claim works on or ends.
WorksOn(r, r2) == r2.pc = "idle" \/ WorkOf(r2) = WorkOf(r)

SameStatus == \A t \in Tasks : row'[t].status = row[t].status
SameWork == \A t \in Tasks, s \in Slots : WorksOn(run[t][s], run'[t][s])

LEMMA QuietLife ==
  ASSUME SameStatus, SameWork, UNCHANGED current
  PROVE  Life!Leave
<1>1. UNCHANGED phase
  BY DEF SameStatus, phase
<1>2. /\ work' = [t \in Tasks |-> [s \in Slots |-> WorkOf(run'[t][s])]]
      /\ work = [t \in Tasks |-> [s \in Slots |-> WorkOf(run[t][s])]]
  BY DEF work, WorkOf
<1>3. work' \in [Tasks -> [Slots -> Life!WorkStates]]
  BY <1>2, WorkOfClaims DEF Life!WorkStates
<1>4. \A t \in Tasks, s \in Slots : work'[t][s] \in {work[t][s], "none"}
  BY <1>2, WorkOfClaims DEF SameWork, WorksOn
<1>5. QED
  BY <1>1, <1>3, <1>4 DEF Life!Leave

LEMMA UnchangedLife ==
  /\ UNCHANGED row => SameStatus
  /\ UNCHANGED run => SameWork
  BY DEF SameStatus, SameWork, WorksOn

LEMMA EndedRuns ==
  ASSUME \A t \in Tasks, s \in Slots : run'[t][s] \in {run[t][s], NoRun}
  PROVE  SameWork
<1>1. NoRun.pc = "idle"
  BY DEF NoRun
<1>2. QED
  BY <1>1 DEF SameWork, WorksOn

\* Setting one row moves one phase.
LEMMA RowMoves ==
  ASSUME TypeInv, NEW t \in Tasks, NEW x, row' = [row EXCEPT ![t] = x]
  PROVE  /\ Life!Move(t, PhaseOf[row[t].status], PhaseOf[x.status])
         /\ x.status = row[t].status => SameStatus
  BY DEF phase, TypeInv, TypeOK, SameStatus, Life!Move

LEMMA PhaseNames ==
  /\ PhaseOf["absent"] = "absent" /\ PhaseOf["READY"] = "waiting"
  /\ PhaseOf["RUNNING"] = "leased" /\ PhaseOf["SUCCESSFUL"] = "succeeded"
  /\ PhaseOf["FAILED"] = "failed"
  BY DEF PhaseOf

\* Setting one run changes the work of one claim.
LEMMA RunWorks ==
  ASSUME TypeInv, NEW t \in Tasks, NEW s \in Slots, NEW r, SetRun(t, s, r)
  PROVE  /\ work[t][s] = WorkOf(run[t][s])
         /\ work' = [work EXCEPT ![t][s] = WorkOf(r)]
         /\ WorksOn(run[t][s], r) => SameWork
<1>1. \A t2 \in Tasks, s2 \in Slots :
        run'[t2][s2] = IF t2 = t /\ s2 = s THEN r ELSE run[t2][s2]
  BY DEF SetRun, TypeInv, TypeOK
<1>2. /\ work' = [t2 \in Tasks |-> [s2 \in Slots |-> WorkOf(run'[t2][s2])]]
      /\ work = [t2 \in Tasks |-> [s2 \in Slots |-> WorkOf(run[t2][s2])]]
  BY DEF work, WorkOf
<1>3. \A t2 \in Tasks : work'[t2] = [work EXCEPT ![t][s] = WorkOf(r)][t2]
  <2>1. \A t2 \in Tasks, s2 \in Slots :
          WorkOf(run'[t2][s2]) = IF t2 = t /\ s2 = s THEN WorkOf(r) ELSE WorkOf(run[t2][s2])
    BY <1>1
  <2> HIDE DEF WorkOf
  <2>2. QED
    BY <1>2, <2>1
<1>4. work' = [work EXCEPT ![t][s] = WorkOf(r)]
  BY <1>2, <1>3
<1>5. WorksOn(run[t][s], r) => SameWork
  BY <1>1 DEF SameWork, WorksOn
<1>6. QED
  BY <1>2, <1>4, <1>5

-----------------------------------------------------------------------------

LEMMA ClientsRefine ==
  ASSUME TypeInv, NEW t \in Tasks
  PROVE  /\ \A due \in BOOLEAN : Enqueue(t, due) => Life!Next
         /\ Cancel(t) => Life!Next
         /\ \A reset \in ResetChoices : Requeue(t, reset) => Life!Next
         /\ BecomeDue(t) => Life!Next
         /\ GoStale(t) => Life!Next
<1>1. row[t] \in Rows
  BY DEF TypeInv, TypeOK
<1>2. UNCHANGED run => UNCHANGED work
  BY DEF work, WorkOf
<1>3. ASSUME NEW due \in BOOLEAN, Enqueue(t, due) PROVE Life!Next
  <2> DEFINE x == [row[t] EXCEPT !.status = "READY", !.due = due]
  <2>1. row' = [row EXCEPT ![t] = x] /\ x.status = "READY"
    BY <1>1, <1>3 DEF Enqueue, TypeInv, TypeOK, Rows
  <2>2. Life!Submit(t)
    <3>1. row[t].status = "absent" /\ UNCHANGED <<run, current>>
      BY <1>3 DEF Enqueue
    <3> HIDE DEF x
    <3>2. Life!Move(t, "absent", "waiting")
      BY <2>1, <3>1, RowMoves, PhaseNames
    <3>3. QED
      BY <1>2, <3>1, <3>2 DEF Life!Submit
  <2>3. QED
    BY <2>2 DEF Life!Next
<1>4. ASSUME Cancel(t) PROVE Life!Next
  <2>1. CASE row[t].status = "READY"
    <3>1. CancelledRow(row[t]).status = "FAILED"
      BY <1>1, <2>1 DEF CancelledRow, Rows
    <3>2. Life!Withdraw(t)
      <4>1. row' = [row EXCEPT ![t] = CancelledRow(row[t])] /\ UNCHANGED <<run, current>>
        BY <1>4 DEF Cancel
      <4>2. Life!Move(t, "waiting", "failed")
        BY <2>1, <3>1, <4>1, RowMoves, PhaseNames
      <4>3. QED
        BY <1>2, <4>1, <4>2 DEF Life!Withdraw
    <3>3. QED
      BY <3>2 DEF Life!Next
  <2>2. CASE row[t].status = "RUNNING"
    <3>1. CancelledRow(row[t]).status = row[t].status
      BY <1>1, <2>2 DEF CancelledRow, Rows
    <3>2. QED
      BY <1>4, <3>1, RowMoves, UnchangedLife, QuietLife DEF Cancel, Life!Next
  <2>3. QED
    BY <1>4, <2>1, <2>2 DEF Cancel
<1>5. ASSUME NEW reset \in ResetChoices, Requeue(t, reset) PROVE Life!Next
  <2>1. RequeuedRow(row[t], reset).status = "READY"
    BY <1>1, RowFields, TaskAssumption
  <2>2. Life!Repeat(t)
    <3>1. /\ row[t].status = "FAILED" /\ row' = [row EXCEPT ![t] = RequeuedRow(row[t], reset)]
          /\ UNCHANGED <<run, current>>
      BY <1>5 DEF Requeue
    <3>2. Life!Move(t, "failed", "waiting")
      BY <2>1, <3>1, RowMoves, PhaseNames
    <3>3. QED
      BY <1>2, <3>1, <3>2 DEF Life!Repeat
  <2>3. QED
    BY <2>2 DEF Life!Next
<1>6. BecomeDue(t) \/ GoStale(t) => Life!Next
  <2>1. BecomeDue(t) \/ GoStale(t) => SameStatus
    <3> DEFINE due == [row[t] EXCEPT !.due = TRUE]
               stale == [row[t] EXCEPT !.heartbeat = "stale"]
    <3>1. due.status = row[t].status /\ stale.status = row[t].status
      BY <1>1 DEF Rows
    <3>2. /\ BecomeDue(t) => row' = [row EXCEPT ![t] = due]
          /\ GoStale(t) => row' = [row EXCEPT ![t] = stale]
      BY DEF BecomeDue, GoStale
    <3> HIDE DEF due, stale
    <3>3. QED
      BY <3>1, <3>2, RowMoves
  <2>2. QED
    BY <2>1, UnchangedLife, QuietLife DEF BecomeDue, GoStale, Life!Next
<1>7. QED
  BY <1>3, <1>4, <1>5, <1>6

\* The steps of a run that write no outcome.
LEMMA QuietRunSteps ==
  ASSUME TypeInv, NEW t \in Tasks, NEW s \in Slots,
         \/ Start(t, s) \/ MarkRunning(t, s) \/ LoseClaim(t, s) \/ Load(t, s)
         \/ \E e \in {"error", "unlisted"} : LoadFails(t, s, e) \/ Raise(t, s, e)
         \/ Return(t, s) \/ TimeOut(t, s) \/ Interrupt(t, s)
         \/ Heartbeat(t, s) \/ Die(t, s) \/ Abandon(t, s)
  PROVE  Life!Leave
<1>1. run[t][s] \in Runs /\ row[t] \in Rows
  BY SetOne DEF TypeInv
<1>2. ASSUME NEW pc \in Inflight \ {"acking"}, Goto(t, s, pc), run[t][s].pc \notin {"idle", "acking"}
      PROVE  SameWork
  <2>1. [run[t][s] EXCEPT !.pc = pc].pc = pc
    BY <1>1 DEF Runs
  <2>2. WorksOn(run[t][s], [run[t][s] EXCEPT !.pc = pc])
    BY <1>2, <2>1, WorkOfClaims DEF WorksOn, Inflight
  <2>3. QED
    BY <1>2, <2>2, RunWorks DEF Goto
<1>3. ASSUME NEW e, Failing(t, s, e), run[t][s].pc \notin {"idle", "acking"}
      PROVE  SameWork
  <2> DEFINE r == FailingRun(run[t][s], WillRetry(t, run[t][s], e), e)
  <2>1. r.pc = "failing"
    BY <1>1 DEF Runs, FailingRun
  <2>2. WorksOn(run[t][s], r)
    BY <1>3, <2>1, WorkOfClaims DEF WorksOn
  <2>3. QED
    BY <1>3, <2>2, RunWorks DEF Failing
<1>4. End(t, s) => SameWork
  <2>1. WorksOn(run[t][s], NoRun)
    BY DEF WorksOn, NoRun
  <2>2. QED
    BY <2>1, RunWorks DEF End
<1>5. CASE Start(t, s)
  BY <1>2, <1>5, UnchangedLife, QuietLife DEF Start, Inflight
<1>6. CASE MarkRunning(t, s)
  BY <1>2, <1>6, UnchangedLife, QuietLife DEF MarkRunning, Inflight
<1>7. CASE LoseClaim(t, s)
  BY <1>4, <1>7, UnchangedLife, QuietLife DEF LoseClaim
<1>8. CASE Load(t, s)
  <2> DEFINE r == [run[t][s] EXCEPT !.pc = "executing", !.beating = TRUE]
  <2>1. r.pc = "executing"
    BY <1>1 DEF Runs
  <2>2. WorksOn(run[t][s], r)
    BY <1>8, <2>1, WorkOfClaims DEF WorksOn, Load
  <2>3. QED
    BY <1>8, <2>2, RunWorks, UnchangedLife, QuietLife DEF Load
<1>9. ASSUME NEW e \in {"error", "unlisted"}, LoadFails(t, s, e) \/ Raise(t, s, e)
      PROVE  Life!Leave
  BY <1>3, <1>9, UnchangedLife, QuietLife DEF LoadFails, Raise
<1>10. CASE Return(t, s)
  BY <1>2, <1>10, UnchangedLife, QuietLife DEF Return, Inflight
<1>11. CASE TimeOut(t, s)
  BY <1>3, <1>11, UnchangedLife, QuietLife DEF TimeOut
<1>12. CASE Interrupt(t, s)
  BY <1>3, <1>12, UnchangedLife, QuietLife DEF Interrupt
<1>13. CASE Heartbeat(t, s)
  <2>1. Beat(row[t]).status = row[t].status
    BY <1>1 DEF Beat, Rows
  <2>2. QED
    BY <1>13, <2>1, RowMoves, UnchangedLife, QuietLife DEF Heartbeat
<1>14. CASE Die(t, s)
  BY <1>4, <1>14, UnchangedLife, QuietLife DEF Die
<1>15. CASE Abandon(t, s)
  BY <1>4, <1>15, UnchangedLife, QuietLife DEF Abandon
<1>16. QED
  BY <1>5, <1>6, <1>7, <1>8, <1>9, <1>10, <1>11, <1>12, <1>13, <1>14, <1>15

\* The steps of a run that may write one.
LEMMA OutcomesRefine ==
  ASSUME TypeInv, TokenInv, BatchedIsRunning, NEW t \in Tasks, NEW s \in Slots
  PROVE  /\ Release(t, s) \/ ReleaseFails(t, s) => Life!Next
         /\ MarkSuccessful(t, s) => Life!Next
         /\ MarkFailed(t, s) => Life!Next
         /\ Nack(t, s) => Life!Next
         /\ Ack(t, s) => Life!Next
<1>1. run[t][s] \in Runs /\ row[t] \in Rows
  BY SetOne DEF TypeInv
<1>2. ASSUME NEW x, NEW r, row' = [row EXCEPT ![t] = x], SetRun(t, s, r), UNCHANGED current,
             Holds(run[t][s], row[t]), run[t][s].pc \notin {"idle", "acking"}
      PROVE  /\ x.status \in {"SUCCESSFUL", "FAILED"} /\ r.pc = "acking" => Life!Report(t, s)
             /\ x.status = "READY" /\ r.pc = "idle" => Life!HandBack(t, s)
  <2>1. Life!Works(t, s)
    BY <1>2, HolderOwns, RunWorks, WorkOfClaims DEF Life!Works, Holds
  <2>2. Life!Move(t, "leased", PhaseOf[x.status])
    BY <1>2, RowMoves, PhaseNames DEF Holds
  <2>3. work' = [work EXCEPT ![t][s] = WorkOf(r)]
    BY <1>2, RunWorks
  <2>4. ASSUME x.status \in {"SUCCESSFUL", "FAILED"}, r.pc = "acking"
        PROVE  Life!Report(t, s)
    <3>1. PhaseOf[x.status] \in {"succeeded", "failed"}
      BY <2>4, PhaseNames
    <3>2. WorkOf(r) = "reported"
      BY <2>4, WorkOfClaims
    <3>3. QED
      BY <1>2, <2>1, <2>2, <2>3, <3>1, <3>2 DEF Life!Report
  <2>5. ASSUME x.status = "READY", r.pc = "idle"
        PROVE  Life!HandBack(t, s)
    <3>1. PhaseOf[x.status] = "waiting"
      BY <2>5, PhaseNames
    <3>2. WorkOf(r) = "none"
      BY <2>5, WorkOfClaims
    <3>3. QED
      BY <1>2, <2>1, <2>2, <2>3, <3>1, <3>2 DEF Life!HandBack
  <2>6. QED
    BY <2>4, <2>5
<1>3. ASSUME MarkSuccessful(t, s) PROVE Life!Next
  <2> DEFINE x == [row[t] EXCEPT !.status = "SUCCESSFUL"]
             r == [run[t][s] EXCEPT !.pc = "acking"]
  <2>1. row' = [row EXCEPT ![t] = x] /\ x.status = "SUCCESSFUL" /\ r.pc = "acking"
    BY <1>1, <1>3 DEF MarkSuccessful, TypeInv, TypeOK, Rows, Runs
  <2>2. SetRun(t, s, r)
    BY <1>3 DEF MarkSuccessful, Goto
  <2>3. Life!Report(t, s)
    BY <1>2, <1>3, <2>1, <2>2 DEF MarkSuccessful
  <2>4. QED
    BY <2>3 DEF Life!Next
<1>4. ASSUME MarkFailed(t, s) PROVE Life!Next
  <2> DEFINE x == FailedRow(row[t], run[t][s])
             r == [run[t][s] EXCEPT !.pc = IF run[t][s].retry THEN "nacking" ELSE "acking",
                                    !.error = "none", !.retry = FALSE]
  <2>1. x.status = IF run[t][s].retry THEN row[t].status ELSE "FAILED"
    BY <1>1, RowFields
  <2>2. r.pc = IF run[t][s].retry THEN "nacking" ELSE "acking"
    BY <1>1 DEF Runs
  <2>3. row' = [row EXCEPT ![t] = x] /\ SetRun(t, s, r) /\ UNCHANGED current
    BY <1>4 DEF MarkFailed
  <2>4. CASE run[t][s].retry
    <3>1. WorksOn(run[t][s], r)
      <4>1. r.pc = "nacking" /\ run[t][s].pc = "failing"
        BY <1>4, <2>2, <2>4 DEF MarkFailed
      <4> HIDE DEF r
      <4>2. QED
        BY <4>1, WorkOfClaims DEF WorksOn
    <3>2. SameWork
      BY <2>3, <3>1, RunWorks
    <3>3. SameStatus
      BY <2>1, <2>3, <2>4, RowMoves
    <3>4. QED
      BY <2>3, <3>2, <3>3, QuietLife DEF Life!Next
  <2>5. CASE ~run[t][s].retry
    <3>1. x.status = "FAILED" /\ r.pc = "acking"
      BY <1>1, <2>1, <2>2, <2>5 DEF Runs
    <3> HIDE DEF x, r
    <3>2. Life!Report(t, s)
      BY <1>2, <1>4, <2>3, <3>1 DEF MarkFailed
    <3>3. QED
      BY <3>2 DEF Life!Next
  <2>6. QED
    BY <2>4, <2>5
<1>5. ASSUME Nack(t, s) PROVE Life!Next
  <2>1. SetRun(t, s, NoRun) /\ UNCHANGED current /\ NoRun.pc = "idle"
    BY <1>5 DEF Nack, End, NoRun
  <2>2. CASE Holds(run[t][s], row[t])
    <3>1. row' = [row EXCEPT ![t] = RetriedRow(row[t])] /\ RetriedRow(row[t]).status = "READY"
      BY <1>1, <1>5, <2>2, RowFields DEF Nack
    <3>2. Life!HandBack(t, s)
      BY <1>2, <1>5, <2>1, <2>2, <3>1 DEF Nack
    <3>3. QED
      BY <3>2 DEF Life!Next
  <2>3. CASE ~Holds(run[t][s], row[t])
    <3>1. SameWork
      BY <2>1, RunWorks DEF WorksOn
    <3>2. QED
      BY <1>5, <2>1, <2>3, <3>1, UnchangedLife, QuietLife DEF Nack, Life!Next
  <2>4. QED
    BY <2>2, <2>3
<1>6. ASSUME Ack(t, s) PROVE Life!Next
  <2>1. SetRun(t, s, NoRun) /\ UNCHANGED current /\ NoRun.pc = "idle"
    BY <1>6 DEF Ack, End, NoRun
  <2>2. SameWork
    BY <2>1, RunWorks DEF WorksOn
  <2>3. Unclaimed(row[t]).status = row[t].status
    BY <1>1, RowFields
  <2>4. SameStatus
    BY <1>6, <2>3, RowMoves, UnchangedLife DEF Ack
  <2>5. QED
    BY <2>1, <2>2, <2>4, QuietLife DEF Life!Next
<1>7. ASSUME Release(t, s) \/ ReleaseFails(t, s) PROVE Life!Next
  <2>1. SetRun(t, s, NoRun) /\ UNCHANGED current /\ NoRun.pc = "idle" /\ run[t][s].pc = "batched"
    BY <1>7 DEF Release, ReleaseFails, NoRun
  <2>2. CASE Release(t, s) /\ Owns(run[t][s], row[t])
    <3>1. Holds(run[t][s], row[t])
      BY <2>2 DEF BatchedIsRunning, Release, MustRelease, Holds
    <3>2. row' = [row EXCEPT ![t] = ReleasedRow(row[t])] /\ ReleasedRow(row[t]).status = "READY"
      BY <1>1, <2>2, RowFields DEF Release
    <3>3. Life!HandBack(t, s)
      BY <1>2, <2>1, <3>1, <3>2
    <3>4. QED
      BY <3>3 DEF Life!Next
  <2>3. CASE ~(Release(t, s) /\ Owns(run[t][s], row[t]))
    <3>1. UNCHANGED row
      BY <1>7, <2>3 DEF Release, ReleaseFails
    <3>2. SameWork
      BY <2>1, RunWorks DEF WorksOn
    <3>3. QED
      BY <2>1, <3>1, <3>2, UnchangedLife, QuietLife DEF Life!Next
  <2>4. QED
    BY <2>2, <2>3
<1>8. QED
  BY <1>3, <1>4, <1>5, <1>6, <1>7

LEMMA ClaimRefines ==
  ASSUME TypeInv, NEW w \in Workers, NEW S \in SUBSET Tasks, Claim(w, S)
  PROVE  Life!Grant(S)
<1> DEFINE claimed == [NoRun EXCEPT !.pc = "claimed", !.worker = w]
           new == [t \in S |-> FreeSlot(t)]
<1>1. WorkOf(claimed) = "working" /\ WorkOf(NoRun) = "none"
  <2>1. claimed.pc = "claimed" /\ NoRun.pc = "idle"
    BY DEF NoRun
  <2> HIDE DEF claimed
  <2>2. QED
    BY <2>1, WorkOfClaims
<1>2. \A t \in S : row[t].status = "READY" /\ FreeSlot(t) \in FreeSlots(t)
  BY DEF Claim, Due, FreeSlot
<1>3. \A t \in S : FreeSlot(t) \in Slots /\ run[t][FreeSlot(t)].pc = "idle"
  BY <1>2 DEF FreeSlots
<1>4. new \in [S -> Slots]
  BY <1>3
<1>5. /\ work = [t \in Tasks |-> [s \in Slots |-> WorkOf(run[t][s])]]
      /\ work' = [t \in Tasks |-> [s \in Slots |-> WorkOf(run'[t][s])]]
  BY DEF work, WorkOf
<1>6. \A t \in S : work[t][new[t]] = "none"
  BY <1>3, <1>5, WorkOfClaims
<1>7. phase' = [t \in Tasks |-> IF t \in S THEN "leased" ELSE phase[t]]
  <2>1. \A t \in Tasks : row[t] \in Rows
    BY DEF TypeInv, TypeOK
  <2>2. \A t \in S : row'[t].status = "RUNNING"
    BY <2>1, RowFields DEF Claim
  <2>3. \A t \in Tasks \ S : row'[t] = row[t]
    BY DEF Claim
  <2>4. QED
    BY <2>2, <2>3 DEF phase, PhaseOf
<1>8. \A t \in S : phase[t] = "waiting"
  BY <1>2 DEF phase, PhaseOf
<1>9. current' = [t \in Tasks |-> IF t \in S THEN new[t] ELSE current[t]]
  BY DEF Claim
<1>10. work' = [t \in Tasks |->
                  IF t \in S THEN [work[t] EXCEPT ![new[t]] = "working"] ELSE work[t]]
  <2>1. \A t \in Tasks : run[t] \in [Slots -> Runs]
    BY DEF TypeInv, TypeOK
  <2>2. \A t \in S : run'[t] = [run[t] EXCEPT ![FreeSlot(t)] = claimed]
    BY DEF Claim
  <2>3. \A t \in Tasks \ S : run'[t] = run[t]
    BY DEF Claim
  <2> HIDE DEF claimed
  <2>4. ASSUME NEW t \in S
        PROVE  work'[t] = [work[t] EXCEPT ![new[t]] = "working"]
    <3>1. \A s \in Slots : run'[t][s] = IF s = FreeSlot(t) THEN claimed ELSE run[t][s]
      BY <2>1, <2>2
    <3>2. \A s \in Slots :
            WorkOf(run'[t][s]) = IF s = FreeSlot(t) THEN "working" ELSE WorkOf(run[t][s])
      BY <1>1, <3>1
    <3>3. /\ work'[t] = [s \in Slots |-> WorkOf(run'[t][s])]
          /\ work[t] = [s \in Slots |-> WorkOf(run[t][s])]
          /\ new[t] = FreeSlot(t)
      BY <1>5
    <3>4. QED
      BY <3>2, <3>3
  <2>5. \A t \in Tasks \ S : work'[t] = work[t]
    BY <1>5, <2>3
  <2>6. QED
    BY <1>5, <2>4, <2>5
<1> HIDE DEF new
<1>11. QED
  BY <1>4, <1>6, <1>7, <1>8, <1>9, <1>10 DEF Claim, Life!Grant

LEMMA ReapRefines ==
  ASSUME TypeInv, NEW w \in Workers, NEW S \in SUBSET Tasks, Reap(w, S)
  PROVE  Life!Expire(S)
<1> DEFINE next == [t \in S |-> PhaseOf[ReclaimedRow(t).status]]
<1>1. \A t \in Tasks : row[t] \in Rows
  BY DEF TypeInv, TypeOK
<1>2. ASSUME NEW t \in S PROVE ReclaimedRow(t).status \in {"READY", "FAILED"}
  <2>1. row[t] \in Rows
    BY <1>1
  <2>2. RetriedRow(row[t]).status = "READY" /\ Unclaimed(row[t]) \in Rows
    BY <2>1, RowFields, RowOperators
  <2>3. QED
    BY <2>2 DEF ReclaimedRow, Rows
<1>3. next \in [S -> {"waiting", "failed"}]
  BY <1>2 DEF PhaseOf
<1>4. \A t \in S : phase[t] = "leased"
  BY DEF Reap, Stale, phase, PhaseOf
<1>5. phase' = [t \in Tasks |-> IF t \in S THEN next[t] ELSE phase[t]]
  BY DEF Reap, phase
<1>6. UNCHANGED work
  BY DEF Reap, work, WorkOf
<1> HIDE DEF next
<1>7. QED
  BY <1>3, <1>4, <1>5, <1>6 DEF Reap, Life!Expire

LEMMA WorkersRefine ==
  ASSUME TypeInv, NEW w \in Workers
  PROVE  /\ \A S \in SUBSET Tasks : Claim(w, S) \/ Reap(w, S) => Life!Next
         /\ ReadBack(w) \/ LoseBatch(w) => Life!Next
         /\ \A k \in Tasks \X Slots : ThreadReturns(w, k) => Life!Next
         /\ RequestShutdown(w) \/ Crash(w) => Life!Next
<1>1. \A S \in SUBSET Tasks : Claim(w, S) \/ Reap(w, S) => Life!Next
  BY ClaimRefines, ReapRefines DEF Life!Next
<1>2. ASSUME ReadBack(w) PROVE Life!Next
  <2>1. \A t \in Tasks, s \in Slots : run[t][s] \in Runs
    BY DEF TypeInv, TypeOK
  <2>2. ASSUME NEW t \in Tasks, NEW s \in Slots PROVE WorksOn(run[t][s], run'[t][s])
    <3>1. CASE <<t, s>> \in Batch(w)
      <4>1. run[t][s].pc = "claimed"
        BY <3>1 DEF Batch, RunsOf
      <4>2. run'[t][s].pc = "batched"
        BY <1>2, <2>1, <3>1 DEF ReadBack, Runs
      <4>3. QED
        BY <4>1, <4>2, WorkOfClaims DEF WorksOn
    <3>2. CASE <<t, s>> \notin Batch(w)
      BY <1>2, <3>2 DEF ReadBack, WorksOn
    <3>3. QED
      BY <3>1, <3>2
  <2>3. QED
    BY <1>2, <2>2, UnchangedLife, QuietLife DEF ReadBack, SameWork, Life!Next
<1>3. LoseBatch(w) => Life!Next
  <2>1. LoseBatch(w) => \A t \in Tasks, s \in Slots : run'[t][s] \in {run[t][s], NoRun}
    BY DEF LoseBatch
  <2>2. QED
    BY <2>1, EndedRuns, UnchangedLife, QuietLife DEF LoseBatch, Life!Next
<1>4. \A k \in Tasks \X Slots : ThreadReturns(w, k) => Life!Next
  BY UnchangedLife, QuietLife DEF ThreadReturns, Life!Next
<1>5. RequestShutdown(w) => Life!Next
  BY UnchangedLife, QuietLife DEF RequestShutdown, Life!Next
<1>6. Crash(w) => Life!Next
  <2>1. Crash(w) => \A t \in Tasks, s \in Slots : run'[t][s] \in {run[t][s], NoRun}
    BY DEF Crash
  <2>2. QED
    BY <2>1, EndedRuns, UnchangedLife, QuietLife DEF Crash, Life!Next
<1>7. QED
  BY <1>1, <1>2, <1>3, <1>4, <1>5, <1>6

-----------------------------------------------------------------------------

LEMMA InitRefines == Init => Life!Init
<1>1. Init => phase = [t \in Tasks |-> "absent"]
  BY DEF Init, phase, PhaseOf, NoRow
<1>2. Init => work = [t \in Tasks |-> [s \in Slots |-> "none"]]
  BY DEF Init, work, WorkOf, NoRun
<1>3. QED
  BY <1>1, <1>2 DEF Init, Life!Init

LEMMA StepRefines ==
  TypeInv /\ TokenInv /\ ReleaseInv /\ [Next]_vars => [Life!Next]_(Life!vars)
<1>1. SUFFICES ASSUME TypeInv, TokenInv, BatchedIsRunning, [Next]_vars
               PROVE  [Life!Next]_(Life!vars)
  BY DEF ReleaseInv
<1>2. CASE UNCHANGED vars
  BY <1>2, UnchangedLife, QuietLife DEF vars, Life!Next
<1>3. ASSUME NEW t \in Tasks,
             \/ \E due \in BOOLEAN : Enqueue(t, due)
             \/ Cancel(t)
             \/ \E reset \in ResetChoices : Requeue(t, reset)
             \/ BecomeDue(t) \/ GoStale(t)
      PROVE  Life!Next
  BY <1>1, <1>3, ClientsRefine
<1>4. ASSUME NEW t \in Tasks, NEW s \in Slots,
             RunStep(t, s) \/ Heartbeat(t, s) \/ Die(t, s) \/ Abandon(t, s)
      PROVE  Life!Next
  <2>1. Life!Leave => Life!Next
    BY DEF Life!Next
  <2>2. QED
    BY <1>1, <1>4, <2>1, QuietRunSteps, OutcomesRefine DEF RunStep
<1>5. QED
  BY <1>1, <1>2, <1>3, <1>4, WorkersRefine DEF Next

\* The task queue implements TaskLife: in orderly behaviours only the claim
\* granted last finishes a task or hands it back, once, while it is leased, and
\* whatever a claim that lost its lease still does, it changes nothing.  The
\* writes of mark_*, nack, ack and release rest on it.
THEOREM QueueImplementsLife == OrderlySpec => ImplementsTaskLife
<1>1. TypeInv /\ TokenInv /\ ReleaseInv /\ [Next /\ Orderly]_vars => [Life!Next]_(Life!vars)
  BY StepRefines
<1>2. QED
  BY <1>1, TokensKept, InitRefines, PTL DEF OrderlySpec, ImplementsTaskLife, Life!Spec

\* The same for tasks whose attempts only grow, with nothing taken for granted.
THEOREM AsyncQueueImplementsLife ==
  ASSUME Sync = {}, ResetChoices \subseteq {FALSE}
  PROVE  Spec => ImplementsTaskLife
  BY QueueImplementsLife, OrderlyByConstants, PTL

=============================================================================
