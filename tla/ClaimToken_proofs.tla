-------------------------- MODULE ClaimToken_proofs --------------------------
(***************************************************************************)
(* The pair (worker, attempt) identifies a claim.  Only then is the WHERE  *)
(* clause of every late write enough to keep it off newer work.            *)
(*                                                                         *)
(* Attempts are counted up by claim, but release gives one back and a      *)
(* requeue may set them to 0.  What keeps tokens apart all the same is     *)
(* that the attempt of an older claim is not only never ahead of the row's *)
(* but behind it while the row has an owner, so that one may be given back *)
(* (OlderAreBehind).  A claim that has not read its row back yet has no    *)
(* attempt to compare: of it the invariant says that its worker owns the   *)
(* row only through it, and, for the tasks whose claims may be released,   *)
(* that its lease has just begun (UnreadIsFresh).                          *)
(***************************************************************************)
EXTENDS TaskQueue_proofs

\* r may come to hold, or holds, the token of x.
Claims(r, x) ==
  /\ r.pc # "idle"
  /\ x.claimed_by = r.worker
  /\ r.pc = "claimed" \/ r.attempt = x.attempts

NewestClaims ==
  \A t \in Tasks, s \in Slots : Claims(run[t][s], row[t]) => current[t] = s

AttemptsNotAhead ==
  \A t \in Tasks, s \in Slots :
    run[t][s].pc \notin {"idle", "claimed"} => run[t][s].attempt <= row[t].attempts

TokenInv == NewestClaims /\ AttemptsNotAhead

\* Sync tasks are those whose claims may be released.
OlderAreBehind ==
  \A t \in Sync, s \in Slots :
    current[t] # s /\ run[t][s].pc # "idle" /\ row[t].claimed_by # NoWorker
      => run[t][s].pc # "claimed" /\ run[t][s].attempt < row[t].attempts

UnreadIsFresh ==
  \A t \in Sync, s \in Slots :
    run[t][s].pc = "claimed" =>
      /\ row[t].status = "RUNNING" /\ row[t].heartbeat = "fresh"
      /\ row[t].claimed_by = run[t][s].worker

BatchedIsRunning ==
  \A t \in Sync, s \in Slots :
    run[t][s].pc = "batched" /\ Owns(run[t][s], row[t]) => row[t].status = "RUNNING"

ReleaseInv == OlderAreBehind /\ UnreadIsFresh /\ BatchedIsRunning

-----------------------------------------------------------------------------

(* Most steps claim nothing: rows keep their attempts and at most lose      *)
(* their owner, claims under way keep their token or end.                   *)
SameRowTokens ==
  \A t \in Tasks : /\ row'[t].attempts = row[t].attempts
                   /\ row'[t].claimed_by \in {row[t].claimed_by, NoWorker}

KeepsToken(r, r2) ==
  \/ r2.pc = "idle"
  \/ /\ r.pc # "idle" /\ r2.worker = r.worker /\ r2.attempt = r.attempt
     /\ r2.pc = "claimed" <=> r.pc = "claimed"
     /\ r2.pc = "batched" => r.pc = "batched"

SameRunTokens == \A t \in Tasks, s \in Slots : KeepsToken(run[t][s], run'[t][s])

Quiet == SameRowTokens /\ SameRunTokens /\ UNCHANGED current

LEMMA QuietStep ==
  ASSUME TypeInv, TypeInv', TokenInv, Quiet
  PROVE  TokenInv'
<1>0. SameRowTokens /\ SameRunTokens /\ UNCHANGED current
  BY DEF Quiet
<1>1. \A t \in Tasks, s \in Slots : run'[t][s].pc # "idle" => run'[t][s].worker # NoWorker
  BY TaskAssumption DEF TypeInv, RunsHaveWorkers
<1>2. ASSUME NEW t \in Tasks, NEW s \in Slots, Claims(run'[t][s], row'[t])
      PROVE  current'[t] = s
  <2>1. row'[t].claimed_by = row[t].claimed_by
    BY <1>0, <1>1, <1>2 DEF SameRowTokens, Claims
  <2>2. Claims(run[t][s], row[t])
    BY <1>0, <1>2, <2>1 DEF SameRowTokens, SameRunTokens, KeepsToken, Claims
  <2>3. QED
    BY <1>0, <2>2 DEF TokenInv, NewestClaims
<1>3. NewestClaims'
  BY <1>2 DEF NewestClaims
<1>4. AttemptsNotAhead'
  BY <1>0 DEF TokenInv, AttemptsNotAhead, SameRowTokens, SameRunTokens, KeepsToken
<1>5. QED
  BY <1>3, <1>4 DEF TokenInv

LEMMA UnchangedTokens ==
  /\ UNCHANGED row => SameRowTokens
  /\ UNCHANGED run => SameRunTokens
<1>1. \A t \in Tasks, s \in Slots : KeepsToken(run[t][s], run[t][s])
  BY DEF KeepsToken
<1>2. QED
  BY <1>1 DEF SameRowTokens, SameRunTokens

\* Setting one row without touching its attempts or giving it an owner.
LEMMA QuietRow ==
  ASSUME TypeInv, NEW t \in Tasks, NEW x,
         x.attempts = row[t].attempts, x.claimed_by \in {row[t].claimed_by, NoWorker},
         row' = [row EXCEPT ![t] = x]
  PROVE  SameRowTokens
  BY DEF SameRowTokens, TypeInv, TypeOK

\* Setting one run to one that keeps its token.
LEMMA QuietRun ==
  ASSUME TypeInv, NEW t \in Tasks, NEW s \in Slots, NEW r,
         KeepsToken(run[t][s], r), SetRun(t, s, r)
  PROVE  SameRunTokens
<1>1. \A t2 \in Tasks, s2 \in Slots :
        run'[t2][s2] = IF t2 = t /\ s2 = s THEN r ELSE run[t2][s2]
  BY DEF SetRun, TypeInv, TypeOK
<1>2. \A t2 \in Tasks, s2 \in Slots : KeepsToken(run[t2][s2], run[t2][s2])
  BY DEF KeepsToken
<1>3. QED
  BY <1>1, <1>2 DEF SameRunTokens

LEMMA QuietEnd ==
  ASSUME TypeInv, NEW t \in Tasks, NEW s \in Slots, SetRun(t, s, NoRun)
  PROVE  SameRunTokens
<1>1. KeepsToken(run[t][s], NoRun)
  BY DEF KeepsToken, NoRun
<1>2. QED
  BY <1>1, QuietRun

LEMMA ProducersAreQuiet ==
  ASSUME TypeInv, NEW t \in Tasks
  PROVE  /\ \A due \in BOOLEAN : Enqueue(t, due) => SameRowTokens
         /\ Cancel(t) => SameRowTokens
         /\ Requeue(t, FALSE) => SameRowTokens
         /\ BecomeDue(t) => SameRowTokens
         /\ GoStale(t) => SameRowTokens
<1>1. row[t] \in Rows
  BY DEF TypeInv, TypeOK
<1>2. \A due \in BOOLEAN : Enqueue(t, due) => SameRowTokens
  BY <1>1 DEF Enqueue, SameRowTokens, TypeInv, TypeOK, Rows
<1>3. ASSUME Cancel(t) PROVE SameRowTokens
  <2>1. /\ CancelledRow(row[t]).attempts = row[t].attempts
        /\ CancelledRow(row[t]).claimed_by = row[t].claimed_by
    BY <1>1, <1>3, RowFields DEF Cancel
  <2>2. QED
    BY <1>3, <2>1, QuietRow DEF Cancel
<1>4. ASSUME Requeue(t, FALSE) PROVE SameRowTokens
  <2>1. /\ RequeuedRow(row[t], FALSE).attempts = row[t].attempts
        /\ RequeuedRow(row[t], FALSE).claimed_by = NoWorker
    BY <1>1, RowFields
  <2>2. QED
    BY <1>4, <2>1, QuietRow DEF Requeue
<1>5. BecomeDue(t) => SameRowTokens
  BY <1>1 DEF BecomeDue, SameRowTokens, TypeInv, TypeOK, Rows
<1>6. GoStale(t) => SameRowTokens
  BY <1>1 DEF GoStale, SameRowTokens, TypeInv, TypeOK, Rows
<1>7. QED
  BY <1>2, <1>3, <1>4, <1>5, <1>6

LEMMA RunStepsAreQuiet ==
  ASSUME TypeInv, NEW t \in Tasks, NEW s \in Slots, RunStep(t, s),
         ~(Release(t, s) /\ Owns(run[t][s], row[t]))
  PROVE  Quiet
<1> USE DEF Quiet
<1>1. row[t] \in Rows /\ run[t][s] \in Runs
  BY SetOne DEF TypeInv
<1>2. ASSUME NEW pc \in Inflight, Goto(t, s, pc), run[t][s].pc \notin {"idle", "claimed"}
      PROVE  SameRunTokens
  <2>1. KeepsToken(run[t][s], [run[t][s] EXCEPT !.pc = pc])
    BY <1>1, <1>2 DEF KeepsToken, Runs, Inflight
  <2>2. QED
    BY <1>2, <2>1, QuietRun DEF Goto
<1>3. ASSUME NEW e, Failing(t, s, e), run[t][s].pc \notin {"idle", "claimed"}
      PROVE  SameRunTokens
  <2> DEFINE r == FailingRun(run[t][s], WillRetry(t, run[t][s], e), e)
  <2>1. KeepsToken(run[t][s], r)
    BY <1>1, <1>3 DEF KeepsToken, Runs, FailingRun
  <2>2. QED
    BY <1>3, <2>1, QuietRun DEF Failing
<1>4. ASSUME NEW x, x.attempts = row[t].attempts,
             x.claimed_by \in {row[t].claimed_by, NoWorker}, row' = [row EXCEPT ![t] = x]
      PROVE  SameRowTokens
  BY <1>4, QuietRow
<1>5. CASE Start(t, s)
  BY <1>2, <1>5, UnchangedTokens DEF Start, Inflight
<1>6. CASE Release(t, s) \/ ReleaseFails(t, s)
  BY <1>6, UnchangedTokens, QuietEnd DEF Release, ReleaseFails
<1>7. CASE MarkRunning(t, s)
  BY <1>2, <1>7, UnchangedTokens DEF MarkRunning, Inflight
<1>8. CASE LoseClaim(t, s)
  BY <1>8, UnchangedTokens, QuietEnd DEF LoseClaim, End
<1>9. CASE Load(t, s)
  <2>1. KeepsToken(run[t][s], [run[t][s] EXCEPT !.pc = "executing", !.beating = TRUE])
    BY <1>1, <1>9 DEF Load, KeepsToken, Runs
  <2>2. QED
    BY <1>9, <2>1, UnchangedTokens, QuietRun DEF Load
<1>10. ASSUME NEW e \in {"error", "unlisted"}, LoadFails(t, s, e)
       PROVE  Quiet
  BY <1>3, <1>10, UnchangedTokens DEF LoadFails
<1>11. CASE Return(t, s)
  BY <1>2, <1>11, UnchangedTokens DEF Return, Inflight
<1>12. ASSUME NEW e \in {"error", "unlisted"}, Raise(t, s, e)
       PROVE  Quiet
  BY <1>3, <1>12, UnchangedTokens DEF Raise
<1>13. CASE TimeOut(t, s)
  BY <1>3, <1>13, UnchangedTokens DEF TimeOut
<1>14. CASE Interrupt(t, s)
  BY <1>3, <1>14, UnchangedTokens DEF Interrupt
<1>15. CASE MarkSuccessful(t, s)
  <2>1. SameRowTokens
    BY <1>1, <1>15 DEF MarkSuccessful, SameRowTokens, TypeInv, TypeOK, Rows
  <2>2. QED
    BY <1>2, <1>15, <2>1 DEF MarkSuccessful, Inflight
<1>16. CASE MarkFailed(t, s)
  <2> DEFINE r == [run[t][s] EXCEPT !.pc = IF run[t][s].retry THEN "nacking" ELSE "acking",
                                    !.error = "none", !.retry = FALSE]
  <2>1. /\ FailedRow(row[t], run[t][s]).attempts = row[t].attempts
        /\ FailedRow(row[t], run[t][s]).claimed_by = row[t].claimed_by
    BY <1>1, RowFields
  <2>2. SameRowTokens
    BY <1>4, <1>16, <2>1 DEF MarkFailed
  <2>3. KeepsToken(run[t][s], r)
    BY <1>1, <1>16 DEF MarkFailed, KeepsToken, Runs
  <2>4. QED
    BY <1>16, <2>2, <2>3, QuietRun DEF MarkFailed
<1>17. CASE Nack(t, s)
  <2>1. /\ RetriedRow(row[t]).attempts = row[t].attempts
        /\ RetriedRow(row[t]).claimed_by = NoWorker
    BY <1>1, RowFields
  <2>2. QED
    BY <1>4, <1>17, <2>1, UnchangedTokens, QuietEnd DEF Nack, End
<1>18. CASE Ack(t, s)
  <2>1. /\ Unclaimed(row[t]).attempts = row[t].attempts
        /\ Unclaimed(row[t]).claimed_by = NoWorker
    BY <1>1, RowFields
  <2>2. QED
    BY <1>4, <1>18, <2>1, UnchangedTokens, QuietEnd DEF Ack, End
<1>19. QED
  BY <1>5, <1>6, <1>7, <1>8, <1>9, <1>10, <1>11, <1>12, <1>13, <1>14, <1>15, <1>16,
     <1>17, <1>18 DEF RunStep

LEMMA InterruptsAreQuiet ==
  ASSUME TypeInv, NEW t \in Tasks, NEW s \in Slots
  PROVE  /\ Heartbeat(t, s) => Quiet
         /\ Die(t, s) => Quiet
         /\ Abandon(t, s) => Quiet
<1> USE DEF Quiet
<1>1. row[t] \in Rows
  BY DEF TypeInv, TypeOK
<1>2. /\ Beat(row[t]).attempts = row[t].attempts
      /\ Beat(row[t]).claimed_by = row[t].claimed_by
  BY <1>1, RowFields
<1>3. Heartbeat(t, s) => Quiet
  BY <1>2, QuietRow, UnchangedTokens DEF Heartbeat
<1>4. Die(t, s) => Quiet
  BY QuietEnd, UnchangedTokens DEF Die, End
<1>5. Abandon(t, s) => Quiet
  BY QuietEnd, UnchangedTokens DEF Abandon, End
<1>6. QED
  BY <1>3, <1>4, <1>5

\* The two steps that give out tokens.
LEMMA ClaimKeepsToken ==
  ASSUME TypeInv, TokenInv, NEW w \in Workers, NEW S \in SUBSET Tasks, Claim(w, S)
  PROVE  TokenInv'
<1> DEFINE new == [NoRun EXCEPT !.pc = "claimed", !.worker = w]
<1>1. new.pc = "claimed" /\ new.worker = w
  BY DEF NoRun
<1>2. \A t \in Tasks : row[t] \in Rows /\ row[t].attempts \in Nat /\ run[t] \in [Slots -> Runs]
  BY DEF TypeInv, TypeOK, Rows
<1>3. \A t \in S : FreeSlot(t) \in Slots
  BY DEF Claim, Due, FreeSlot, FreeSlots
<1>4. \A t \in S : /\ row'[t].claimed_by = w /\ row'[t].attempts = row[t].attempts + 1
                   /\ current'[t] = FreeSlot(t)
                   /\ run'[t] = [run[t] EXCEPT ![FreeSlot(t)] = new]
  BY <1>2, RowFields DEF Claim
<1>5. \A t \in Tasks \ S : row'[t] = row[t] /\ current'[t] = current[t] /\ run'[t] = run[t]
  BY DEF Claim
<1>6. ASSUME NEW t \in Tasks, NEW s \in Slots, run[t][s].worker = w
      PROVE  run[t][s].pc # "claimed"
  <2>1. RunsOf(w, {"claimed", "batched"}) = {}
    BY DEF Claim, HasBatch
  <2>2. <<t, s>> \notin RunsOf(w, {"claimed", "batched"})
    BY <2>1
  <2>3. <<t, s>>[1] = t /\ <<t, s>>[2] = s /\ <<t, s>> \in Tasks \X Slots
    OBVIOUS
  <2>4. QED
    BY <1>6, <2>2, <2>3 DEF RunsOf
<1> HIDE DEF new
<1>7. ASSUME NEW t \in S, NEW s \in Slots
      PROVE  /\ Claims(run'[t][s], row'[t]) => current'[t] = s
             /\ run'[t][s].pc \notin {"idle", "claimed"} => run'[t][s].attempt <= row'[t].attempts
  <2>1. CASE s = FreeSlot(t)
    BY <1>1, <1>2, <1>4, <2>1
  <2>2. CASE s # FreeSlot(t)
    <3>1. run'[t][s] = run[t][s] /\ run[t][s] \in Runs /\ run[t][s].attempt \in Nat
      BY <1>2, <1>4, <2>2 DEF Runs
    <3>2. run[t][s].pc \notin {"idle", "claimed"} => run[t][s].attempt <= row[t].attempts
      BY DEF TokenInv, AttemptsNotAhead
    <3>3. /\ row[t].attempts \in Nat /\ row'[t].attempts = row[t].attempts + 1
          /\ row'[t].claimed_by = w
      BY <1>2, <1>4
    <3>4. ~Claims(run[t][s], row'[t])
      <4>1. CASE run[t][s].pc \in {"idle", "claimed"}
        BY <1>6, <3>3, <4>1 DEF Claims
      <4>2. CASE run[t][s].pc \notin {"idle", "claimed"}
        BY <3>1, <3>2, <3>3, <4>2 DEF Claims
      <4>3. QED
        BY <4>1, <4>2
    <3>5. run'[t][s].pc \notin {"idle", "claimed"} => run'[t][s].attempt <= row'[t].attempts
      BY <3>1, <3>2, <3>3
    <3>6. QED
      BY <3>1, <3>4, <3>5
  <2>3. QED
    BY <2>1, <2>2
<1>8. QED
  BY <1>5, <1>7 DEF TokenInv, NewestClaims, AttemptsNotAhead

LEMMA ReadBackKeepsToken ==
  ASSUME TypeInv, TokenInv, NEW w \in Workers, ReadBack(w)
  PROVE  TokenInv'
<1>1. ASSUME NEW t \in Tasks, NEW s \in Slots
      PROVE  /\ Claims(run'[t][s], row'[t]) => current'[t] = s
             /\ run'[t][s].pc \notin {"idle", "claimed"} => run'[t][s].attempt <= row'[t].attempts
  <2>1. row' = row /\ current' = current
    BY DEF ReadBack
  <2>2. run[t][s] \in Runs /\ row[t].attempts \in Nat
    BY DEF TypeInv, TypeOK, Rows
  <2>3. CASE <<t, s>> \in Batch(w)
    <3>1. run[t][s].pc = "claimed"
      BY <2>3 DEF Batch, RunsOf
    <3>2. /\ run'[t][s].pc = "batched" /\ run'[t][s].worker = run[t][s].worker
          /\ run'[t][s].attempt = row[t].attempts
      BY <2>2, <2>3 DEF ReadBack, Runs
    <3>3. Claims(run'[t][s], row[t]) => Claims(run[t][s], row[t])
      BY <3>1, <3>2 DEF Claims
    <3>4. QED
      BY <2>1, <2>2, <3>2, <3>3 DEF TokenInv, NewestClaims
  <2>4. CASE <<t, s>> \notin Batch(w)
    BY <2>1, <2>4 DEF ReadBack, TokenInv, NewestClaims, AttemptsNotAhead
  <2>5. QED
    BY <2>3, <2>4
<1>2. QED
  BY <1>1 DEF TokenInv, NewestClaims, AttemptsNotAhead

LEMMA WorkersAreQuiet ==
  ASSUME TypeInv, NEW w \in Workers
  PROVE  /\ \A S \in SUBSET Tasks : Reap(w, S) => Quiet
         /\ LoseBatch(w) => Quiet
         /\ \A k \in Tasks \X Slots : ThreadReturns(w, k) => Quiet
         /\ RequestShutdown(w) => Quiet
         /\ Crash(w) => Quiet
<1> USE DEF Quiet
<1>1. ASSUME NEW t \in Tasks
      PROVE  /\ ReclaimedRow(t).attempts = row[t].attempts
             /\ ReclaimedRow(t).claimed_by = NoWorker
  <2>1. row[t] \in Rows
    BY DEF TypeInv, TypeOK
  <2>2. /\ RetriedRow(row[t]).attempts = row[t].attempts
        /\ RetriedRow(row[t]).claimed_by = NoWorker
        /\ Unclaimed(row[t]) \in Rows
        /\ Unclaimed(row[t]).attempts = row[t].attempts
        /\ Unclaimed(row[t]).claimed_by = NoWorker
    BY <2>1, RowFields, RowOperators
  <2>3. QED
    BY <2>2 DEF ReclaimedRow, Rows
<1>2. \A S \in SUBSET Tasks : Reap(w, S) => Quiet
  <2>1. \A S \in SUBSET Tasks : Reap(w, S) => SameRowTokens
    BY <1>1 DEF Reap, SameRowTokens
  <2>2. QED
    BY <2>1, UnchangedTokens DEF Reap
<1>3. ASSUME LoseBatch(w)
      PROVE  Quiet
  <2>1. SameRunTokens
    BY <1>3 DEF LoseBatch, SameRunTokens, KeepsToken, NoRun
  <2>2. QED
    BY <1>3, <2>1, UnchangedTokens DEF LoseBatch
<1>4. \A k \in Tasks \X Slots : ThreadReturns(w, k) => Quiet
  BY UnchangedTokens DEF ThreadReturns
<1>5. RequestShutdown(w) => Quiet
  BY UnchangedTokens DEF RequestShutdown
<1>6. ASSUME Crash(w)
      PROVE  Quiet
  <2>1. SameRunTokens
    BY <1>6 DEF Crash, SameRunTokens, KeepsToken, NoRun
  <2>2. QED
    BY <1>6, <2>1, UnchangedTokens DEF Crash
<1>7. QED
  BY <1>2, <1>3, <1>4, <1>5, <1>6

\* A step gives out tokens, makes room for one to be given out again, or is quiet.
LEMMA StepKinds ==
  ASSUME TypeInv, [Next]_vars
  PROVE  \/ Quiet
         \/ \E w \in Workers, S \in SUBSET Tasks : Claim(w, S)
         \/ \E w \in Workers : ReadBack(w)
         \/ \E t \in Tasks, s \in Slots : Release(t, s) /\ Owns(run[t][s], row[t])
         \/ TRUE \in ResetChoices /\ \E t \in Tasks : Requeue(t, TRUE)
<1>1. CASE UNCHANGED vars
  BY <1>1, UnchangedTokens DEF vars, Quiet
<1>2. ASSUME NEW t \in Tasks,
             \/ \E due \in BOOLEAN : Enqueue(t, due)
             \/ Cancel(t) \/ Requeue(t, FALSE) \/ BecomeDue(t) \/ GoStale(t)
      PROVE  Quiet
  <2>1. SameRowTokens
    BY <1>2, ProducersAreQuiet
  <2>2. UNCHANGED <<run, current>>
    BY <1>2 DEF Enqueue, Cancel, Requeue, BecomeDue, GoStale
  <2>3. QED
    BY <2>1, <2>2, UnchangedTokens DEF Quiet
<1>3. ASSUME NEW t \in Tasks, NEW reset \in ResetChoices, Requeue(t, reset)
      PROVE  (TRUE \in ResetChoices /\ Requeue(t, TRUE)) \/ Requeue(t, FALSE)
  <2>1. reset = TRUE \/ reset = FALSE
    BY TaskAssumption
  <2>2. QED
    BY <1>3, <2>1
<1>4. ASSUME NEW t \in Tasks, NEW s \in Slots,
             RunStep(t, s) \/ Heartbeat(t, s) \/ Die(t, s) \/ Abandon(t, s)
      PROVE  Quiet \/ (Release(t, s) /\ Owns(run[t][s], row[t]))
  BY <1>4, RunStepsAreQuiet, InterruptsAreQuiet
<1>5. QED
  BY <1>1, <1>2, <1>3, <1>4, WorkersAreQuiet DEF Next

-----------------------------------------------------------------------------

(* Leases.  A step leaves the lease of a row alone, or no claim that has    *)
(* not started relies on it.                                               *)
LeaseStays(t) ==
  \/ /\ row'[t].status = row[t].status /\ row'[t].claimed_by = row[t].claimed_by
     /\ row[t].heartbeat = "fresh" => row'[t].heartbeat = "fresh"
  \/ /\ \A s \in Slots : run[t][s].pc # "claimed"
     /\ \/ row'[t].claimed_by = NoWorker \/ row'[t].status = "RUNNING"
        \/ \A s \in Slots : ~(run[t][s].pc = "batched" /\ Owns(run[t][s], row[t]))

LeasesStay == \A t \in Sync : LeaseStays(t)

LEMMA QuietLeases ==
  ASSUME TypeInv, TypeInv', ReleaseInv, Quiet, LeasesStay
  PROVE  ReleaseInv'
<1>1. SameRowTokens /\ SameRunTokens /\ UNCHANGED current /\ Sync \subseteq Tasks
  BY TaskAssumption DEF Quiet
<1>2. ASSUME NEW t \in Sync, NEW s \in Slots
      PROVE  /\ KeepsToken(run[t][s], run'[t][s])
             /\ run'[t][s].pc # "idle" => run'[t][s].worker # NoWorker
             /\ row'[t].attempts = row[t].attempts
             /\ row'[t].claimed_by \in {row[t].claimed_by, NoWorker}
  BY <1>1, TaskAssumption DEF SameRowTokens, SameRunTokens, TypeInv, RunsHaveWorkers
<1>3. OlderAreBehind'
  BY <1>1, <1>2 DEF ReleaseInv, OlderAreBehind, KeepsToken
<1>4. UnreadIsFresh'
  <2>1. SUFFICES ASSUME NEW t \in Sync, NEW s \in Slots, run'[t][s].pc = "claimed"
                 PROVE  /\ row'[t].status = "RUNNING" /\ row'[t].heartbeat = "fresh"
                        /\ row'[t].claimed_by = run'[t][s].worker
    BY DEF UnreadIsFresh
  <2>2. run[t][s].pc = "claimed" /\ run'[t][s].worker = run[t][s].worker
    BY <1>2, <2>1 DEF KeepsToken
  <2>3. LeaseStays(t)
    BY DEF LeasesStay
  <2>4. QED
    BY <2>2, <2>3 DEF LeaseStays, ReleaseInv, UnreadIsFresh
<1>5. BatchedIsRunning'
  <2>1. SUFFICES ASSUME NEW t \in Sync, NEW s \in Slots,
                        run'[t][s].pc = "batched", Owns(run'[t][s], row'[t])
                 PROVE  row'[t].status = "RUNNING"
    BY DEF BatchedIsRunning
  <2>2. row'[t].claimed_by # NoWorker
    BY <1>2, <2>1 DEF Owns, Token
  <2>3. run[t][s].pc = "batched" /\ Owns(run[t][s], row[t])
    BY <1>2, <2>1, <2>2 DEF KeepsToken, Owns, Token
  <2>4. LeaseStays(t) /\ row[t].status = "RUNNING"
    BY <2>3 DEF LeasesStay, ReleaseInv, BatchedIsRunning
  <2>5. QED
    BY <2>2, <2>3, <2>4 DEF LeaseStays
<1>6. QED
  BY <1>3, <1>4, <1>5 DEF ReleaseInv

LEMMA HolderOwns ==
  ASSUME TokenInv, NEW t \in Tasks, NEW s \in Slots,
         run[t][s].pc # "idle", Owns(run[t][s], row[t])
  PROVE  current[t] = s
  BY DEF TokenInv, NewestClaims, Claims, Owns, Token

\* A claim under way that owns its row is the only one that may write to it.
LEMMA HolderIsAlone ==
  ASSUME TypeInv, TokenInv, ReleaseInv, NEW t \in Sync, NEW s \in Slots,
         run[t][s].pc \in Inflight, Owns(run[t][s], row[t])
  PROVE  LeaseStays(t)
<1>1. t \in Tasks
  BY TaskAssumption
<1>2. current[t] = s /\ run[t][s].pc \notin {"claimed", "batched", "idle"}
  BY <1>1, HolderOwns DEF Inflight
<1>3. ASSUME NEW s2 \in Slots, run[t][s2].pc = "claimed"
      PROVE  FALSE
  <2>1. Claims(run[t][s2], row[t])
    BY <1>3 DEF ReleaseInv, UnreadIsFresh, Claims
  <2>2. current[t] = s2
    BY <1>1, <2>1 DEF TokenInv, NewestClaims
  <2>3. QED
    BY <1>2, <1>3, <2>2
<1>4. \A s2 \in Slots : ~(run[t][s2].pc = "batched" /\ Owns(run[t][s2], row[t]))
  BY <1>1, <1>2, HolderOwns
<1>5. QED
  BY <1>3, <1>4 DEF LeaseStays

LEMMA UnleasedRow ==
  ASSUME ReleaseInv, NEW t \in Sync, row[t].status # "RUNNING"
  PROVE  LeaseStays(t)
  BY DEF ReleaseInv, UnreadIsFresh, BatchedIsRunning, LeaseStays

\* Of a set of tasks only t changes.
LEMMA OneLease ==
  ASSUME TypeInv, NEW t \in Tasks, NEW x, row' = [row EXCEPT ![t] = x] \/ row' = row,
         t \in Sync => LeaseStays(t)
  PROVE  LeasesStay
<1>1. \A t2 \in Sync : t2 \in Tasks /\ (t2 # t => row'[t2] = row[t2])
  BY TaskAssumption DEF TypeInv, TypeOK
<1>2. QED
  BY <1>1 DEF LeasesStay, LeaseStays

LEMMA UnchangedLeases == UNCHANGED row => LeasesStay
  BY DEF LeasesStay, LeaseStays

LEMMA ProducersKeepLeases ==
  ASSUME TypeInv, TokenInv, ReleaseInv, ReadBackInTime, NEW t \in Tasks,
         \/ \E due \in BOOLEAN : Enqueue(t, due)
         \/ Cancel(t)
         \/ \E reset \in ResetChoices : Requeue(t, reset)
         \/ BecomeDue(t) \/ GoStale(t)
  PROVE  LeasesStay
<1>1. row[t] \in Rows
  BY DEF TypeInv, TypeOK
<1>2. PICK x : row' = [row EXCEPT ![t] = x]
  <2>1. ASSUME NEW due \in BOOLEAN, Enqueue(t, due)
        PROVE  row' = [row EXCEPT ![t] = [row[t] EXCEPT !.status = "READY", !.due = due]]
    BY <2>1 DEF Enqueue, TypeInv, TypeOK
  <2>2. ASSUME Cancel(t) \/ \E reset \in ResetChoices : Requeue(t, reset)
        PROVE  \E x : row' = [row EXCEPT ![t] = x]
    BY <2>2 DEF Cancel, Requeue
  <2>3. BecomeDue(t) => row' = [row EXCEPT ![t] = [row[t] EXCEPT !.due = TRUE]]
    BY DEF BecomeDue
  <2>4. GoStale(t) => row' = [row EXCEPT ![t] = [row[t] EXCEPT !.heartbeat = "stale"]]
    BY DEF GoStale
  <2>5. QED
    BY <2>1, <2>2, <2>3, <2>4
<1>3. CASE row[t].status # "RUNNING"
  BY <1>2, <1>3, UnleasedRow, OneLease
<1>4. CASE row[t].status = "RUNNING" /\ Cancel(t)
  <2>1. /\ row' = [row EXCEPT ![t] = CancelledRow(row[t])]
        /\ CancelledRow(row[t]).status = row[t].status
        /\ CancelledRow(row[t]).claimed_by = row[t].claimed_by
        /\ CancelledRow(row[t]).heartbeat = row[t].heartbeat
    BY <1>1, <1>4, RowFields DEF Cancel
  <2>2. LeaseStays(t)
    BY <2>1 DEF LeaseStays, TypeInv, TypeOK
  <2>3. QED
    BY <2>1, <2>2, OneLease
<1>5. CASE row[t].status = "RUNNING" /\ GoStale(t)
  <2>1. row'[t].status = "RUNNING"
    BY <1>1, <1>5 DEF GoStale, TypeInv, TypeOK, Rows
  <2>2. t \in Sync => LeaseStays(t)
    BY <1>5, <2>1 DEF ReadBackInTime, LeaseStays
  <2>3. QED
    BY <1>2, <2>2, OneLease
<1>6. QED
  BY <1>3, <1>4, <1>5 DEF Enqueue, Cancel, Requeue, BecomeDue, GoStale

LEMMA RunsKeepLeases ==
  ASSUME TypeInv, TokenInv, ReleaseInv, NEW t \in Tasks, NEW s \in Slots,
         RunStep(t, s) \/ Heartbeat(t, s) \/ Die(t, s) \/ Abandon(t, s),
         ~(Release(t, s) /\ Owns(run[t][s], row[t]))
  PROVE  LeasesStay
<1>1. row[t] \in Rows /\ run[t][s] \in Runs
  BY SetOne DEF TypeInv
<1>2. CASE Heartbeat(t, s)
  <2>1. /\ row' = [row EXCEPT ![t] = Beat(row[t])]
        /\ Beat(row[t]).status = row[t].status /\ Beat(row[t]).claimed_by = row[t].claimed_by
        /\ Beat(row[t]).heartbeat = "fresh"
    BY <1>1, <1>2, RowFields DEF Heartbeat
  <2>2. LeaseStays(t)
    BY <2>1 DEF LeaseStays, TypeInv, TypeOK
  <2>3. QED
    BY <2>1, <2>2, OneLease
<1>3. CASE /\ MarkSuccessful(t, s) \/ MarkFailed(t, s) \/ Nack(t, s) \/ Ack(t, s)
           /\ Owns(run[t][s], row[t])
  <2>1. run[t][s].pc \in Inflight
    BY <1>3 DEF MarkSuccessful, MarkFailed, Nack, Ack, Inflight
  <2>2. t \in Sync => LeaseStays(t)
    BY <1>3, <2>1, HolderIsAlone
  <2>3. \/ row' = row
        \/ row' = [row EXCEPT ![t] = [row[t] EXCEPT !.status = "SUCCESSFUL"]]
        \/ row' = [row EXCEPT ![t] = FailedRow(row[t], run[t][s])]
        \/ row' = [row EXCEPT ![t] = RetriedRow(row[t])]
        \/ row' = [row EXCEPT ![t] = Unclaimed(row[t])]
    BY <1>3 DEF MarkSuccessful, MarkFailed, Nack, Ack
  <2>4. QED
    BY <2>2, <2>3, OneLease
<1>4. CASE /\ MarkSuccessful(t, s) \/ MarkFailed(t, s) \/ Nack(t, s) \/ Ack(t, s)
           /\ ~Owns(run[t][s], row[t])
  BY <1>4, UnchangedLeases DEF MarkSuccessful, MarkFailed, Nack, Ack, Holds
<1>5. CASE Release(t, s) \/ ReleaseFails(t, s)
  BY <1>5, UnchangedLeases DEF Release, ReleaseFails
<1>6. ASSUME NEW e \in {"error", "unlisted"}, LoadFails(t, s, e) \/ Raise(t, s, e)
      PROVE  LeasesStay
  BY <1>6, UnchangedLeases DEF LoadFails, Raise
<1>7. CASE \/ Start(t, s) \/ MarkRunning(t, s) \/ LoseClaim(t, s) \/ Load(t, s) \/ Return(t, s)
           \/ TimeOut(t, s) \/ Interrupt(t, s) \/ Die(t, s) \/ Abandon(t, s)
  BY <1>7, UnchangedLeases DEF Start, MarkRunning, LoseClaim, Load, Return, TimeOut,
     Interrupt, Die, Abandon
<1>8. QED
  BY <1>2, <1>3, <1>4, <1>5, <1>6, <1>7 DEF RunStep

LEMMA WorkersKeepLeases ==
  ASSUME TypeInv, ReleaseInv, NEW w \in Workers,
         \/ \E S \in SUBSET Tasks : Reap(w, S)
         \/ ReadBack(w) \/ LoseBatch(w)
         \/ \E k \in Tasks \X Slots : ThreadReturns(w, k)
         \/ RequestShutdown(w) \/ Crash(w)
  PROVE  LeasesStay
<1>1. ASSUME NEW S \in SUBSET Tasks, Reap(w, S)
      PROVE  LeasesStay
  <2>1. ASSUME NEW t \in S \cap Sync
        PROVE  LeaseStays(t)
    <3>1. row[t] \in Rows /\ row[t].heartbeat = "stale" /\ t \in Tasks
      BY <1>1 DEF Reap, Stale, TypeInv, TypeOK
    <3>2. \A s \in Slots : run[t][s].pc # "claimed"
      BY <3>1 DEF ReleaseInv, UnreadIsFresh
    <3>3. /\ RetriedRow(row[t]).claimed_by = NoWorker
          /\ Unclaimed(row[t]) \in Rows /\ Unclaimed(row[t]).claimed_by = NoWorker
      BY <3>1, RowFields, RowOperators
    <3>4. ReclaimedRow(t).claimed_by = NoWorker
      BY <3>3 DEF ReclaimedRow, Rows
    <3>5. row'[t].claimed_by = NoWorker
      BY <1>1, <3>1, <3>4 DEF Reap
    <3>6. QED
      BY <3>2, <3>5 DEF LeaseStays
  <2>2. \A t \in Sync \ S : row'[t] = row[t]
    BY <1>1, TaskAssumption DEF Reap
  <2>3. QED
    BY <2>1, <2>2 DEF LeasesStay, LeaseStays
<1>2. CASE \/ ReadBack(w) \/ LoseBatch(w) \/ RequestShutdown(w) \/ Crash(w)
           \/ \E k \in Tasks \X Slots : ThreadReturns(w, k)
  BY <1>2, UnchangedLeases DEF ReadBack, LoseBatch, RequestShutdown, Crash, ThreadReturns
<1>3. QED
  BY <1>1, <1>2

LEMMA StepLeases ==
  ASSUME TypeInv, TokenInv, ReleaseInv, [Next]_vars, ReadBackInTime,
         \A w \in Workers, S \in SUBSET Tasks : ~Claim(w, S),
         \A t \in Tasks, s \in Slots : ~(Release(t, s) /\ Owns(run[t][s], row[t]))
  PROVE  LeasesStay
<1>1. CASE UNCHANGED vars
  BY <1>1, UnchangedLeases DEF vars
<1>2. QED
  BY <1>1, ProducersKeepLeases, RunsKeepLeases, WorkersKeepLeases DEF Next

-----------------------------------------------------------------------------
(* The steps that are not quiet.                                            *)

LEMMA ClaimKeepsReleaseInv ==
  ASSUME TypeInv, TokenInv, ReleaseInv, NEW w \in Workers, NEW S \in SUBSET Tasks, Claim(w, S)
  PROVE  ReleaseInv'
<1> DEFINE new == [NoRun EXCEPT !.pc = "claimed", !.worker = w]
<1>1. new.pc = "claimed" /\ new.worker = w
  BY DEF NoRun
<1>2. \A t \in Tasks : row[t] \in Rows /\ row[t].attempts \in Nat /\ run[t] \in [Slots -> Runs]
  BY DEF TypeInv, TypeOK, Rows
<1>3. \A t \in S : FreeSlot(t) \in Slots /\ row[t].status = "READY"
  BY DEF Claim, Due, FreeSlot, FreeSlots
<1>4. \A t \in S : /\ row'[t].claimed_by = w /\ row'[t].attempts = row[t].attempts + 1
                   /\ row'[t].status = "RUNNING" /\ row'[t].heartbeat = "fresh"
                   /\ current'[t] = FreeSlot(t)
                   /\ run'[t] = [run[t] EXCEPT ![FreeSlot(t)] = new]
  BY <1>2, RowFields DEF Claim
<1>5. \A t \in Tasks \ S : row'[t] = row[t] /\ current'[t] = current[t] /\ run'[t] = run[t]
  BY DEF Claim
<1> HIDE DEF new
<1>6. ASSUME NEW t \in S, t \in Sync, NEW s \in Slots
      PROVE  /\ current'[t] # s /\ run'[t][s].pc # "idle"
                  => run'[t][s].pc # "claimed" /\ run'[t][s].attempt < row'[t].attempts
             /\ run'[t][s].pc = "claimed" => run'[t][s].worker = w
  <2>1. CASE s = FreeSlot(t)
    BY <1>1, <1>2, <1>4, <2>1
  <2>2. CASE s # FreeSlot(t)
    <3>1. run'[t][s] = run[t][s] /\ run[t][s].attempt \in Nat /\ row[t].attempts \in Nat
      <4>1. run[t] \in [Slots -> Runs] /\ row[t].attempts \in Nat
        BY <1>2
      <4>2. run'[t] = [run[t] EXCEPT ![FreeSlot(t)] = new]
        BY <1>4
      <4>3. run'[t][s] = run[t][s]
        BY <2>2, <4>1, <4>2
      <4>4. run[t][s] \in Runs
        BY <4>1
      <4>5. QED
        BY <4>1, <4>3, <4>4 DEF Runs
    <3>2. run[t][s].pc # "claimed"
      BY <1>3, <1>6 DEF ReleaseInv, UnreadIsFresh
    <3>3. run[t][s].pc # "idle" => run[t][s].attempt <= row[t].attempts
      BY <3>2 DEF TokenInv, AttemptsNotAhead
    <3>4. row'[t].attempts = row[t].attempts + 1
      BY <1>4
    <3>5. QED
      BY <3>1, <3>2, <3>3, <3>4
  <2>3. QED
    BY <2>1, <2>2
<1>7. Sync \subseteq Tasks
  BY TaskAssumption
<1>8. OlderAreBehind'
  BY <1>5, <1>6, <1>7 DEF ReleaseInv, OlderAreBehind
<1>9. UnreadIsFresh'
  <2>1. SUFFICES ASSUME NEW t \in Sync, NEW s \in Slots, run'[t][s].pc = "claimed"
                 PROVE  /\ row'[t].status = "RUNNING" /\ row'[t].heartbeat = "fresh"
                        /\ row'[t].claimed_by = run'[t][s].worker
    BY DEF UnreadIsFresh
  <2>2. CASE t \in S
    BY <1>4, <1>6, <2>1, <2>2
  <2>3. CASE t \notin S
    BY <1>5, <1>7, <2>1, <2>3 DEF ReleaseInv, UnreadIsFresh
  <2>4. QED
    BY <2>2, <2>3
<1>10. BatchedIsRunning'
  BY <1>4, <1>5, <1>7 DEF ReleaseInv, BatchedIsRunning, Owns, Token
<1>11. QED
  BY <1>8, <1>9, <1>10 DEF ReleaseInv

LEMMA ReadBackKeepsReleaseInv ==
  ASSUME TypeInv, TokenInv, ReleaseInv, NEW w \in Workers, ReadBack(w)
  PROVE  ReleaseInv'
<1>1. row' = row /\ current' = current /\ Sync \subseteq Tasks
  BY TaskAssumption DEF ReadBack
<1>2. ASSUME NEW t \in Sync, NEW s \in Slots, <<t, s>> \in Batch(w)
      PROVE  current[t] = s /\ row[t].status = "RUNNING" /\ run'[t][s].pc = "batched"
  <2>1. run[t][s].pc = "claimed" /\ t \in Tasks
    BY <1>1, <1>2 DEF Batch, RunsOf
  <2>2. row[t].status = "RUNNING" /\ Claims(run[t][s], row[t])
    BY <2>1 DEF ReleaseInv, UnreadIsFresh, Claims
  <2>3. run[t][s] \in Runs
    BY <2>1 DEF TypeInv, TypeOK
  <2>4. QED
    BY <1>2, <2>1, <2>2, <2>3 DEF ReadBack, Runs, TokenInv, NewestClaims
<1>3. \A t \in Sync, s \in Slots : <<t, s>> \notin Batch(w) => run'[t][s] = run[t][s]
  BY <1>1 DEF ReadBack
<1>4. ASSUME NEW t \in Sync, NEW s \in Slots
      PROVE  run'[t][s] = run[t][s]
               \/ (current[t] = s /\ row[t].status = "RUNNING" /\ run'[t][s].pc = "batched")
  BY <1>2, <1>3
<1>5. OlderAreBehind'
  BY <1>1, <1>4 DEF ReleaseInv, OlderAreBehind
<1>6. UnreadIsFresh'
  BY <1>1, <1>4 DEF ReleaseInv, UnreadIsFresh
<1>7. BatchedIsRunning'
  BY <1>1, <1>4 DEF ReleaseInv, BatchedIsRunning
<1>8. QED
  BY <1>5, <1>6, <1>7 DEF ReleaseInv

LEMMA ReleaseKeepsTokens ==
  ASSUME TypeInv, TypeInv', TokenInv, ReleaseInv, NEW t \in Tasks, NEW s \in Slots,
         Release(t, s), Owns(run[t][s], row[t])
  PROVE  TokenInv' /\ ReleaseInv'
<1>1. /\ t \in Sync /\ run[t][s].pc = "batched"
      /\ row' = [row EXCEPT ![t] = ReleasedRow(row[t])]
      /\ SetRun(t, s, NoRun) /\ current' = current /\ Sync \subseteq Tasks
  BY TaskAssumption DEF Release, MustRelease
<1>2. /\ row'[t].attempts = row[t].attempts - 1 /\ row'[t].claimed_by = NoWorker
      /\ row[t].claimed_by # NoWorker
      /\ row[t].attempts \in Nat
  <2>1. row[t] \in Rows /\ run[t][s].worker \in Workers
    BY <1>1 DEF TypeInv, TypeOK, RunsHaveWorkers
  <2>2. ReleasedRow(row[t]).attempts = row[t].attempts - 1
        /\ ReleasedRow(row[t]).claimed_by = NoWorker
    BY <2>1, RowFields
  <2>3. row'[t] = ReleasedRow(row[t])
    BY <1>1 DEF TypeInv, TypeOK
  <2>4. QED
    BY <2>1, <2>2, <2>3, TaskAssumption DEF Owns, Token, Rows
<1>3. \A t2 \in Tasks \ {t} : row'[t2] = row[t2]
  BY <1>1 DEF TypeInv, TypeOK
<1>4. \A t2 \in Tasks, s2 \in Slots :
        run'[t2][s2] = IF t2 = t /\ s2 = s THEN NoRun ELSE run[t2][s2]
  BY <1>1, OneRunSet
<1>5. current[t] = s
  BY <1>1, HolderOwns
<1>6. ASSUME NEW s2 \in Slots, run'[t][s2].pc # "idle"
      PROVE  /\ run'[t][s2].pc # "claimed" /\ run'[t][s2].worker # NoWorker
             /\ run'[t][s2].attempt <= row'[t].attempts
  <2>1. s2 # s /\ run'[t][s2] = run[t][s2]
    BY <1>4, <1>6 DEF NoRun
  <2>2. run[t][s2].pc # "claimed" /\ run[t][s2].attempt < row[t].attempts
    BY <1>1, <1>2, <1>5, <1>6, <2>1 DEF ReleaseInv, OlderAreBehind
  <2>3. run[t][s2].attempt \in Nat /\ run[t][s2].worker # NoWorker
    BY <1>6, <2>1, TaskAssumption DEF TypeInv, TypeOK, Runs, RunsHaveWorkers
  <2>4. run[t][s2].attempt <= row[t].attempts - 1
    BY <1>2, <2>2, <2>3
  <2>5. QED
    BY <1>2, <2>1, <2>2, <2>3, <2>4
<1>7. NewestClaims'
  BY <1>1, <1>2, <1>3, <1>4, <1>6 DEF TokenInv, NewestClaims, Claims
<1>8. AttemptsNotAhead'
  BY <1>3, <1>4, <1>6 DEF TokenInv, AttemptsNotAhead
<1>9. OlderAreBehind'
  BY <1>1, <1>2, <1>3, <1>4 DEF ReleaseInv, OlderAreBehind
<1>10. UnreadIsFresh'
  BY <1>1, <1>3, <1>4, <1>6 DEF ReleaseInv, UnreadIsFresh
<1>11. BatchedIsRunning'
  BY <1>1, <1>2, <1>3, <1>4, <1>6 DEF ReleaseInv, BatchedIsRunning, Owns, Token
<1>12. QED
  BY <1>7, <1>8, <1>9, <1>10, <1>11 DEF TokenInv, ReleaseInv

LEMMA ResetKeepsTokens ==
  ASSUME TypeInv, TypeInv', TokenInv, ReleaseInv, LeasesStay, ResetsAlone,
         NEW t \in Tasks, Requeue(t, TRUE)
  PROVE  TokenInv' /\ ReleaseInv'
<1>1. row[t] \in Rows /\ row[t].attempts \in Nat /\ requeues[t] \in Nat
  BY BoundAssumption DEF TypeInv, TypeOK, Rows
<1>2. row' = [row EXCEPT ![t] = RequeuedRow(row[t], TRUE)] /\ run' = run /\ current' = current
  BY DEF Requeue
<1>3. row'[t].attempts = 0 /\ row'[t].claimed_by = NoWorker
  <2>1. row'[t] = RequeuedRow(row[t], TRUE)
    BY <1>2 DEF TypeInv, TypeOK
  <2>2. RequeuedRow(row[t], TRUE).attempts = 0 /\ RequeuedRow(row[t], TRUE).claimed_by = NoWorker
    BY <1>1, RowFields
  <2>3. QED
    BY <2>1, <2>2
<1>4. \A t2 \in Tasks \ {t} : row'[t2] = row[t2]
  BY <1>2 DEF TypeInv, TypeOK
<1>5. CASE row[t].attempts = 0
  <2>1. SameRowTokens
    BY <1>3, <1>4, <1>5 DEF SameRowTokens
  <2>2. Quiet
    BY <1>2, <2>1, UnchangedTokens DEF Quiet
  <2>3. QED
    BY <2>2, QuietStep, QuietLeases
<1>6. CASE row[t].attempts # 0
  <2>1. requeues'[t] = requeues[t] + 1
    BY DEF Requeue, TypeInv, TypeOK
  <2>2. \A s \in Slots : run[t][s].pc = "idle"
    BY <1>1, <1>3, <1>6, <2>1 DEF ResetsAlone
  <2>3. NewestClaims' /\ AttemptsNotAhead'
    BY <1>2, <1>4, <2>2 DEF TokenInv, NewestClaims, AttemptsNotAhead, Claims
  <2>4. Sync \subseteq Tasks
    BY TaskAssumption
  <2>5. OlderAreBehind' /\ UnreadIsFresh'
    BY <1>2, <1>4, <2>2, <2>4 DEF ReleaseInv, OlderAreBehind, UnreadIsFresh
  <2>6. BatchedIsRunning'
    BY <1>2, <1>4, <2>2, <2>4 DEF ReleaseInv, BatchedIsRunning, Owns, Token
  <2>7. QED
    BY <2>3, <2>5, <2>6 DEF TokenInv, ReleaseInv
<1>7. QED
  BY <1>5, <1>6

-----------------------------------------------------------------------------

LEMMA InitToken == Init => TokenInv /\ ReleaseInv
<1>1. Init => \A t \in Tasks, s \in Slots : run[t][s].pc = "idle"
  BY DEF Init, NoRun
<1>2. Sync \subseteq Tasks
  BY TaskAssumption
<1>3. QED
  BY <1>1, <1>2 DEF TokenInv, NewestClaims, AttemptsNotAhead, Claims, ReleaseInv,
     OlderAreBehind, UnreadIsFresh, BatchedIsRunning

LEMMA StepToken ==
  ASSUME TypeInv, TypeInv', TokenInv, ReleaseInv, [Next /\ Orderly]_vars
  PROVE  TokenInv' /\ ReleaseInv'
<1>1. CASE UNCHANGED vars
  BY <1>1, UnchangedTokens, UnchangedLeases, QuietStep, QuietLeases DEF vars, Quiet
<1>2. CASE Next /\ Orderly
  <2>1. [Next]_vars /\ ReadBackInTime /\ ResetsAlone
    BY <1>2 DEF Orderly
  <2>2. ASSUME NEW w \in Workers, NEW S \in SUBSET Tasks, Claim(w, S)
        PROVE  TokenInv' /\ ReleaseInv'
    BY <2>2, ClaimKeepsToken, ClaimKeepsReleaseInv
  <2>3. ASSUME NEW t \in Tasks, NEW s \in Slots, Release(t, s), Owns(run[t][s], row[t])
        PROVE  TokenInv' /\ ReleaseInv'
    BY <2>3, ReleaseKeepsTokens
  <2>4. ASSUME NEW w \in Workers, ReadBack(w)
        PROVE  TokenInv' /\ ReleaseInv'
    BY <2>4, ReadBackKeepsToken, ReadBackKeepsReleaseInv
  <2>5. ASSUME LeasesStay, Quiet \/ \E t \in Tasks : Requeue(t, TRUE)
        PROVE  TokenInv' /\ ReleaseInv'
    BY <2>1, <2>5, QuietStep, QuietLeases, ResetKeepsTokens
  <2>6. \/ \E w \in Workers, S \in SUBSET Tasks : Claim(w, S)
        \/ \E t \in Tasks, s \in Slots : Release(t, s) /\ Owns(run[t][s], row[t])
        \/ LeasesStay
    BY <2>1, StepLeases
  <2>7. QED
    BY <2>1, <2>2, <2>3, <2>4, <2>5, <2>6, StepKinds
<1>3. QED
  BY <1>1, <1>2

LEMMA TokensKept == OrderlySpec => [](TypeInv /\ TokenInv /\ ReleaseInv)
<1>1. Init => TypeInv /\ TokenInv /\ ReleaseInv
  BY InitTypeInv, InitToken
<1>2. TypeInv /\ TokenInv /\ ReleaseInv /\ [Next /\ Orderly]_vars
        => (TypeInv /\ TokenInv /\ ReleaseInv)'
  BY StepTypeInv, StepToken
<1>3. QED
  BY <1>1, <1>2, PTL DEF OrderlySpec

\* As long as no read-back comes too late for a sync task and no reset comes
\* too early, a claim's late mark_running, mark_successful, mark_failed, nack,
\* ack, release or heartbeat finds its (worker, attempt) in the row only if no
\* later claim of the task was made, whoever is slow or dead.
THEOREM NewestClaimOwns == OrderlySpec => []OnlyNewestClaimOwns
<1>1. TypeInv /\ TokenInv /\ ReleaseInv => OnlyNewestClaimOwns
  BY DEF TokenInv, NewestClaims, Claims, OnlyNewestClaimOwns, Owns, Token
<1>2. QED
  BY <1>1, TokensKept, PTL

(* Where no claim is released and no requeue resets the attempts, every     *)
(* step is orderly: attempts only grow.                                     *)
LEMMA AttemptsOnlyGrow ==
  ASSUME Sync = {}, ResetChoices \subseteq {FALSE}, TypeInv, [Next]_vars
  PROVE  [Next /\ Orderly]_vars
<1>1. ASSUME NEW t \in Tasks
      PROVE  ~(row'[t].attempts < row[t].attempts)
  <2>1. row[t] \in Rows /\ row[t].attempts \in Nat
    BY DEF TypeInv, TypeOK, Rows
  <2>2. SUFFICES row'[t].attempts \in {row[t].attempts, row[t].attempts + 1}
    BY <2>1
  <2>3. Quiet => row'[t].attempts = row[t].attempts
    BY DEF Quiet, SameRowTokens
  <2>4. ASSUME NEW w \in Workers, NEW S \in SUBSET Tasks, Claim(w, S)
        PROVE  row'[t].attempts \in {row[t].attempts, row[t].attempts + 1}
    BY <2>1, <2>4, RowFields DEF Claim
  <2>5. \A w \in Workers : ReadBack(w) => row' = row
    BY DEF ReadBack
  <2>6. \A t2 \in Tasks, s \in Slots : ~Release(t2, s)
    BY DEF Release, MustRelease
  <2>7. TRUE \notin ResetChoices
    OBVIOUS
  <2>8. QED
    BY <2>3, <2>4, <2>5, <2>6, <2>7, StepKinds
<1>2. Orderly
  BY <1>1 DEF Orderly, ReadBackInTime, ResetsAlone
<1>3. QED
  BY <1>2

LEMMA OrderlyByConstants ==
  ASSUME Sync = {}, ResetChoices \subseteq {FALSE}
  PROVE  Spec => OrderlySpec
<1>1. TypeInv /\ [Next]_vars => [Next /\ Orderly]_vars
  BY AttemptsOnlyGrow
<1>2. QED
  BY <1>1, InitTypeInv, StepTypeInv, PTL DEF Spec, OrderlySpec

\* Without sync tasks and resets this takes nothing for granted.
THEOREM NewestAsyncClaimOwns ==
  ASSUME Sync = {}, ResetChoices \subseteq {FALSE}
  PROVE  Spec => []OnlyNewestClaimOwns
  BY NewestClaimOwns, OrderlyByConstants, PTL

-----------------------------------------------------------------------------
(* Status and claim of a row.  The writes without a status filter are ack   *)
(* and release.  Release sets the status too; what keeps a RUNNING row from *)
(* losing its owner to an ack is that a run that is to ack and still owns   *)
(* the row has finished it (AcksFinished).                                  *)

Finished(x) == x.status \in {"SUCCESSFUL", "FAILED"}

Matches(x) ==
  /\ x.status = "RUNNING" => x.claimed_by # NoWorker /\ x.heartbeat # "none"
  /\ x.status \in {"absent", "READY"} => x.claimed_by = NoWorker /\ x.heartbeat = "none"

AcksFinished ==
  \A t \in Tasks, s \in Slots :
    run[t][s].pc = "acking" /\ Owns(run[t][s], row[t]) => Finished(row[t])

MatchInv == ClaimMatchesStatus /\ AcksFinished

\* What a step may do to a row, and to the runs that are to ack.
RowFollows(x, y) ==
  /\ Matches(y)
  /\ \/ y.claimed_by = NoWorker
     \/ /\ y.claimed_by = x.claimed_by /\ y.attempts = x.attempts
        /\ Finished(x) => Finished(y)
     \/ y.attempts = x.attempts + 1

AcksFollow ==
  \A t \in Tasks, s \in Slots :
    run'[t][s].pc = "acking" =>
      \/ run[t][s].pc = "acking" /\ Token(run'[t][s]) = Token(run[t][s])
      \/ Finished(row'[t])

LEMMA MatchOfSteps ==
  ASSUME TypeInv, TypeInv', TokenInv, MatchInv, AcksFollow,
         \A t \in Tasks : RowFollows(row[t], row'[t])
  PROVE  MatchInv'
<1>1. ASSUME NEW t \in Tasks, NEW s \in Slots,
             run'[t][s].pc = "acking", Owns(run'[t][s], row'[t]), ~Finished(row'[t])
      PROVE  FALSE
  <2>1. run[t][s].pc = "acking" /\ Token(run'[t][s]) = Token(run[t][s])
    BY <1>1 DEF AcksFollow
  <2>2. /\ run[t][s].attempt <= row[t].attempts
        /\ run[t][s].attempt \in Nat /\ row[t].attempts \in Nat
    <3>1. run[t][s] \in Runs /\ row[t] \in Rows
      BY SetOne DEF TypeInv
    <3>2. run[t][s].attempt <= row[t].attempts
      BY <2>1 DEF TokenInv, AttemptsNotAhead
    <3> QED
      BY <3>1, <3>2 DEF Runs, Rows
  <2>3. row'[t].claimed_by # NoWorker /\ row'[t].attempts = run[t][s].attempt
    BY <1>1, <2>1, TaskAssumption DEF Owns, Token, TypeInv, RunsHaveWorkers
  <2>4. /\ row'[t].claimed_by = row[t].claimed_by /\ row'[t].attempts = row[t].attempts
        /\ Finished(row[t]) => Finished(row'[t])
    BY <2>2, <2>3 DEF RowFollows
  <2>5. Owns(run[t][s], row[t])
    BY <1>1, <2>1, <2>4 DEF Owns
  <2> QED
    BY <1>1, <2>1, <2>4, <2>5 DEF MatchInv, AcksFinished
<1>2. AcksFinished'
  BY <1>1 DEF AcksFinished
<1>3. ClaimMatchesStatus'
  BY DEF ClaimMatchesStatus, RowFollows, Matches
<1> QED
  BY <1>2, <1>3 DEF MatchInv

LEMMA SameRowFollows == MatchInv => \A t \in Tasks : Matches(row[t]) /\ RowFollows(row[t], row[t])
  BY DEF MatchInv, ClaimMatchesStatus, Matches, RowFollows

\* Setting one row, and nothing new to ack.
LEMMA OneRowFollows ==
  ASSUME TypeInv, MatchInv, NEW t \in Tasks, NEW x, RowFollows(row[t], x),
         row' = [row EXCEPT ![t] = x]
  PROVE  \A t2 \in Tasks : RowFollows(row[t2], row'[t2])
  BY SameRowFollows DEF TypeInv, TypeOK

LEMMA SameAcks == UNCHANGED run => AcksFollow
  BY DEF AcksFollow

\* The updates that keep a row as RowFollows says.
LEMMA UpdatesFollow ==
  ASSUME NEW x \in Rows, Matches(x)
  PROVE  /\ x.status = "RUNNING" => RowFollows(x, Beat(x))
         /\ RowFollows(x, RetriedRow(x)) /\ RowFollows(x, ReleasedRow(x))
         /\ \A reset \in BOOLEAN : RowFollows(x, RequeuedRow(x, reset))
         /\ \A w \in Workers : RowFollows(x, ClaimedRow(x, w))
         /\ x.status \in {"READY", "RUNNING"} => RowFollows(x, CancelledRow(x))
         /\ Finished(x) => RowFollows(x, Unclaimed(x))
         /\ \A r \in Runs : x.status = "RUNNING" => RowFollows(x, FailedRow(x, r))
<1>1. x.status = "RUNNING" => RowFollows(x, Beat(x))
  BY RowFields DEF RowFollows, Matches, Finished
<1>2. RowFollows(x, RetriedRow(x)) /\ RowFollows(x, ReleasedRow(x))
  BY RowFields DEF RowFollows, Matches
<1>3. \A reset \in BOOLEAN : RowFollows(x, RequeuedRow(x, reset))
  BY RowFields DEF RowFollows, Matches
<1>4. \A w \in Workers : RowFollows(x, ClaimedRow(x, w))
  BY RowFields, TaskAssumption DEF RowFollows, Matches
<1>5. x.status \in {"READY", "RUNNING"} => RowFollows(x, CancelledRow(x))
  BY RowFields DEF RowFollows, Matches, Finished
<1>6. Finished(x) => RowFollows(x, Unclaimed(x))
  BY RowFields DEF RowFollows, Matches, Finished
<1>7. \A r \in Runs : x.status = "RUNNING" => RowFollows(x, FailedRow(x, r))
  BY RowFields DEF RowFollows, Matches, Finished, Runs
<1> QED
  BY <1>1, <1>2, <1>3, <1>4, <1>5, <1>6, <1>7

LEMMA ProducersFollow ==
  ASSUME TypeInv, MatchInv, NEW t \in Tasks,
         \/ \E due \in BOOLEAN : Enqueue(t, due)
         \/ Cancel(t)
         \/ \E reset \in ResetChoices : Requeue(t, reset)
         \/ BecomeDue(t) \/ GoStale(t)
  PROVE  (\A t2 \in Tasks : RowFollows(row[t2], row'[t2])) /\ AcksFollow
<1>1. row[t] \in Rows /\ Matches(row[t])
  BY SameRowFollows DEF TypeInv, TypeOK
<1>2. AcksFollow
  BY SameAcks DEF Enqueue, Cancel, Requeue, BecomeDue, GoStale
<1>3. ASSUME NEW due \in BOOLEAN, Enqueue(t, due)
      PROVE  \A t2 \in Tasks : RowFollows(row[t2], row'[t2])
  <2> DEFINE x == [row[t] EXCEPT !.status = "READY", !.due = due]
  <2>1. RowFollows(row[t], x)
    BY <1>1, <1>3 DEF Enqueue, RowFollows, Matches, Rows
  <2>2. row' = [row EXCEPT ![t] = x]
    BY <1>3 DEF Enqueue, TypeInv, TypeOK
  <2> QED
    BY <2>1, <2>2, OneRowFollows
<1>4. ASSUME Cancel(t)
      PROVE  \A t2 \in Tasks : RowFollows(row[t2], row'[t2])
  BY <1>1, <1>4, UpdatesFollow, OneRowFollows DEF Cancel
<1>5. ASSUME NEW reset \in ResetChoices, Requeue(t, reset)
      PROVE  \A t2 \in Tasks : RowFollows(row[t2], row'[t2])
  BY <1>1, <1>5, UpdatesFollow, OneRowFollows, TaskAssumption DEF Requeue
<1>6. ASSUME BecomeDue(t)
      PROVE  \A t2 \in Tasks : RowFollows(row[t2], row'[t2])
  <2> DEFINE x == [row[t] EXCEPT !.due = TRUE]
  <2>1. RowFollows(row[t], x)
    BY <1>1, <1>6 DEF BecomeDue, RowFollows, Matches, Rows, Finished
  <2>2. row' = [row EXCEPT ![t] = x]
    BY <1>6 DEF BecomeDue, TypeInv, TypeOK
  <2> QED
    BY <2>1, <2>2, OneRowFollows
<1>7. ASSUME GoStale(t)
      PROVE  \A t2 \in Tasks : RowFollows(row[t2], row'[t2])
  <2> DEFINE x == [row[t] EXCEPT !.heartbeat = "stale"]
  <2>1. RowFollows(row[t], x)
    BY <1>1, <1>7 DEF GoStale, RowFollows, Matches, Rows, Finished
  <2>2. row' = [row EXCEPT ![t] = x]
    BY <1>7 DEF GoStale, TypeInv, TypeOK
  <2> QED
    BY <2>1, <2>2, OneRowFollows
<1> QED
  BY <1>2, <1>3, <1>4, <1>5, <1>6, <1>7

\* A run of t that is not one to ack, unless it finished the row.
LEMMA OneRunAcks ==
  ASSUME TypeInv, NEW t \in Tasks, NEW s \in Slots, NEW r, SetRun(t, s, r),
         r.pc = "acking" => Finished(row'[t])
  PROVE  AcksFollow
<1>1. \A t2 \in Tasks, s2 \in Slots :
        run'[t2][s2] = IF t2 = t /\ s2 = s THEN r ELSE run[t2][s2]
  BY DEF SetRun, TypeInv, TypeOK
<1> QED
  BY <1>1 DEF AcksFollow

LEMMA RunStepsFollow ==
  ASSUME TypeInv, MatchInv, NEW t \in Tasks, NEW s \in Slots,
         RunStep(t, s) \/ Heartbeat(t, s) \/ Die(t, s) \/ Abandon(t, s)
  PROVE  (\A t2 \in Tasks : RowFollows(row[t2], row'[t2])) /\ AcksFollow
<1> DEFINE Rest == \A t2 \in Tasks : RowFollows(row[t2], row'[t2])
<1>1. row[t] \in Rows /\ Matches(row[t]) /\ run[t][s] \in Runs /\ NoRun.pc = "idle"
  BY SetOne, SameRowFollows DEF TypeInv, NoRun
<1>2. UNCHANGED row => Rest
  BY SameRowFollows
<1>3. SetRun(t, s, NoRun) => AcksFollow
  BY <1>1, OneRunAcks
<1>4. ASSUME NEW pc, Goto(t, s, pc), pc # "acking"
      PROVE  AcksFollow
  <2>1. [run[t][s] EXCEPT !.pc = pc].pc = pc
    BY <1>1 DEF Runs
  <2> QED
    BY <1>4, <2>1, OneRunAcks DEF Goto
<1>5. ASSUME NEW e, Failing(t, s, e)
      PROVE  AcksFollow
  <2> DEFINE r == FailingRun(run[t][s], WillRetry(t, run[t][s], e), e)
  <2>1. r.pc = "failing" /\ SetRun(t, s, r)
    BY <1>1, <1>5 DEF Runs, FailingRun, Failing
  <2> HIDE DEF r
  <2> QED
    BY <2>1, OneRunAcks
<1>6. CASE Release(t, s) \/ ReleaseFails(t, s)
  <2>1. row' = row \/ row' = [row EXCEPT ![t] = ReleasedRow(row[t])]
    BY <1>6 DEF Release, ReleaseFails
  <2>2. Rest
    BY <1>1, <1>2, <2>1, UpdatesFollow, OneRowFollows
  <2> QED
    BY <1>3, <1>6, <2>2 DEF Release, ReleaseFails
<1>7. CASE Start(t, s) \/ MarkRunning(t, s) \/ Return(t, s)
  BY <1>2, <1>4, <1>7 DEF Start, MarkRunning, Return
<1>8. CASE LoseClaim(t, s) \/ Die(t, s) \/ Abandon(t, s)
  BY <1>2, <1>3, <1>8 DEF LoseClaim, Die, Abandon, End
<1>9. CASE Load(t, s)
  <2>1. [run[t][s] EXCEPT !.pc = "executing", !.beating = TRUE].pc = "executing"
    BY <1>1 DEF Runs
  <2> QED
    BY <1>2, <1>9, <2>1, OneRunAcks DEF Load
<1>10. CASE \/ TimeOut(t, s) \/ Interrupt(t, s)
            \/ (\E e \in {"error", "unlisted"} : LoadFails(t, s, e) \/ Raise(t, s, e))
  BY <1>2, <1>5, <1>10 DEF TimeOut, Interrupt, LoadFails, Raise
<1>11. CASE MarkSuccessful(t, s)
  <2> DEFINE x == [row[t] EXCEPT !.status = "SUCCESSFUL"]
  <2>1. RowFollows(row[t], x) /\ Finished(x)
    BY <1>1, <1>11 DEF RowFollows, Matches, Rows, Finished
  <2>2. row' = [row EXCEPT ![t] = x]
    BY <1>11 DEF MarkSuccessful, TypeInv, TypeOK
  <2>3. row'[t] = x
    BY <2>2 DEF TypeInv, TypeOK
  <2> HIDE DEF x
  <2>4. Rest
    BY <2>1, <2>2, OneRowFollows
  <2> QED
    BY <1>11, <2>1, <2>3, <2>4, OneRunAcks DEF MarkSuccessful, Goto
<1>12. CASE MarkFailed(t, s)
  <2> DEFINE r == [run[t][s] EXCEPT !.pc = IF run[t][s].retry THEN "nacking" ELSE "acking",
                                    !.error = "none", !.retry = FALSE]
  <2>1. Rest
    BY <1>1, <1>12, UpdatesFollow, OneRowFollows DEF MarkFailed, Holds
  <2>2. r.pc = (IF run[t][s].retry THEN "nacking" ELSE "acking") /\ SetRun(t, s, r)
    BY <1>1, <1>12 DEF Runs, MarkFailed
  <2> HIDE DEF r
  <2>3. row'[t] = FailedRow(row[t], run[t][s])
    BY <1>12 DEF MarkFailed, TypeInv, TypeOK
  <2>4. ~run[t][s].retry => Finished(row'[t])
    BY <1>1, <2>3, RowFields DEF Finished
  <2>5. r.pc = "acking" => Finished(row'[t])
    BY <2>2, <2>4
  <2> QED
    BY <2>1, <2>2, <2>5, OneRunAcks
<1>13. CASE Nack(t, s)
  <2>1. Rest
    BY <1>1, <1>2, <1>13, UpdatesFollow, OneRowFollows DEF Nack
  <2> QED
    BY <1>3, <1>13, <2>1 DEF Nack, End
<1>14. CASE Ack(t, s)
  <2>1. Owns(run[t][s], row[t]) => Finished(row[t])
    BY <1>14 DEF Ack, MatchInv, AcksFinished
  <2>2. Rest
    BY <1>1, <1>2, <1>14, <2>1, UpdatesFollow, OneRowFollows DEF Ack
  <2> QED
    BY <1>3, <1>14, <2>2 DEF Ack, End
<1>15. CASE Heartbeat(t, s)
  BY <1>1, <1>15, UpdatesFollow, OneRowFollows, SameAcks DEF Heartbeat, Holds
<1> QED
  BY <1>6, <1>7, <1>8, <1>9, <1>10, <1>11, <1>12, <1>13, <1>14, <1>15 DEF RunStep

LEMMA WorkersFollow ==
  ASSUME TypeInv, MatchInv, NEW w \in Workers,
         \/ \E S \in SUBSET Tasks : Claim(w, S) \/ Reap(w, S)
         \/ ReadBack(w) \/ LoseBatch(w)
         \/ \E k \in Tasks \X Slots : ThreadReturns(w, k)
         \/ RequestShutdown(w) \/ Crash(w)
  PROVE  (\A t2 \in Tasks : RowFollows(row[t2], row'[t2])) /\ AcksFollow
<1> DEFINE Rest == \A t2 \in Tasks : RowFollows(row[t2], row'[t2])
<1>1. \A t \in Tasks : row[t] \in Rows /\ Matches(row[t]) /\ RowFollows(row[t], row[t])
  BY SameRowFollows DEF TypeInv, TypeOK
<1>2. UNCHANGED row => Rest
  BY <1>1
<1>3. ASSUME \A t \in Tasks, s \in Slots : run'[t][s] = run[t][s] \/ run'[t][s].pc # "acking"
      PROVE  AcksFollow
  BY <1>3 DEF AcksFollow
<1>4. ASSUME NEW S \in SUBSET Tasks, Claim(w, S)
      PROVE  Rest /\ AcksFollow
  <2>1. Rest
    BY <1>1, <1>4, UpdatesFollow DEF Claim
  <2>2. [NoRun EXCEPT !.pc = "claimed", !.worker = w].pc = "claimed"
    BY DEF NoRun
  <2>3. \A t \in Tasks, s \in Slots : run'[t][s] = run[t][s] \/ run'[t][s].pc # "acking"
    BY <1>4, <2>2 DEF Claim, TypeInv, TypeOK
  <2> QED
    BY <1>3, <2>1, <2>3
<1>5. ASSUME NEW S \in SUBSET Tasks, Reap(w, S)
      PROVE  Rest /\ AcksFollow
  <2>1. ASSUME NEW t \in Tasks
        PROVE  RowFollows(row[t], ReclaimedRow(t))
    <3> DEFINE y == [Unclaimed(row[t]) EXCEPT !.status = "FAILED", !.error = "stale"]
    <3>1. Unclaimed(row[t]) \in Rows /\ Unclaimed(row[t]).claimed_by = NoWorker
      BY <1>1, <2>1, RowOperators, RowFields
    <3>2. y.status = "FAILED" /\ y.claimed_by = NoWorker
      BY <3>1 DEF Rows
    <3>3. RowFollows(row[t], y)
      BY <3>2 DEF RowFollows, Matches
    <3> HIDE DEF y
    <3> QED
      BY <1>1, <2>1, <3>3, UpdatesFollow DEF ReclaimedRow, y
  <2> QED
    BY <1>1, <1>5, <2>1, SameAcks DEF Reap
<1>6. CASE ReadBack(w)
  <2>1. \A t \in Tasks, s \in Slots : run'[t][s] = run[t][s] \/ run'[t][s].pc # "acking"
    <3>1. TAKE t \in Tasks, s \in Slots
    <3>2. run[t][s] \in Runs
      BY DEF TypeInv, TypeOK
    <3>3. [run[t][s] EXCEPT !.pc = "batched", !.attempt = row[t].attempts].pc # "acking"
      BY <3>2 DEF Runs
    <3> QED
      BY <1>6, <3>3 DEF ReadBack
  <2> QED
    BY <1>2, <1>3, <1>6, <2>1 DEF ReadBack
<1>7. NoRun.pc # "acking"
  BY DEF NoRun
<1>8. CASE LoseBatch(w)
  BY <1>2, <1>3, <1>7, <1>8 DEF LoseBatch
<1>9. CASE Crash(w)
  BY <1>2, <1>3, <1>7, <1>9 DEF Crash
<1>10. CASE RequestShutdown(w) \/ \E k \in Tasks \X Slots : ThreadReturns(w, k)
  BY <1>2, <1>10, SameAcks DEF RequestShutdown, ThreadReturns
<1> QED
  BY <1>4, <1>5, <1>6, <1>8, <1>9, <1>10

LEMMA StepMatch == TypeInv /\ TypeInv' /\ TokenInv /\ MatchInv /\ [Next]_vars => MatchInv'
<1> SUFFICES ASSUME TypeInv, TypeInv', TokenInv, MatchInv, [Next]_vars
             PROVE  (\A t \in Tasks : RowFollows(row[t], row'[t])) /\ AcksFollow
  BY MatchOfSteps
<1>1. CASE UNCHANGED vars
  BY <1>1, SameRowFollows, SameAcks DEF vars
<1> QED
  BY <1>1, ProducersFollow, RunStepsFollow, WorkersFollow DEF Next

\* In orderly behaviours no row is stranded: a RUNNING row has an owner and a
\* heartbeat for the reaper to find, a READY row belongs to nobody.
THEOREM NoRowIsStranded == OrderlySpec => []ClaimMatchesStatus
<1>1. Init => MatchInv
  BY DEF Init, MatchInv, ClaimMatchesStatus, AcksFinished, NoRow, NoRun
<1>2. MatchInv => ClaimMatchesStatus
  BY DEF MatchInv
<1>3. TypeInv /\ TypeInv' /\ TokenInv /\ MatchInv /\ [Next /\ Orderly]_vars => MatchInv'
  BY StepMatch
<1> QED
  BY <1>1, <1>2, <1>3, TokensKept, PTL DEF OrderlySpec

\* The same for tasks whose attempts only grow, with nothing taken for granted.
THEOREM NoAsyncRowIsStranded ==
  ASSUME Sync = {}, ResetChoices \subseteq {FALSE}
  PROVE  Spec => []ClaimMatchesStatus
  BY NoRowIsStranded, OrderlyByConstants, PTL

-----------------------------------------------------------------------------
(* Finished rows.                                                           *)

StaysFinished(t) ==
  /\ row[t].status = "SUCCESSFUL" => row'[t].status = "SUCCESSFUL"
  /\ row[t].status = "FAILED" => row'[t].status = "FAILED" \/ requeues'[t] > requeues[t]

\* Setting a row that is not finished, or not setting its status.
LEMMA OneRowFinal ==
  ASSUME TypeInv, NEW t \in Tasks, NEW y, row' = row \/ row' = [row EXCEPT ![t] = y],
         row[t].status \notin {"SUCCESSFUL", "FAILED"} \/ y.status = row[t].status
  PROVE  \A t2 \in Tasks : StaysFinished(t2)
  BY DEF StaysFinished, TypeInv, TypeOK

LEMMA StepFinal ==
  ASSUME TypeInv, Next,
         \A t \in Tasks, s \in Slots :
           Release(t, s) /\ Owns(run[t][s], row[t]) => row[t].status = "RUNNING"
  PROVE  \A t \in Tasks : StaysFinished(t)
<1>1. \A t \in Tasks : row[t] \in Rows /\ requeues[t] \in Nat
  BY BoundAssumption DEF TypeInv, TypeOK
<1>2. UNCHANGED row => \A t \in Tasks : StaysFinished(t)
  BY DEF StaysFinished
<1>3. ASSUME NEW t \in Tasks,
             \/ \E due \in BOOLEAN : Enqueue(t, due)
             \/ Cancel(t) \/ BecomeDue(t) \/ GoStale(t)
      PROVE  \A t2 \in Tasks : StaysFinished(t2)
  <2>1. \A t2 \in Tasks \ {t} : row'[t2] = row[t2]
    BY <1>3 DEF Enqueue, Cancel, BecomeDue, GoStale, TypeInv, TypeOK
  <2>2. row[t].status \notin {"SUCCESSFUL", "FAILED"}
    BY <1>3 DEF Enqueue, Cancel, BecomeDue, GoStale
  <2> QED
    BY <2>1, <2>2 DEF StaysFinished
<1>4. ASSUME NEW t \in Tasks, NEW reset \in ResetChoices, Requeue(t, reset)
      PROVE  \A t2 \in Tasks : StaysFinished(t2)
  <2>1. \A t2 \in Tasks \ {t} : row'[t2] = row[t2]
    BY <1>4 DEF Requeue, TypeInv, TypeOK
  <2>2. requeues'[t] = requeues[t] + 1 /\ row[t].status = "FAILED"
    BY <1>4 DEF Requeue, TypeInv, TypeOK
  <2>3. requeues'[t] > requeues[t]
    BY <1>1, <2>2
  <2> QED
    BY <2>1, <2>2, <2>3 DEF StaysFinished
<1>5. ASSUME NEW t \in Tasks, NEW s \in Slots,
             MarkSuccessful(t, s) \/ MarkFailed(t, s) \/ Nack(t, s)
      PROVE  \A t2 \in Tasks : StaysFinished(t2)
  <2>1. \A t2 \in Tasks \ {t} : row'[t2] = row[t2]
    BY <1>5 DEF MarkSuccessful, MarkFailed, Nack, TypeInv, TypeOK
  <2>2. row[t].status = "RUNNING" \/ UNCHANGED row
    BY <1>5 DEF MarkSuccessful, MarkFailed, Nack, Holds
  <2> QED
    BY <1>2, <2>1, <2>2 DEF StaysFinished
<1>6. ASSUME NEW t \in Tasks, NEW s \in Slots, Ack(t, s) \/ Heartbeat(t, s)
      PROVE  \A t2 \in Tasks : StaysFinished(t2)
  <2>1. Unclaimed(row[t]).status = row[t].status /\ Beat(row[t]).status = row[t].status
    BY <1>1, RowFields
  <2>2. CASE Ack(t, s)
    BY <2>1, <2>2, OneRowFinal DEF Ack
  <2>3. CASE Heartbeat(t, s)
    BY <2>1, <2>3, OneRowFinal DEF Heartbeat
  <2> QED
    BY <1>6, <2>2, <2>3
<1>7. ASSUME NEW t \in Tasks, NEW s \in Slots, Release(t, s)
      PROVE  \A t2 \in Tasks : StaysFinished(t2)
  <2>1. CASE Owns(run[t][s], row[t])
    BY <1>7, <2>1, OneRowFinal DEF Release
  <2>2. CASE ~Owns(run[t][s], row[t])
    BY <1>2, <1>7, <2>2 DEF Release
  <2> QED
    BY <2>1, <2>2
<1>8. ASSUME NEW t \in Tasks, NEW s \in Slots, RunStep(t, s),
             ~(MarkSuccessful(t, s) \/ MarkFailed(t, s) \/ Nack(t, s) \/ Ack(t, s)),
             ~Release(t, s)
      PROVE  UNCHANGED row
  BY <1>8 DEF RunStep, Start, ReleaseFails, MarkRunning, LoseClaim, Load, LoadFails,
     Return, Raise, TimeOut, Interrupt
<1>9. ASSUME NEW w \in Workers, NEW S \in SUBSET Tasks, Claim(w, S) \/ Reap(w, S)
      PROVE  \A t \in Tasks : StaysFinished(t)
  <2>1. \A t \in S : row[t].status \in {"READY", "RUNNING"}
    BY <1>9 DEF Claim, Due, Reap, Stale
  <2>2. \A t \in Tasks \ S : row'[t] = row[t]
    BY <1>9 DEF Claim, Reap
  <2> QED
    BY <2>1, <2>2 DEF StaysFinished
<1>10. CASE \/ \E t \in Tasks, s \in Slots : Die(t, s) \/ Abandon(t, s)
           \/ \E w \in Workers :
                \/ ReadBack(w) \/ LoseBatch(w) \/ RequestShutdown(w) \/ Crash(w)
                \/ \E k \in Tasks \X Slots : ThreadReturns(w, k)
  BY <1>2, <1>10 DEF Die, Abandon, ReadBack, LoseBatch, RequestShutdown, Crash, ThreadReturns
<1> QED
  BY <1>2, <1>3, <1>4, <1>5, <1>6, <1>7, <1>8, <1>9, <1>10 DEF Next

\* In orderly behaviours nothing changes a SUCCESSFUL row's status, and only a
\* requeue a FAILED one's: what is released is RUNNING.
THEOREM FinishedStaysFinished == OrderlySpec => TerminalIsFinal
<1>1. TypeInv /\ ReleaseInv /\ [Next /\ Orderly]_vars => [\A t \in Tasks : StaysFinished(t)]_vars
  <2>1. ReleaseInv => \A t \in Tasks, s \in Slots :
          Release(t, s) /\ Owns(run[t][s], row[t]) => row[t].status = "RUNNING"
    BY DEF ReleaseInv, BatchedIsRunning, Release, MustRelease
  <2> QED
    BY <2>1, StepFinal
<1> QED
  BY <1>1, TokensKept, PTL DEF OrderlySpec, TerminalIsFinal, StaysFinished

\* Without sync tasks, whose claims may be released, that holds of every
\* behaviour, resets and all.
THEOREM FinishedAsyncStaysFinished ==
  ASSUME Sync = {}
  PROVE  Spec => TerminalIsFinal
<1>1. TypeInv /\ [Next]_vars => [\A t \in Tasks : StaysFinished(t)]_vars
  <2>1. \A t \in Tasks, s \in Slots : ~Release(t, s)
    BY DEF Release, MustRelease
  <2> QED
    BY <2>1, StepFinal
<1> QED
  BY <1>1, InitTypeInv, StepTypeInv, PTL DEF Spec, TerminalIsFinal, StaysFinished

=============================================================================
