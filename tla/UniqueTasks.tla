---------------------------- MODULE UniqueTasks ----------------------------
(***************************************************************************)
(* Which rows of the task table exist: the enqueue path with its two       *)
(* rounds for a @unique task, the partial unique constraint behind it,     *)
(* requeue, and the pruning of finished rows.  Claiming and running are    *)
(* reduced to their effect on the status; TaskQueue has the details.       *)
(*                                                                         *)
(* Every call of enqueue makes an id of its own (uuid4), so that a call    *)
(* and the row it would create have one name.                              *)
(***************************************************************************)
EXTENDS Naturals, FiniteSets

CONSTANTS
  Calls,        \* calls of enqueue, and the rows they create
  Key,          \* Key[c]: unique_key of the row
  NoKey,        \* unique_key = NULL
  NoResult,
  Pruners,      \* prune_task_results commands and the cleanup of a worker
  MaxRequeues   \* bound: requeues of one row

ASSUME UniqueAssumption ==
  /\ DOMAIN Key = Calls
  /\ NoResult \notin Calls
  /\ MaxRequeues \in Nat

VARIABLES
  status,    \* status[c] of the row
  old,       \* old[c]: finished_at is set and before the cutoff of a prune
  pc,        \* pc[c]: where the call is
  round,     \* round[c]: rounds it has begun
  result,    \* result[c]: the id it answers
  selected,  \* selected[p]: ids the pruner has read and not yet deleted
  requeues,  \* bound
  freed,     \* freed[c]: times the key became free during the call (history)
  seen       \* seen[c]: rows active at some time during the call (history)

vars == <<status, old, pc, round, result, selected, requeues, freed, seen>>

-----------------------------------------------------------------------------

Statuses == {"absent", "READY", "RUNNING", "SUCCESSFUL", "FAILED", "pruned"}

TypeOK ==
  /\ status \in [Calls -> Statuses]
  /\ old \in [Calls -> BOOLEAN]
  /\ pc \in [Calls -> {"idle", "inserting", "looking", "created", "existing", "raised", "broken"}]
  /\ round \in [Calls -> 0..2]
  /\ result \in [Calls -> Calls \cup {NoResult}]
  /\ selected \in [Pruners -> SUBSET Calls]
  /\ requeues \in [Calls -> 0..MaxRequeues]
  /\ freed \in [Calls -> 0..2]
  /\ seen \in [Calls -> SUBSET Calls]

Init ==
  /\ status = [c \in Calls |-> "absent"]
  /\ old = [c \in Calls |-> FALSE]
  /\ pc = [c \in Calls |-> "idle"]
  /\ round = [c \in Calls |-> 0]
  /\ result = [c \in Calls |-> NoResult]
  /\ selected = [p \in Pruners |-> {}]
  /\ requeues = [c \in Calls |-> 0]
  /\ freed = [c \in Calls |-> 0]
  /\ seen = [c \in Calls |-> {}]

-----------------------------------------------------------------------------

\* Faulty: the condition of the constraint forgets running rows.
ActiveIfReady(st) == st = "READY"

\* The condition of the constraint werker_unique_active.
Active(st) == st \in {"READY", "RUNNING"}

SameKey(c, d) == Key[c] # NoKey /\ Key[c] = Key[d]

\* The rows that keep c from becoming active.
Conflicts(c) == {d \in Calls \ {c} : SameKey(c, d) /\ Active(status[d])}

\* Faulty: the lookup finds finished rows too.
FoundByKey(c) == {d \in Calls : SameKey(c, d) /\ status[d] \notin {"absent", "pruned"}}

\* The lookup after a failed insert.
Found(c) == {d \in Calls : SameKey(c, d) /\ status[d] \in {"READY", "RUNNING"}}

Running(c) == pc[c] \in {"inserting", "looking"}

\* The history of the calls under way when the rows become st.
Observe(st) ==
  /\ seen' = [c \in Calls |->
                IF Running(c) THEN seen[c] \cup {d \in Calls : st[d] \in {"READY", "RUNNING"}}
                ELSE seen[c]]
  /\ freed' = [c \in Calls |->
                 IF /\ Running(c) /\ freed[c] < 2
                    /\ \E d \in Calls : /\ SameKey(c, d) /\ status[d] \in {"READY", "RUNNING"}
                                        /\ st[d] \notin {"READY", "RUNNING"}
                 THEN freed[c] + 1 ELSE freed[c]]

SetStatus(c, st) ==
  /\ status' = [status EXCEPT ![c] = st]
  /\ Observe(status')

-----------------------------------------------------------------------------
(* enqueue: _enqueue_plan, _write_enqueue                                   *)

Begin(c) ==
  /\ pc[c] = "idle"
  /\ pc' = [pc EXCEPT ![c] = "inserting"]
  /\ round' = [round EXCEPT ![c] = 1]
  /\ seen' = [seen EXCEPT ![c] = {d \in Calls : status[d] \in {"READY", "RUNNING"}}]
  /\ UNCHANGED <<status, old, result, selected, requeues, freed>>

\* create and enqueue commit together.
Insert(c) ==
  /\ pc[c] = "inserting" /\ Conflicts(c) = {}
  /\ SetStatus(c, "READY")
  /\ pc' = [pc EXCEPT ![c] = "created"]
  /\ result' = [result EXCEPT ![c] = c]
  /\ UNCHANGED <<old, round, selected, requeues>>

\* Another error of the transaction: no row is left behind.
InsertFails(c) ==
  /\ pc[c] = "inserting"
  /\ pc' = [pc EXCEPT ![c] = "broken"]
  /\ UNCHANGED <<status, old, round, result, selected, requeues, freed, seen>>

Conflict(c) ==
  /\ pc[c] = "inserting" /\ Conflicts(c) # {}
  /\ pc' = [pc EXCEPT ![c] = "looking"]
  /\ UNCHANGED <<status, old, round, result, selected, requeues, freed, seen>>

FindExisting(c, d) ==
  /\ pc[c] = "looking" /\ d \in Found(c)
  /\ pc' = [pc EXCEPT ![c] = "existing"]
  /\ result' = [result EXCEPT ![c] = d]
  /\ UNCHANGED <<status, old, round, selected, requeues, freed, seen>>

\* Faulty: no second round.
GiveUpAtOnce(c) ==
  /\ pc[c] = "looking" /\ Found(c) = {}
  /\ pc' = [pc EXCEPT ![c] = "raised"]
  /\ UNCHANGED <<status, old, round, result, selected, requeues, freed, seen>>

\* Faulty: rounds without end.
LookAgain(c) ==
  /\ pc[c] = "looking" /\ Found(c) = {}
  /\ round' = [round EXCEPT ![c] = @ + 1]
  /\ pc' = [pc EXCEPT ![c] = "inserting"]
  /\ UNCHANGED <<status, old, result, selected, requeues, freed, seen>>

\* The conflicting row is gone: once more, or the IntegrityError.
FindNone(c) ==
  /\ pc[c] = "looking" /\ Found(c) = {}
  /\ IF round[c] < 2
     THEN /\ round' = [round EXCEPT ![c] = @ + 1]
          /\ pc' = [pc EXCEPT ![c] = "inserting"]
     ELSE /\ pc' = [pc EXCEPT ![c] = "raised"]
          /\ UNCHANGED round
  /\ UNCHANGED <<status, old, result, selected, requeues, freed, seen>>

-----------------------------------------------------------------------------
(* The life of a row, by its status                                         *)

Claim(c) ==
  /\ status[c] = "READY" /\ SetStatus(c, "RUNNING")
  /\ UNCHANGED <<old, pc, round, result, selected, requeues>>

\* mark_successful, mark_failed, reclaim_stale, or cancel of a READY row.
Finish(c, st) ==
  /\ status[c] = "RUNNING" \/ (status[c] = "READY" /\ st = "FAILED")
  /\ SetStatus(c, st)
  /\ UNCHANGED <<old, pc, round, result, selected, requeues>>

\* nack, release or reclaim_stale.
HandBack(c) ==
  /\ status[c] = "RUNNING" /\ SetStatus(c, "READY")
  /\ UNCHANGED <<old, pc, round, result, selected, requeues>>

\* requeue answers False where the constraint refuses the update.
Requeue(c) ==
  /\ status[c] = "FAILED" /\ Conflicts(c) = {}
  /\ requeues[c] < MaxRequeues
  /\ SetStatus(c, "READY")
  /\ old' = [old EXCEPT ![c] = FALSE]
  /\ requeues' = [requeues EXCEPT ![c] = @ + 1]
  /\ UNCHANGED <<pc, round, result, selected>>

-----------------------------------------------------------------------------
(* prune_results                                                            *)

\* The retention of a finished row passes.
Age(c) ==
  /\ status[c] \in {"SUCCESSFUL", "FAILED"} /\ ~old[c]
  /\ old' = [old EXCEPT ![c] = TRUE]
  /\ UNCHANGED <<status, pc, round, result, selected, requeues, freed, seen>>

\* Faulty: neither the status nor the age of a row is looked at.
PrunableAnyRow == {c \in Calls : status[c] \notin {"absent", "pruned"}}

Prunable == {c \in Calls : status[c] \in {"SUCCESSFUL", "FAILED"} /\ old[c]}

\* The ids of one batch.
Select(p, S) ==
  /\ selected[p] = {} /\ S # {} /\ S \subseteq Prunable
  /\ selected' = [selected EXCEPT ![p] = S]
  /\ UNCHANGED <<status, old, pc, round, result, requeues, freed, seen>>

\* Deletes by id, whatever the rows are by now.
Delete(p) ==
  /\ selected[p] # {}
  /\ status' = [c \in Calls |-> IF c \in selected[p] THEN "pruned" ELSE status[c]]
  /\ Observe(status')
  /\ old' = [c \in Calls |-> old[c] /\ c \notin selected[p]]
  /\ selected' = [selected EXCEPT ![p] = {}]
  /\ UNCHANGED <<pc, round, result, requeues>>

-----------------------------------------------------------------------------

Next ==
  \/ \E c \in Calls :
       \/ Begin(c) \/ Insert(c) \/ InsertFails(c) \/ Conflict(c)
       \/ \E d \in Calls : FindExisting(c, d)
       \/ FindNone(c)
       \/ Claim(c) \/ \E st \in {"SUCCESSFUL", "FAILED"} : Finish(c, st)
       \/ HandBack(c) \/ Requeue(c) \/ Age(c)
  \/ \E p \in Pruners :
       \/ \E S \in SUBSET Calls : Select(p, S)
       \/ Delete(p)

Spec == Init /\ [][Next]_vars

-----------------------------------------------------------------------------
(* What enqueue and pruning promise                                         *)

\* However enqueues, requeues and retries interleave, at most one READY or
\* RUNNING row holds a key.
OneActivePerKey ==
  \A c, d \in Calls :
    /\ c # d /\ SameKey(c, d)
    /\ status[c] \in {"READY", "RUNNING"}
    => status[d] \notin {"READY", "RUNNING"}

\* The id that a call answers belonged to a row of its key that was READY or
\* RUNNING at some time during the call: no request is merged into work that
\* was over before it was made.
AnswerWasActive ==
  \A c \in Calls :
    pc[c] = "existing" => SameKey(c, result[c]) /\ result[c] \in seen[c]

\* A call gives up with an IntegrityError only if its key became free twice
\* while it was looking: the second round is spent on a second finish.
GivesUpAfterTwoFinishes ==
  \A c \in Calls : pc[c] = "raised" => freed[c] >= 2

\* A READY or RUNNING row is deleted only if it was requeued, as the batch
\* of a pruner holds ids that were all finished when they were read.
ActivePrunedOnlyIfRequeued ==
  [][\A c \in Calls :
       status[c] \in {"READY", "RUNNING"} /\ status'[c] = "pruned" => requeues[c] > 0]_vars

\* prune_task_results.py: "READY and RUNNING rows are never touched".
ActiveNeverPruned ==
  [][\A c \in Calls :
       status[c] \in {"READY", "RUNNING"} => status'[c] # "pruned"]_vars

=============================================================================
