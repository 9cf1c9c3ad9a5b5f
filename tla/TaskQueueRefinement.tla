------------------------ MODULE TaskQueueRefinement ------------------------
(***************************************************************************)
(* The table, the workers and the reaper implement TaskLife.  The phase of *)
(* a task is the status of its row; its holder is its newest claim; a      *)
(* claim works from the commit of claim until it has written an outcome.   *)
(***************************************************************************)
EXTENDS TaskQueue

PhaseOf == [absent |-> "absent", READY |-> "waiting", RUNNING |-> "leased",
            SUCCESSFUL |-> "succeeded", FAILED |-> "failed"]

WorkOf(r) ==
  CASE r.pc = "idle"   -> "none"
    [] r.pc = "acking" -> "reported"
    [] OTHER           -> "working"

phase == [t \in Tasks |-> PhaseOf[row[t].status]]
work == [t \in Tasks |-> [s \in Slots |-> WorkOf(run[t][s])]]

Life == INSTANCE TaskLife WITH Claims <- Slots, NoClaim <- 0, holder <- current

\* Whatever interleaving of crashes, stalls, reclaims, cancels and late writes,
\* a task is finished or handed back only by the claim that was granted last,
\* at most once per claim, and only while its lease stands.
ImplementsTaskLife == Life!Spec

=============================================================================
