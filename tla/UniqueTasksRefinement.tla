----------------------- MODULE UniqueTasksRefinement -----------------------
(***************************************************************************)
(* The enqueue of two rounds implements UniqueWork: a request is answered  *)
(* where its row is inserted or where its lookup finds another.            *)
(***************************************************************************)
EXTENDS UniqueTasks

PhaseOf == [idle |-> "idle", inserting |-> "asking", looking |-> "asking",
            created |-> "answered", existing |-> "answered",
            raised |-> "refused", broken |-> "refused"]

phase == [c \in Calls |-> PhaseOf[pc[c]]]
outstanding == {c \in Calls : status[c] \in {"READY", "RUNNING"}}

Work == INSTANCE UniqueWork WITH NoAnswer <- NoResult, answer <- result

\* Concurrent enqueues of a key, requeues, retries and prunes cannot be told
\* from enqueues that look for work of the key and create it in one step: no
\* request is merged into work that is over, none creates work beside work.
ImplementsUniqueWork == Work!Spec

=============================================================================
