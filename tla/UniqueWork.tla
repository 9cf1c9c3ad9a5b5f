----------------------------- MODULE UniqueWork -----------------------------
(***************************************************************************)
(* What enqueue promises of a @unique task, whatever the storage: each     *)
(* request is answered as if at one instant, with new work of its own if   *)
(* no work of its key is outstanding, and with the outstanding work of its *)
(* key otherwise.  Rounds, inserts that fail, lookups and batches of ids   *)
(* are matters of an implementation.                                       *)
(***************************************************************************)
CONSTANTS
  Calls,     \* requests, and the work each of them would create
  Key,       \* Key[c]: the key of the work
  NoKey,     \* the key of work that is never merged
  NoAnswer   \* no member of Calls

VARIABLES
  phase,        \* phase[c]: where the request is
  answer,       \* answer[c]: the work it was answered with
  outstanding   \* the work that waits or is under way

vars == <<phase, answer, outstanding>>

Phases == {"idle", "asking", "answered", "refused"}

Init ==
  /\ phase = [c \in Calls |-> "idle"]
  /\ answer = [c \in Calls |-> NoAnswer]
  /\ outstanding = {}

-----------------------------------------------------------------------------

\* The outstanding work of a key other than that of c itself.
Rivals(c) == {d \in outstanding \ {c} : Key[c] # NoKey /\ Key[d] = Key[c]}

Ask(c) ==
  /\ phase[c] = "idle"
  /\ phase' = [phase EXCEPT ![c] = "asking"]
  /\ UNCHANGED <<answer, outstanding>>

Answer(c, d) ==
  /\ phase[c] = "asking"
  /\ phase' = [phase EXCEPT ![c] = "answered"]
  /\ answer' = [answer EXCEPT ![c] = d]

\* Work of its own, which nobody has seen before.
Create(c) ==
  /\ Rivals(c) = {} /\ c \notin outstanding
  /\ Answer(c, c)
  /\ outstanding' = outstanding \cup {c}

Merge(c, d) ==
  /\ d \in Rivals(c) /\ Answer(c, d)
  /\ UNCHANGED outstanding

\* An error of the caller's transaction, or too many finishes in its way.
Refuse(c) ==
  /\ phase[c] = "asking"
  /\ phase' = [phase EXCEPT ![c] = "refused"]
  /\ UNCHANGED <<answer, outstanding>>

\* Work is over: it finished, or its rows were pruned.
Complete(S) ==
  /\ S # {} /\ S \subseteq outstanding
  /\ outstanding' = outstanding \ S
  /\ UNCHANGED <<phase, answer>>

\* requeue, for work that was answered to its request.
Repeat(c) ==
  /\ phase[c] = "answered" /\ answer[c] = c
  /\ c \notin outstanding /\ Rivals(c) = {}
  /\ outstanding' = outstanding \cup {c}
  /\ UNCHANGED <<phase, answer>>

Next ==
  \/ \E c \in Calls : Ask(c) \/ Create(c) \/ Refuse(c) \/ Repeat(c)
  \/ \E c, d \in Calls : Merge(c, d)
  \/ \E S \in SUBSET Calls : Complete(S)

Spec == Init /\ [][Next]_vars

=============================================================================
