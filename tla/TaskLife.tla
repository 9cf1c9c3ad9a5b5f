------------------------------ MODULE TaskLife ------------------------------
(***************************************************************************)
(* What a Broker and a ResultStore promise together, whatever the storage: *)
(* a task waits, is leased to one claim at a time, and is finished or      *)
(* handed back by the claim that was granted last and by no other.  A      *)
(* lease may be taken back while the claim still works; such a claim can   *)
(* only leave.  Tokens, attempts, heartbeats, threads and processes are    *)
(* matters of an implementation.                                           *)
(***************************************************************************)
CONSTANTS
  Tasks, Claims,
  NoClaim   \* the holder of a task that was never claimed, no member of Claims

VARIABLES
  phase,    \* phase[t]: where t is in its life
  holder,   \* holder[t]: the claim that was granted t last
  work      \* work[t][c]: what claim c has done for t

vars == <<phase, holder, work>>

Phases == {"absent", "waiting", "leased", "succeeded", "failed"}
WorkStates == {"none", "working", "reported"}

Init ==
  /\ phase = [t \in Tasks |-> "absent"]
  /\ holder = [t \in Tasks |-> NoClaim]
  /\ work = [t \in Tasks |-> [c \in Claims |-> "none"]]

-----------------------------------------------------------------------------
(* Clients                                                                  *)

Move(t, from, to) == phase[t] = from /\ phase' = [phase EXCEPT ![t] = to]

\* create and enqueue
Submit(t) == Move(t, "absent", "waiting") /\ UNCHANGED <<holder, work>>

\* cancel, before any claim
Withdraw(t) == Move(t, "waiting", "failed") /\ UNCHANGED <<holder, work>>

\* requeue
Repeat(t) == Move(t, "failed", "waiting") /\ UNCHANGED <<holder, work>>

-----------------------------------------------------------------------------
(* Claims                                                                   *)

\* claim: the tasks of S are leased at once, each to a claim of its own.
Grant(S) ==
  /\ S # {} /\ \A t \in S : phase[t] = "waiting"
  /\ \E new \in [S -> Claims] :
       /\ \A t \in S : work[t][new[t]] = "none"
       /\ phase' = [t \in Tasks |-> IF t \in S THEN "leased" ELSE phase[t]]
       /\ holder' = [t \in Tasks |-> IF t \in S THEN new[t] ELSE holder[t]]
       /\ work' = [t \in Tasks |->
                     IF t \in S THEN [work[t] EXCEPT ![new[t]] = "working"] ELSE work[t]]

Works(t, c) == holder[t] = c /\ work[t][c] = "working"

\* mark_successful, mark_failed
Report(t, c) ==
  /\ Works(t, c)
  /\ \E outcome \in {"succeeded", "failed"} : Move(t, "leased", outcome)
  /\ work' = [work EXCEPT ![t][c] = "reported"]
  /\ UNCHANGED holder

\* nack, release
HandBack(t, c) ==
  /\ Works(t, c)
  /\ Move(t, "leased", "waiting")
  /\ work' = [work EXCEPT ![t][c] = "none"]
  /\ UNCHANGED holder

\* ack, or claims that end without a trace: they lost their lease, or died.
Leave ==
  /\ UNCHANGED <<phase, holder>>
  /\ work' \in [Tasks -> [Claims -> WorkStates]]
  /\ \A t \in Tasks, c \in Claims : work'[t][c] \in {work[t][c], "none"}

\* reclaim_stale: the leases of S are over, the claims that had them go on.
Expire(S) ==
  /\ S # {} /\ \A t \in S : phase[t] = "leased"
  /\ \E next \in [S -> {"waiting", "failed"}] :
       phase' = [t \in Tasks |-> IF t \in S THEN next[t] ELSE phase[t]]
  /\ UNCHANGED <<holder, work>>

Next ==
  \/ Leave
  \/ \E t \in Tasks : Submit(t) \/ Withdraw(t) \/ Repeat(t)
  \/ \E S \in SUBSET Tasks : Grant(S) \/ Expire(S)
  \/ \E t \in Tasks, c \in Claims : Report(t, c) \/ HandBack(t, c)

Spec == Init /\ [][Next]_vars

=============================================================================
