------------------------------ MODULE Schedule ------------------------------
(***************************************************************************)
(* Periodic schedules: the PeriodicTask table, the workers that share the  *)
(* duty of firing due rows, and the syncschedules command that copies the  *)
(* declarations of a release into the table.                               *)
(*                                                                         *)
(* Time is counted per schedule in occurrences: clock[s] is the last       *)
(* occurrence of s that has passed, so that the first one strictly after   *)
(* occurrence n is n + 1, for a cron expression and for an interval alike. *)
(***************************************************************************)
EXTENDS Integers, FiniteSets, Sequences

CONSTANTS
  Schedules,
  Workers,
  NoWorker,        \* claimed_by = ""
  NoSchedule,
  Syncers,         \* runs of syncschedules
  Declarations,    \* the values of the fields that a declaration sets
  CatchesUp,       \* those with catchup=True
  Undeclared,      \* the fields of a row that is not there
  Releases,        \* what a release declares: functions from its schedules to
                   \* their declarations
  ClaimBatchSize,
  Dependable,      \* workers that do not crash
  MaxOccurrence    \* bound: occurrences of a schedule

ASSUME ScheduleAssumption ==
  /\ NoWorker \notin Workers /\ NoSchedule \notin Schedules
  /\ Dependable \subseteq Workers
  /\ CatchesUp \subseteq Declarations /\ Undeclared \notin Declarations
  /\ \A release \in Releases : \E S \in SUBSET Schedules : release \in [S -> Declarations]
  /\ ClaimBatchSize \in Nat /\ MaxOccurrence \in Nat

VARIABLES
  row,       \* the PeriodicTask table
  clock,     \* the last occurrence that has passed
  due,       \* due[w]: claimed schedules the loop of w has still to dispatch
  dispatch,  \* dispatch[w]: the one it is dispatching, and the time it read
  up,        \* workers that have not crashed
  sync,      \* sync[d]: how far the command is, and the rows it has read
  fired,     \* fired[s]: occurrences enqueued, in order (history variable)
  rewound    \* rows whose next_run_at was moved back (history variable)

vars == <<row, clock, due, dispatch, up, sync, fired, rewound>>

-----------------------------------------------------------------------------

Rows == [exists: BOOLEAN, enabled: BOOLEAN, declared: Declarations \cup {Undeclared},
         next: Nat, claimed_by: Workers \cup {NoWorker},
         heartbeat: {"none", "fresh", "stale"}]

NoRow == [exists |-> FALSE, enabled |-> FALSE, declared |-> Undeclared, next |-> 0,
          claimed_by |-> NoWorker, heartbeat |-> "none"]

Dispatches == [schedule: Schedules \cup {NoSchedule}, now: 0..MaxOccurrence]
NoDispatch == [schedule |-> NoSchedule, now |-> 0]

Syncs == [pc: {"start", "saving", "done"}, todo: SUBSET Schedules,
          existing: [Schedules -> Rows],
          release: UNION {[S -> Declarations] : S \in SUBSET Schedules}]

NoSync(pc) == [pc |-> pc, todo |-> {}, release |-> [s \in {} |-> Undeclared],
               existing |-> [s \in Schedules |-> NoRow]]

TypeOK ==
  /\ row \in [Schedules -> Rows]
  /\ clock \in [Schedules -> 0..MaxOccurrence]
  /\ due \in [Workers -> SUBSET Schedules]
  /\ dispatch \in [Workers -> Dispatches]
  /\ up \subseteq Workers
  /\ sync \in [Syncers -> Syncs]
  /\ fired \in [Schedules -> Seq(0..MaxOccurrence)]
  /\ rewound \subseteq Schedules

\* Each schedule is new, or was synced from an earlier release and is due.
Init ==
  /\ row \in [Schedules -> {NoRow} \cup
               [exists: {TRUE}, enabled: {TRUE}, declared: Declarations, next: {0},
                claimed_by: {NoWorker}, heartbeat: {"none"}]]
  /\ clock = [s \in Schedules |-> 0]
  /\ due = [w \in Workers |-> {}]
  /\ dispatch = [w \in Workers |-> NoDispatch]
  /\ up = Workers
  /\ sync = [d \in Syncers |-> NoSync("start")]
  /\ fired = [s \in Schedules |-> <<>>]
  /\ rewound = {}

-----------------------------------------------------------------------------
(* scheduler_loop and claim_due_schedules                                   *)

\* Faulty: only unclaimed rows, never those of a dispatcher that crashed.
DueUnclaimed(s) ==
  /\ row[s].enabled /\ row[s].next <= clock[s]
  /\ row[s].claimed_by = NoWorker

Claimable(s) ==
  /\ row[s].enabled /\ row[s].next <= clock[s]
  /\ row[s].claimed_by = NoWorker \/ row[s].heartbeat \in {"none", "stale"}

\* Any of the claimable rows: others may be locked.
Claim(w, S) ==
  /\ w \in up /\ due[w] = {} /\ dispatch[w] = NoDispatch
  /\ S # {} /\ Cardinality(S) <= ClaimBatchSize
  /\ \A s \in S : Claimable(s)
  /\ row' = [s \in Schedules |->
               IF s \in S THEN [row[s] EXCEPT !.claimed_by = w, !.heartbeat = "fresh"]
               ELSE row[s]]
  /\ due' = [due EXCEPT ![w] = S]
  /\ UNCHANGED <<clock, dispatch, up, sync, fired, rewound>>

\* _dispatch_sync reads the clock, then waits for the row lock.
BeginDispatch(w, s) ==
  /\ dispatch[w] = NoDispatch /\ s \in due[w]
  /\ dispatch' = [dispatch EXCEPT ![w] = [schedule |-> s, now |-> clock[s]]]
  /\ due' = [due EXCEPT ![w] = @ \ {s}]
  /\ UNCHANGED <<row, clock, up, sync, fired, rewound>>

\* Faulty: the row is looked up by its id, its claim and its time unchecked.
StillEnabled(w) == row[dispatch[w].schedule].enabled

\* The filter of the locked lookup.
MayDispatch(w) ==
  LET x == row[dispatch[w].schedule]
  IN x.enabled /\ x.claimed_by = w /\ x.next <= dispatch[w].now

\* Faulty: the skip is decided for every row.
MissedAny(w) == row[dispatch[w].schedule].next + 1 <= dispatch[w].now

\* _periods_behind of a row that does not catch up.
Missed(w) ==
  LET x == row[dispatch[w].schedule]
  IN x.declared \notin CatchesUp /\ x.next + 1 <= dispatch[w].now

\* Both paths leave the first occurrence after the time read.
Advanced(x, now) ==
  [x EXCEPT !.next = now + 1, !.claimed_by = NoWorker, !.heartbeat = "none"]

Skip(w) ==
  LET s == dispatch[w].schedule
  IN /\ s # NoSchedule /\ MayDispatch(w) /\ Missed(w)
     /\ row' = [row EXCEPT ![s] = Advanced(@, dispatch[w].now)]
     /\ dispatch' = [dispatch EXCEPT ![w] = NoDispatch]
     /\ UNCHANGED <<clock, due, up, sync, fired, rewound>>

\* enqueue_schedule and the update of the schedule, in one transaction.
Fire(w) ==
  LET s == dispatch[w].schedule
  IN /\ s # NoSchedule /\ MayDispatch(w) /\ ~Missed(w)
     /\ row' = [row EXCEPT ![s] = Advanced(@, dispatch[w].now)]
     /\ fired' = [fired EXCEPT ![s] = Append(@, dispatch[w].now)]
     /\ dispatch' = [dispatch EXCEPT ![w] = NoDispatch]
     /\ UNCHANGED <<clock, due, up, sync, rewound>>

\* Disabled, advanced or taken over in the meantime; the claim stays.
Lapse(w) ==
  /\ dispatch[w] # NoDispatch /\ ~MayDispatch(w)
  /\ dispatch' = [dispatch EXCEPT ![w] = NoDispatch]
  /\ UNCHANGED <<row, clock, due, up, sync, fired, rewound>>

\* The transaction raises and is rolled back; the claim stays until it is stale.
DispatchFails(w) ==
  /\ dispatch[w] # NoDispatch
  /\ dispatch' = [dispatch EXCEPT ![w] = NoDispatch]
  /\ UNCHANGED <<row, clock, due, up, sync, fired, rewound>>

Crash(w) ==
  /\ w \in up \ Dependable
  /\ up' = up \ {w}
  /\ due' = [due EXCEPT ![w] = {}]
  /\ dispatch' = [dispatch EXCEPT ![w] = NoDispatch]
  /\ UNCHANGED <<row, clock, sync, fired, rewound>>

-----------------------------------------------------------------------------
(* syncschedules                                                            *)

\* The declarations are those of the code the command runs with; of the rows
\* read, only those still to be saved are kept.
SyncRead(d, release) ==
  /\ sync[d].pc = "start"
  /\ sync' = [sync EXCEPT ![d] =
        [pc |-> "saving", todo |-> DOMAIN release,
         release |-> release,
         existing |-> [s \in Schedules |-> IF s \in DOMAIN release THEN row[s] ELSE NoRow]]]
  /\ UNCHANGED <<row, clock, due, dispatch, up, fired, rewound>>

\* next_run_after_sync
AfterSync(s) == clock[s] + 1

\* The row a declaration leaves: created, or read before and saved with every
\* column, the ones the scheduler owns included.  If any field has changed
\* (_has_changed), next_run_at starts anew from the present.
Synced(d, s) ==
  LET old == sync[d].existing[s]
      declaration == sync[d].release[s]
  IN IF old.exists
     THEN [old EXCEPT !.enabled = TRUE, !.declared = declaration,
                      !.next = IF old.declared # declaration THEN AfterSync(s) ELSE @]
     ELSE [NoRow EXCEPT !.exists = TRUE, !.enabled = TRUE, !.declared = declaration,
                        !.next = AfterSync(s)]

SyncSave(d, s) ==
  /\ sync[d].pc = "saving" /\ s \in sync[d].todo
  /\ sync[d].existing[s].exists \/ ~row[s].exists
  /\ row' = [row EXCEPT ![s] = Synced(d, s)]
  /\ rewound' = IF Synced(d, s).next < row[s].next THEN rewound \cup {s} ELSE rewound
  /\ sync' = [sync EXCEPT ![d].todo = @ \ {s}, ![d].existing[s] = NoRow]
  /\ UNCHANGED <<clock, due, dispatch, up, fired>>

\* Another sync created the row: the unique name stops the command here.
SyncFails(d, s) ==
  /\ sync[d].pc = "saving" /\ s \in sync[d].todo
  /\ ~sync[d].existing[s].exists /\ row[s].exists
  /\ sync' = [sync EXCEPT ![d] = NoSync("done")]
  /\ UNCHANGED <<row, clock, due, dispatch, up, fired, rewound>>

\* Disable the rows whose declaration disappeared.
SyncEnd(d) ==
  /\ sync[d].pc = "saving" /\ sync[d].todo = {}
  /\ row' = [s \in Schedules |->
               IF s \in DOMAIN sync[d].release THEN row[s] ELSE [row[s] EXCEPT !.enabled = FALSE]]
  /\ sync' = [sync EXCEPT ![d] = NoSync("done")]
  /\ UNCHANGED <<clock, due, dispatch, up, fired, rewound>>

-----------------------------------------------------------------------------
(* Time                                                                     *)

Tick(s) ==
  /\ clock[s] < MaxOccurrence
  /\ clock' = [clock EXCEPT ![s] = @ + 1]
  /\ UNCHANGED <<row, due, dispatch, up, sync, fired, rewound>>

\* STALE_SCHEDULE_CLAIM_TIMEOUT passes; nobody renews this heartbeat.
GoStale(s) ==
  /\ row[s].heartbeat = "fresh"
  /\ row' = [row EXCEPT ![s].heartbeat = "stale"]
  /\ UNCHANGED <<clock, due, dispatch, up, sync, fired, rewound>>

-----------------------------------------------------------------------------

Next ==
  \/ \E w \in Workers :
       \/ \E S \in SUBSET Schedules : Claim(w, S)
       \/ \E s \in Schedules : BeginDispatch(w, s)
       \/ Skip(w) \/ Fire(w) \/ Lapse(w) \/ DispatchFails(w) \/ Crash(w)
  \/ \E d \in Syncers :
       \/ \E release \in Releases : SyncRead(d, release)
       \/ SyncEnd(d)
       \/ \E s \in Schedules : SyncSave(d, s) \/ SyncFails(d, s)
  \/ \E s \in Schedules : Tick(s) \/ GoStale(s)

Spec == Init /\ [][Next]_vars

\* A claim of a crashed or late dispatcher grows old; the loop of a
\* dependable worker polls and comes to every schedule; it is not late for
\* the lease, which is minutes long, nor fail its transactions, every time.
Fairness ==
  /\ \A s \in Schedules : WF_vars(GoStale(s))
  /\ \A w \in Dependable, s \in Schedules :
       /\ SF_vars(\E S \in SUBSET Schedules : s \in S /\ Claim(w, S))
       /\ WF_vars(BeginDispatch(w, s))
       /\ SF_vars(row[s].claimed_by = w /\ BeginDispatch(w, s))
       /\ SF_vars(dispatch[w].schedule = s /\ (Skip(w) \/ Fire(w)))
       /\ WF_vars(Lapse(w))

FairSpec == Spec /\ Fairness

-----------------------------------------------------------------------------
(* What schedules promise                                                   *)

\* Workers that share the dispatch duty enqueue no occurrence twice, and none
\* after a later one, however often leases are taken over: a row whose
\* next_run_at nobody moved back fires strictly forward.
FiresForward ==
  \A s \in Schedules \ rewound :
    \A i, j \in DOMAIN fired[s] : i < j => fired[s][i] < fired[s][j]

\* scheduler.py: workers share the duty "without double-firing".
NoDoubleFire ==
  \A s \in Schedules :
    \A i, j \in DOMAIN fired[s] : i # j => fired[s][i] # fired[s][j]

\* A due schedule does not stay due: while one worker stays up it is fired or
\* skipped, whatever dispatchers crash, fail or come late.
DueIsDispatched ==
  \A s \in Schedules :
    row[s].enabled /\ row[s].next <= clock[s]
      ~> ~row[s].enabled \/ row[s].next > clock[s]

\* A declaration that catches up gets a task for what it missed, as long as it
\* stands: deploys of the same declaration, dropped and renewed leases and late
\* dispatchers lose nothing.  A deploy that changes any of its fields drops what
\* is due.  So may one that is under way: two of them can each see the change, and
\* the later one moves next_run_at past what the first left due.
MissedIsCaughtUp ==
  LET Due(s, c, n) == /\ row[s].enabled /\ row[s].declared = c
                      /\ row[s].next = n /\ n <= clock[s]
                      /\ \A d \in Syncers : sync[d].pc # "saving"
      Settled(s, c, n) == \/ ~row[s].enabled \/ row[s].declared # c
                          \/ \E i \in DOMAIN fired[s] : fired[s][i] >= n
  IN \A s \in Schedules, c \in CatchesUp, n \in 0..MaxOccurrence :
       Due(s, c, n) ~> Settled(s, c, n)

=============================================================================
