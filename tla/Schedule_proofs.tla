-------------------------- MODULE Schedule_proofs --------------------------
(***************************************************************************)
(* Workers that share the dispatch duty fire a schedule strictly forward,  *)
(* for any number of schedules, workers, deploys and occurrences.          *)
(***************************************************************************)
EXTENDS Schedule, SequenceTheorems, TLAPS

\* The part of a row's life that the argument is about: next_run_at is past
\* every occurrence that has been enqueued.
NextIsAhead ==
  \A s \in Schedules \ rewound : \A i \in DOMAIN fired[s] : fired[s][i] < row[s].next

\* A command saves nothing but what its release declares.
TodoIsDeclared == \A d \in Syncers : sync[d].todo \subseteq DOMAIN sync[d].release

IInv == TypeOK /\ TodoIsDeclared /\ NextIsAhead /\ FiresForward

-----------------------------------------------------------------------------

\* What the updates of a row do to its type and to its next_run_at.
LEMMA RowAdvanced ==
  ASSUME NEW x \in Rows, NEW n \in Nat
  PROVE  Advanced(x, n) \in Rows /\ Advanced(x, n).next = n + 1
  <1>1. n + 1 \in Nat
    OBVIOUS
  <1>2. \A k \in Nat :
          LET y == [x EXCEPT !.next = k, !.claimed_by = NoWorker, !.heartbeat = "none"]
          IN y \in Rows /\ y.next = k
    BY DEF Rows
  <1>3. QED
    BY <1>1, <1>2 DEF Advanced

LEMMA RowClaimed ==
  ASSUME NEW x \in Rows, NEW w \in Workers
  PROVE  /\ [x EXCEPT !.claimed_by = w, !.heartbeat = "fresh"] \in Rows
         /\ [x EXCEPT !.claimed_by = w, !.heartbeat = "fresh"].next = x.next
  BY DEF Rows

LEMMA RowFlags ==
  ASSUME NEW x \in Rows
  PROVE  /\ NoRow \in Rows
         /\ x.next \in Nat
         /\ [x EXCEPT !.heartbeat = "stale"] \in Rows
         /\ [x EXCEPT !.heartbeat = "stale"].next = x.next
         /\ [x EXCEPT !.enabled = FALSE] \in Rows
         /\ [x EXCEPT !.enabled = FALSE].next = x.next
  BY DEF Rows, NoRow

\* Occurrences are numbers, in the rows and in what was enqueued.
LEMMA Numbers ==
  ASSUME TypeOK
  PROVE  /\ \A s \in Schedules : row[s] \in Rows /\ row[s].next \in Nat
         /\ \A s \in Schedules :
              /\ fired[s] \in Seq(0..MaxOccurrence)
              /\ Len(fired[s]) \in Nat /\ DOMAIN fired[s] = 1..Len(fired[s])
              /\ \A i \in DOMAIN fired[s] : fired[s][i] \in Int
  <1>1. \A s \in Schedules : row[s] \in Rows /\ fired[s] \in Seq(0..MaxOccurrence)
    BY DEF TypeOK
  <1>2. \A q \in Seq(0..MaxOccurrence) :
          /\ Len(q) \in Nat /\ DOMAIN q = 1..Len(q)
          /\ \A i \in DOMAIN q : q[i] \in Int
    <2> SUFFICES ASSUME NEW q \in Seq(0..MaxOccurrence)
                 PROVE  /\ Len(q) \in Nat /\ DOMAIN q = 1..Len(q)
                        /\ \A i \in DOMAIN q : q[i] \in Int
      OBVIOUS
    <2>1. Len(q) \in Nat /\ q \in [1..Len(q) -> 0..MaxOccurrence]
      BY LenProperties
    <2>2. QED
      BY <2>1
  <1>3. QED
    BY <1>1, <1>2, RowFlags

LEMMA NoSyncType ==
  ASSUME NEW pc \in {"start", "saving", "done"}
  PROVE  NoSync(pc) \in Syncs
  <1>1. [s \in {} |-> Undeclared] \in UNION {[S -> Declarations] : S \in SUBSET Schedules}
    <2>1. [s \in {} |-> Undeclared] \in [{} -> Declarations]
      OBVIOUS
    <2>2. {} \in SUBSET Schedules
      OBVIOUS
    <2>3. QED
      BY <2>1, <2>2
  <1>2. [s \in Schedules |-> NoRow] \in [Schedules -> Rows]
    BY DEF NoRow, Rows
  <1>3. QED
    BY <1>1, <1>2 DEF NoSync, Syncs

LEMMA InitIInv == Init => IInv
  <1> SUFFICES ASSUME Init PROVE IInv
    OBVIOUS
  <1>1. \A S \in {NoRow} \cup [exists: {TRUE}, enabled: {TRUE}, declared: Declarations,
                               next: {0}, claimed_by: {NoWorker}, heartbeat: {"none"}] :
          S \in Rows
    <2>1. NoRow \in Rows
      BY DEF NoRow, Rows
    <2>2. ASSUME NEW x \in [exists: {TRUE}, enabled: {TRUE}, declared: Declarations, next: {0},
                            claimed_by: {NoWorker}, heartbeat: {"none"}]
          PROVE  x \in Rows
      <3>1. PICK c \in Declarations : x = [exists |-> TRUE, enabled |-> TRUE, declared |-> c, next |-> 0,
                                      claimed_by |-> NoWorker, heartbeat |-> "none"]
        BY <2>2
      <3>2. QED
        BY <3>1 DEF Rows
    <2>3. QED
      BY <2>1, <2>2
  <1>2. row \in [Schedules -> Rows]
    BY <1>1 DEF Init
  <1>3. clock \in [Schedules -> 0..MaxOccurrence] /\ NoDispatch \in Dispatches
    BY ScheduleAssumption DEF Init, NoDispatch, Dispatches
  <1>4. fired \in [Schedules -> Seq(0..MaxOccurrence)]
    BY DEF Init
  <1>5. TypeOK
    BY <1>2, <1>3, <1>4, NoSyncType DEF Init, TypeOK
  <1>6. QED
    BY <1>5 DEF Init, IInv, NoSync, TodoIsDeclared, NextIsAhead, FiresForward

-----------------------------------------------------------------------------

\* A step that enqueues nothing keeps the promise when it moves next_run_at
\* forward, or records that it has moved it back.
LEMMA Unfired ==
  ASSUME IInv, TypeOK', TodoIsDeclared', UNCHANGED fired, rewound \subseteq rewound',
         \A s \in Schedules \ rewound' : row'[s].next >= row[s].next
  PROVE  IInv'
  <1>1. NextIsAhead'
    <2> SUFFICES ASSUME NEW s \in Schedules \ rewound', NEW i \in DOMAIN fired[s]
                 PROVE  fired[s][i] < row'[s].next
      BY DEF NextIsAhead
    <2>1. fired[s][i] < row[s].next
      BY DEF IInv, NextIsAhead
    <2>2. row[s].next \in Nat /\ fired[s][i] \in Int
      BY Numbers DEF IInv
    <2>3. row'[s].next \in Nat
      BY RowFlags DEF TypeOK
    <2>4. QED
      BY <2>1, <2>2, <2>3
  <1>2. FiresForward'
    BY DEF IInv, FiresForward
  <1>3. QED
    BY <1>1, <1>2 DEF IInv

LEMMA ClaimStep ==
  ASSUME IInv, NEW w \in Workers, NEW S \in SUBSET Schedules, Claim(w, S)
  PROVE  IInv'
  <1> DEFINE r(s) == [row[s] EXCEPT !.claimed_by = w, !.heartbeat = "fresh"]
  <1>1. \A s \in Schedules : row[s] \in Rows
    BY DEF IInv, TypeOK
  <1>2. \A s \in Schedules : r(s) \in Rows /\ r(s).next = row[s].next /\ row[s].next \in Nat
    BY <1>1, RowClaimed, RowFlags
  <1>3. row' = [s \in Schedules |-> IF s \in S THEN r(s) ELSE row[s]]
    BY DEF Claim
  <1> HIDE DEF r
  <1>4. row' \in [Schedules -> Rows] /\ \A s \in Schedules : row'[s].next >= row[s].next
    BY <1>1, <1>2, <1>3
  <1>5. due' \in [Workers -> SUBSET Schedules]
    BY DEF Claim, IInv, TypeOK
  <1>6. TypeOK'
    BY <1>4, <1>5 DEF Claim, IInv, TypeOK
  <1>7. QED
    BY <1>4, <1>6, Unfired DEF Claim, IInv, TodoIsDeclared

LEMMA BeginStep ==
  ASSUME IInv, NEW w \in Workers, NEW s \in Schedules, BeginDispatch(w, s)
  PROVE  IInv'
  <1>1. [schedule |-> s, now |-> clock[s]] \in Dispatches
    BY DEF IInv, TypeOK, Dispatches
  <1>2. dispatch' \in [Workers -> Dispatches]
    BY <1>1 DEF BeginDispatch, IInv, TypeOK
  <1>3. due' \in [Workers -> SUBSET Schedules]
    <2>1. due[w] \ {s} \in SUBSET Schedules
      BY DEF IInv, TypeOK
    <2>2. QED
      BY <2>1 DEF BeginDispatch, IInv, TypeOK
  <1>4. TypeOK'
    BY <1>2, <1>3 DEF BeginDispatch, IInv, TypeOK
  <1>5. \A q \in Schedules : row'[q].next >= row[q].next
    BY Numbers DEF BeginDispatch, IInv
  <1>6. QED
    BY <1>4, <1>5, Unfired DEF BeginDispatch, IInv, TodoIsDeclared

\* The dispatch under way is given up: Lapse, DispatchFails and Crash.
LEMMA DroppedStep ==
  ASSUME IInv, NEW w \in Workers,
         dispatch' = [dispatch EXCEPT ![w] = NoDispatch],
         \/ UNCHANGED <<due, up>>
         \/ up' = up \ {w} /\ due' = [due EXCEPT ![w] = {}],
         UNCHANGED <<row, clock, sync, fired, rewound>>
  PROVE  IInv'
  <1>1. NoDispatch \in Dispatches
    BY ScheduleAssumption DEF NoDispatch, Dispatches
  <1>2. dispatch' \in [Workers -> Dispatches]
    BY <1>1 DEF IInv, TypeOK
  <1>3. due' \in [Workers -> SUBSET Schedules] /\ up' \subseteq Workers
    BY DEF IInv, TypeOK
  <1>4. TypeOK'
    BY <1>2, <1>3 DEF IInv, TypeOK
  <1>5. \A s \in Schedules : row'[s].next >= row[s].next
    BY Numbers DEF IInv
  <1>6. QED
    BY <1>4, <1>5, Unfired DEF IInv, TodoIsDeclared

\* The locked lookup finds the row due at the time read, and both paths leave
\* next_run_at one past that time.
LEMMA Dispatched ==
  ASSUME IInv, NEW w \in Workers, NEW s \in Schedules, dispatch[w].schedule = s,
         MayDispatch(w),
         row' = [row EXCEPT ![s] = Advanced(@, dispatch[w].now)],
         dispatch' = [dispatch EXCEPT ![w] = NoDispatch],
         UNCHANGED <<clock, due, up, sync, rewound>>
  PROVE  /\ row' \in [Schedules -> Rows] /\ dispatch' \in [Workers -> Dispatches]
         /\ dispatch[w].now \in 0..MaxOccurrence
         /\ row[s].next <= dispatch[w].now /\ row'[s].next = dispatch[w].now + 1
         /\ \A q \in Schedules : row'[q].next >= row[q].next
  <1>1. dispatch[w].now \in 0..MaxOccurrence
    BY DEF IInv, TypeOK, Dispatches
  <1>2. dispatch[w].now \in Nat /\ row[s].next <= dispatch[w].now
    BY <1>1 DEF MayDispatch
  <1>3. \A q \in Schedules : row[q] \in Rows /\ row[q].next \in Nat
    BY Numbers DEF IInv
  <1> DEFINE x == Advanced(row[s], dispatch[w].now)
  <1>4. x \in Rows /\ x.next = dispatch[w].now + 1
    BY <1>2, <1>3, RowAdvanced
  <1>5. row \in [Schedules -> Rows] /\ row' = [row EXCEPT ![s] = x]
    BY DEF IInv, TypeOK
  <1>6. NoDispatch \in Dispatches
    BY ScheduleAssumption DEF NoDispatch, Dispatches
  <1>7. dispatch' \in [Workers -> Dispatches]
    BY <1>6 DEF IInv, TypeOK
  <1> HIDE DEF x
  <1>8. QED
    BY <1>1, <1>2, <1>3, <1>4, <1>5, <1>7

LEMMA SkipStep ==
  ASSUME IInv, NEW w \in Workers, Skip(w)
  PROVE  IInv'
  <1> DEFINE s == dispatch[w].schedule
  <1>1. s \in Schedules
    BY DEF Skip, IInv, TypeOK, Dispatches
  <1>2. /\ row' \in [Schedules -> Rows] /\ dispatch' \in [Workers -> Dispatches]
        /\ \A q \in Schedules : row'[q].next >= row[q].next
    BY <1>1, Dispatched DEF Skip
  <1>3. TypeOK'
    BY <1>2 DEF Skip, IInv, TypeOK
  <1>4. QED
    BY <1>2, <1>3, Unfired DEF Skip, IInv, TodoIsDeclared

LEMMA FireStep ==
  ASSUME IInv, NEW w \in Workers, Fire(w)
  PROVE  IInv'
  <1> DEFINE s == dispatch[w].schedule
             now == dispatch[w].now
  <1>1. s \in Schedules
    BY DEF Fire, IInv, TypeOK, Dispatches
  <1>2. /\ row' \in [Schedules -> Rows] /\ dispatch' \in [Workers -> Dispatches]
        /\ now \in 0..MaxOccurrence
        /\ row[s].next <= now /\ row'[s].next = now + 1
        /\ \A q \in Schedules : row'[q].next >= row[q].next
    BY <1>1, Dispatched DEF Fire
  <1>3. fired' = [fired EXCEPT ![s] = Append(@, now)] /\ rewound' = rewound
    BY DEF Fire
  <1>4. fired \in [Schedules -> Seq(0..MaxOccurrence)]
    BY DEF IInv, TypeOK
  <1> HIDE DEF s, now
  <1>5. fired[s] \in Seq(0..MaxOccurrence)
    BY <1>1, <1>4
  <1>6. fired' \in [Schedules -> Seq(0..MaxOccurrence)]
    <2>1. Append(fired[s], now) \in Seq(0..MaxOccurrence)
      BY <1>2, <1>5
    <2>2. QED
      BY <2>1, <1>3, <1>4
  <1>7. TypeOK'
    BY <1>2, <1>6 DEF Fire, IInv, TypeOK
  <1>8. /\ \A q \in Schedules : row[q].next \in Nat /\ row'[q].next \in Nat
        /\ \A q \in Schedules : \A i \in DOMAIN fired[q] : fired[q][i] \in Int
    <2>1. \A q \in Schedules : row'[q] \in Rows
      BY <1>2
    <2>2. QED
      BY <2>1, Numbers, RowFlags DEF IInv
  <1>9. /\ DOMAIN fired'[s] = 1..(Len(fired[s]) + 1) /\ DOMAIN fired[s] = 1..Len(fired[s])
        /\ Len(fired[s]) \in Nat
        /\ \A i \in 1..Len(fired[s]) : fired'[s][i] = fired[s][i] /\ fired[s][i] \in Int
        /\ fired'[s][Len(fired[s]) + 1] = now
    <2>1. fired'[s] = Append(fired[s], now)
      BY <1>1, <1>3, <1>4
    <2>2. /\ Len(fired[s]) \in Nat /\ DOMAIN fired[s] = 1..Len(fired[s])
          /\ \A i \in 1..Len(fired[s]) : fired[s][i] \in Int
      BY <1>1, Numbers DEF IInv
    <2>3. /\ Len(Append(fired[s], now)) = Len(fired[s]) + 1
          /\ Append(fired[s], now) \in Seq(0..MaxOccurrence)
          /\ \A i \in 1..Len(fired[s]) : Append(fired[s], now)[i] = fired[s][i]
          /\ Append(fired[s], now)[Len(fired[s]) + 1] = now
      BY <1>2, <1>5, AppendProperties
    <2>4. DOMAIN Append(fired[s], now) = 1..(Len(fired[s]) + 1)
      BY <2>3, LenProperties
    <2>5. QED
      BY <2>1, <2>2, <2>3, <2>4
  <1>10. ASSUME s \notin rewound
         PROVE  \A i \in 1..Len(fired[s]) : fired[s][i] < now
    BY <1>1, <1>2, <1>8, <1>9, <1>10 DEF IInv, NextIsAhead
  <1>11. NextIsAhead'
    <2> SUFFICES ASSUME NEW q \in Schedules \ rewound, NEW i \in DOMAIN fired'[q]
                 PROVE  fired'[q][i] < row'[q].next
      BY <1>3 DEF NextIsAhead
    <2>1. CASE q = s
      BY <2>1, <1>2, <1>9, <1>10
    <2>2. CASE q # s
      <3>1. fired'[q] = fired[q]
        BY <2>2, <1>3, <1>4
      <3>2. fired[q][i] < row[q].next /\ fired[q][i] \in Int
        BY <3>1, <1>8 DEF IInv, NextIsAhead
      <3>3. QED
        BY <3>1, <3>2, <1>2, <1>8
    <2>3. QED
      BY <2>1, <2>2
  <1>12. FiresForward'
    <2> SUFFICES ASSUME NEW q \in Schedules \ rewound,
                        NEW i \in DOMAIN fired'[q], NEW j \in DOMAIN fired'[q], i < j
                 PROVE  fired'[q][i] < fired'[q][j]
      BY <1>3 DEF FiresForward
    <2>1. CASE q = s
      <3>1. i \in 1..Len(fired[s])
        BY <2>1, <1>9
      <3>2. CASE j = Len(fired[s]) + 1
        BY <2>1, <3>1, <3>2, <1>9, <1>10
      <3>3. CASE j \in 1..Len(fired[s])
        BY <2>1, <3>1, <3>3, <1>9 DEF IInv, FiresForward
      <3>4. QED
        BY <2>1, <3>2, <3>3, <1>9
    <2>2. CASE q # s
      <3>1. fired'[q] = fired[q]
        BY <2>2, <1>3, <1>4
      <3>2. QED
        BY <3>1 DEF IInv, FiresForward
    <2>3. QED
      BY <2>1, <2>2
  <1>13. QED
    BY <1>7, <1>11, <1>12 DEF IInv, Fire, TodoIsDeclared

-----------------------------------------------------------------------------

LEMMA SyncReadStep ==
  ASSUME IInv, NEW d \in Syncers, NEW release \in Releases, SyncRead(d, release)
  PROVE  IInv'
  <1>1. PICK S \in SUBSET Schedules : release \in [S -> Declarations]
    BY ScheduleAssumption
  <1> DEFINE existing == [s \in Schedules |-> IF s \in DOMAIN release THEN row[s] ELSE NoRow]
             x == [pc |-> "saving", todo |-> DOMAIN release,
                   release |-> release, existing |-> existing]
  <1>2. existing \in [Schedules -> Rows]
    BY Numbers, RowFlags DEF IInv
  <1>3. DOMAIN release \in SUBSET Schedules
    BY <1>1
  <1>4. release \in UNION {[R -> Declarations] : R \in SUBSET Schedules}
    BY <1>1
  <1>5. sync' = [sync EXCEPT ![d] = x]
    BY DEF SyncRead
  <1> HIDE DEF existing
  <1>6. x \in Syncs
    BY <1>2, <1>3, <1>4 DEF Syncs
  <1> HIDE DEF x
  <1>7. sync' \in [Syncers -> Syncs]
    BY <1>5, <1>6 DEF IInv, TypeOK
  <1>8. TypeOK'
    BY <1>7 DEF SyncRead, IInv, TypeOK
  <1>9. \A s \in Schedules : row'[s].next >= row[s].next
    BY Numbers DEF SyncRead, IInv
  <1>10. TodoIsDeclared'
    <2>1. x.todo \subseteq DOMAIN x.release
      BY DEF x
    <2>2. QED
      BY <1>5, <2>1 DEF IInv, TypeOK, TodoIsDeclared
  <1>11. QED
    BY <1>8, <1>9, <1>10, Unfired DEF SyncRead

\* Whatever the command has read, the row it saves is a row.
LEMMA SyncedType ==
  ASSUME TypeOK, TodoIsDeclared, NEW d \in Syncers, NEW s \in sync[d].todo
  PROVE  Synced(d, s) \in Rows
  <1> DEFINE old == sync[d].existing[s]
             declaration == sync[d].release[s]
  <1>1. old \in Rows /\ declaration \in Declarations /\ s \in Schedules
    <2>1. /\ sync[d].todo \subseteq Schedules /\ sync[d].existing \in [Schedules -> Rows]
          /\ sync[d].release \in UNION {[R -> Declarations] : R \in SUBSET Schedules}
      BY DEF TypeOK, Syncs
    <2>2. s \in DOMAIN sync[d].release
      BY DEF TodoIsDeclared
    <2>3. PICK R \in SUBSET Schedules : sync[d].release \in [R -> Declarations]
      BY <2>1
    <2>4. QED
      BY <2>1, <2>2, <2>3
  <1>2. AfterSync(s) \in Nat
    <2>1. clock[s] \in 0..MaxOccurrence
      BY <1>1 DEF TypeOK
    <2>2. QED
      BY <2>1 DEF AfterSync
  <1>3. \A x \in Rows, c \in Declarations, n \in Nat :
          [x EXCEPT !.enabled = TRUE, !.declared = c,
                    !.next = IF x.declared # c THEN n ELSE @] \in Rows
    BY DEF Rows
  <1>4. \A c \in Declarations, n \in Nat :
          [NoRow EXCEPT !.exists = TRUE, !.enabled = TRUE, !.declared = c, !.next = n] \in Rows
    BY DEF Rows, NoRow
  <1> HIDE DEF old, declaration
  <1>5. QED
    BY <1>1, <1>2, <1>3, <1>4 DEF Synced, old, declaration

LEMMA SyncSaveStep ==
  ASSUME IInv, NEW d \in Syncers, NEW s \in Schedules, SyncSave(d, s)
  PROVE  IInv'
  <1>1. Synced(d, s) \in Rows
    BY SyncedType DEF SyncSave, IInv
  <1>2. row' = [row EXCEPT ![s] = Synced(d, s)]
    BY DEF SyncSave
  <1>3. row' \in [Schedules -> Rows]
    BY <1>1, <1>2 DEF IInv, TypeOK
  <1>4. rewound' \subseteq Schedules /\ rewound \subseteq rewound'
    BY DEF SyncSave, IInv, TypeOK
  <1> DEFINE x == [sync[d] EXCEPT !.todo = @ \ {s}, !.existing[s] = NoRow]
  <1>5. sync' = [sync EXCEPT ![d] = x]
    BY DEF SyncSave
  <1>6. x \in Syncs /\ x.todo = sync[d].todo \ {s} /\ x.release = sync[d].release
    <2>1. sync[d] \in Syncs
      BY DEF IInv, TypeOK
    <2>2. [sync[d].existing EXCEPT ![s] = NoRow] \in [Schedules -> Rows]
      BY <2>1, RowFlags, <1>1 DEF Syncs
    <2>3. sync[d].todo \ {s} \in SUBSET Schedules
      BY <2>1 DEF Syncs
    <2> DEFINE S == sync[d].todo \ {s}
               e == [sync[d].existing EXCEPT ![s] = NoRow]
               y == sync[d]
    <2>4. x = [y EXCEPT !.todo = S, !.existing = e]
      OBVIOUS
    <2>5. y \in Syncs /\ S \in SUBSET Schedules /\ e \in [Schedules -> Rows]
      BY <2>1, <2>2, <2>3
    <2> HIDE DEF S, e, y, x
    <2>6. x \in Syncs /\ x.todo = S /\ x.release = y.release
      BY <2>4, <2>5 DEF Syncs
    <2>7. QED
      BY <2>6 DEF S, y
  <1> HIDE DEF x
  <1>7. sync' \in [Syncers -> Syncs] /\ TodoIsDeclared'
    BY <1>5, <1>6 DEF IInv, TypeOK, TodoIsDeclared
  <1>8. TypeOK'
    BY <1>3, <1>4, <1>7 DEF SyncSave, IInv, TypeOK
  <1>9. \A q \in Schedules \ rewound' : row'[q].next >= row[q].next
    <2> SUFFICES ASSUME NEW q \in Schedules \ rewound'
                 PROVE  row'[q].next >= row[q].next
      OBVIOUS
    <2>1. row[q].next \in Nat /\ Synced(d, s).next \in Nat
      BY <1>1, Numbers, RowFlags DEF IInv
    <2>2. CASE q = s
      <3>1. ~(Synced(d, s).next < row[s].next)
        BY <2>2 DEF SyncSave
      <3>2. row'[s] = Synced(d, s)
        BY <1>2 DEF IInv, TypeOK
      <3>3. QED
        BY <2>1, <2>2, <3>1, <3>2
    <2>3. CASE q # s
      BY <2>1, <2>3, <1>2 DEF IInv, TypeOK
    <2>4. QED
      BY <2>2, <2>3
  <1>10. QED
    BY <1>4, <1>7, <1>8, <1>9, Unfired DEF SyncSave

\* The command stops, with or without disabling what it does not declare.
LEMMA SyncDoneStep ==
  ASSUME IInv, NEW d \in Syncers, SyncEnd(d) \/ \E s \in Schedules : SyncFails(d, s)
  PROVE  IInv'
  <1>1. sync' = [sync EXCEPT ![d] = NoSync("done")]
    BY DEF SyncEnd, SyncFails
  <1>2. NoSync("done") \in Syncs /\ NoSync("done").todo = {}
    BY NoSyncType DEF NoSync
  <1>3. sync' \in [Syncers -> Syncs] /\ TodoIsDeclared'
    BY <1>1, <1>2 DEF IInv, TypeOK, TodoIsDeclared
  <1>4. UNCHANGED <<clock, due, dispatch, up, fired, rewound>>
    BY DEF SyncEnd, SyncFails
  <1>5. row' \in [Schedules -> Rows] /\ \A s \in Schedules : row'[s].next >= row[s].next
    <2>1. CASE SyncEnd(d)
      <3> DEFINE off(s) == [row[s] EXCEPT !.enabled = FALSE]
      <3>1. \A s \in Schedules : /\ row[s] \in Rows /\ row[s].next \in Nat
                                 /\ off(s) \in Rows /\ off(s).next = row[s].next
        BY Numbers, RowFlags DEF IInv
      <3>2. row' = [s \in Schedules |-> IF s \in DOMAIN sync[d].release THEN row[s] ELSE off(s)]
        BY <2>1 DEF SyncEnd
      <3> HIDE DEF off
      <3>3. QED
        BY <3>1, <3>2
    <2>2. CASE \E s \in Schedules : SyncFails(d, s)
      <3>1. row' = row
        BY <2>2 DEF SyncFails
      <3>2. QED
        BY <3>1, Numbers DEF IInv, TypeOK
    <2>3. QED
      BY <2>1, <2>2
  <1>6. TypeOK'
    BY <1>3, <1>4, <1>5 DEF IInv, TypeOK
  <1>7. QED
    BY <1>3, <1>4, <1>5, <1>6, Unfired

-----------------------------------------------------------------------------

LEMMA TimeStep ==
  ASSUME IInv, NEW s \in Schedules, Tick(s) \/ GoStale(s)
  PROVE  IInv'
  <1>1. row' \in [Schedules -> Rows] /\ \A q \in Schedules : row'[q].next >= row[q].next
    <2>1. CASE Tick(s)
      <3>1. row' = row
        BY <2>1 DEF Tick
      <3>2. QED
        BY <3>1, Numbers DEF IInv, TypeOK
    <2>2. CASE GoStale(s)
      <3> DEFINE old == [row[s] EXCEPT !.heartbeat = "stale"]
      <3>1. old \in Rows /\ old.next = row[s].next
        BY Numbers, RowFlags DEF IInv
      <3>2. row' = [row EXCEPT ![s] = old]
        BY <2>2 DEF GoStale
      <3> HIDE DEF old
      <3>3. QED
        BY <3>1, <3>2, Numbers DEF IInv, TypeOK
    <2>3. QED
      BY <2>1, <2>2
  <1>2. clock' \in [Schedules -> 0..MaxOccurrence]
    <2>1. CASE Tick(s)
      <3>1. clock[s] \in 0..MaxOccurrence /\ clock[s] < MaxOccurrence /\ MaxOccurrence \in Nat
        BY <2>1, ScheduleAssumption DEF Tick, IInv, TypeOK
      <3>2. clock[s] + 1 \in 0..MaxOccurrence
        BY <3>1
      <3>3. QED
        BY <2>1, <3>2 DEF Tick, IInv, TypeOK
    <2>2. CASE GoStale(s)
      BY <2>2 DEF GoStale, IInv, TypeOK
    <2>3. QED
      BY <2>1, <2>2
  <1>3. UNCHANGED <<due, dispatch, up, sync, fired, rewound>>
    BY DEF Tick, GoStale
  <1>4. TypeOK'
    BY <1>1, <1>2, <1>3 DEF IInv, TypeOK
  <1>5. QED
    BY <1>1, <1>3, <1>4, Unfired DEF IInv, TodoIsDeclared

LEMMA StepIInv == IInv /\ [Next]_vars => IInv'
  <1> SUFFICES ASSUME IInv, [Next]_vars PROVE IInv'
    OBVIOUS
  <1>1. ASSUME NEW w \in Workers, NEW S \in SUBSET Schedules, Claim(w, S)
        PROVE  IInv'
    BY <1>1, ClaimStep
  <1>2. ASSUME NEW w \in Workers, NEW s \in Schedules, BeginDispatch(w, s)
        PROVE  IInv'
    BY <1>2, BeginStep
  <1>3. ASSUME NEW w \in Workers, Skip(w) \/ Fire(w)
        PROVE  IInv'
    BY <1>3, SkipStep, FireStep
  <1>4. ASSUME NEW w \in Workers, Lapse(w) \/ DispatchFails(w) \/ Crash(w)
        PROVE  IInv'
    BY <1>4, DroppedStep DEF Lapse, DispatchFails, Crash
  <1>5. ASSUME NEW d \in Syncers, NEW release \in Releases, SyncRead(d, release)
        PROVE  IInv'
    BY <1>5, SyncReadStep
  <1>6. ASSUME NEW d \in Syncers, NEW s \in Schedules, SyncSave(d, s)
        PROVE  IInv'
    BY <1>6, SyncSaveStep
  <1>7. ASSUME NEW d \in Syncers, SyncEnd(d) \/ \E s \in Schedules : SyncFails(d, s)
        PROVE  IInv'
    BY <1>7, SyncDoneStep
  <1>8. ASSUME NEW s \in Schedules, Tick(s) \/ GoStale(s)
        PROVE  IInv'
    BY <1>8, TimeStep
  <1>9. CASE UNCHANGED vars
    BY <1>9 DEF vars, IInv, TypeOK, TodoIsDeclared, NextIsAhead, FiresForward
  <1>10. QED
    BY <1>1, <1>2, <1>3, <1>4, <1>5, <1>6, <1>7, <1>8, <1>9 DEF Next

\* Workers that share the dispatch duty never enqueue an occurrence twice or
\* out of order: what _dispatch_sync checks under the row lock is enough for
\* every row that no syncschedules has moved back.
THEOREM FiredForward == Spec => []FiresForward
  <1>1. IInv => FiresForward
    BY DEF IInv
  <1>2. QED
    BY <1>1, InitIInv, StepIInv, PTL DEF Spec

\* Without deploys no occurrence is enqueued twice: what can go wrong with the
\* promise of worker/scheduler.py comes from syncschedules alone.
THEOREM NoDoubleFireWithoutSyncs ==
  ASSUME Syncers = {}
  PROVE  Spec => []NoDoubleFire
  <1>1. Init => rewound = {}
    BY DEF Init
  <1>2. rewound = {} /\ [Next]_vars => (rewound = {})'
    BY DEF Next, vars, Claim, BeginDispatch, Skip, Fire, Lapse, DispatchFails, Crash, Tick, GoStale
  <1>3. IInv /\ rewound = {} => NoDoubleFire
    <2> SUFFICES ASSUME IInv, rewound = {}, NEW s \in Schedules,
                        NEW i \in DOMAIN fired[s], NEW j \in DOMAIN fired[s], i # j
                 PROVE  fired[s][i] # fired[s][j]
      BY DEF NoDoubleFire
    <2>1. i \in Int /\ j \in Int /\ fired[s][i] \in Int /\ fired[s][j] \in Int
      BY Numbers DEF IInv
    <2>2. /\ i < j => fired[s][i] < fired[s][j]
          /\ j < i => fired[s][j] < fired[s][i]
      BY DEF IInv, FiresForward
    <2>3. QED
      BY <2>1, <2>2
  <1>4. QED
    BY <1>1, <1>2, <1>3, InitIInv, StepIInv, PTL DEF Spec

=============================================================================
