------------------------- MODULE UniqueTasks_proofs -------------------------
(***************************************************************************)
(* Proofs about UniqueTasks: one active row per key, and what the answers   *)
(* of an enqueue mean, and that its rounds implement UniqueWork, for any   *)
(* number of calls, keys and pruners.                                       *)
(***************************************************************************)
EXTENDS UniqueTasksRefinement, TLAPS

Live(st) == st \in {"READY", "RUNNING"}

(* ------------------------------ types --------------------------------- *)

LEMMA ObserveType ==
  ASSUME TypeOK, Observe(status')
  PROVE  freed' \in [Calls -> 0..2] /\ seen' \in [Calls -> SUBSET Calls]
<1>1. \A n \in 0..2 : n < 2 => n + 1 \in 0..2
  OBVIOUS
<1> QED
  BY <1>1 DEF Observe, TypeOK

LEMMA SetStatusType ==
  ASSUME TypeOK, NEW c \in Calls, NEW st \in Statuses, SetStatus(c, st)
  PROVE  /\ status' \in [Calls -> Statuses]
         /\ freed' \in [Calls -> 0..2] /\ seen' \in [Calls -> SUBSET Calls]
<1>1. status' \in [Calls -> Statuses]
  BY DEF SetStatus, TypeOK
<1> QED
  BY <1>1, ObserveType DEF SetStatus

LEMMA CallTypeStep ==
  ASSUME TypeOK, NEW c \in Calls,
         \/ Begin(c) \/ Insert(c) \/ InsertFails(c) \/ Conflict(c)
         \/ \E d \in Calls : FindExisting(c, d)
         \/ FindNone(c)
  PROVE  TypeOK'
<1>1. CASE Insert(c)
  BY <1>1, SetStatusType DEF Insert, TypeOK, Statuses
<1>2. CASE FindNone(c)
  BY <1>2 DEF FindNone, TypeOK
<1>3. CASE Begin(c) \/ InsertFails(c) \/ Conflict(c) \/ \E d \in Calls : FindExisting(c, d)
  BY <1>3 DEF Begin, InsertFails, Conflict, FindExisting, TypeOK
<1> QED
  BY <1>1, <1>2, <1>3

LEMMA RowTypeStep ==
  ASSUME TypeOK, NEW c \in Calls,
         \/ Claim(c) \/ (\E st \in {"SUCCESSFUL", "FAILED"} : Finish(c, st))
         \/ HandBack(c) \/ Requeue(c) \/ Age(c)
  PROVE  TypeOK'
<1>1. CASE Claim(c) \/ (\E st \in {"SUCCESSFUL", "FAILED"} : Finish(c, st)) \/ HandBack(c)
  BY <1>1, SetStatusType DEF Claim, Finish, HandBack, TypeOK, Statuses
<1>2. CASE Requeue(c)
  <2>1. requeues' \in [Calls -> 0..MaxRequeues]
    BY <1>2, UniqueAssumption DEF Requeue, TypeOK
  <2> QED
    BY <1>2, <2>1, SetStatusType DEF Requeue, TypeOK, Statuses
<1>3. CASE Age(c)
  BY <1>3 DEF Age, TypeOK
<1> QED
  BY <1>1, <1>2, <1>3

LEMMA PruneTypeStep ==
  ASSUME TypeOK, NEW p \in Pruners, (\E S \in SUBSET Calls : Select(p, S)) \/ Delete(p)
  PROVE  TypeOK'
<1>1. CASE \E S \in SUBSET Calls : Select(p, S)
  BY <1>1 DEF Select, TypeOK
<1>2. CASE Delete(p)
  <2> QED
    BY <1>2, ObserveType DEF Delete, TypeOK, Statuses
<1> QED
  BY <1>1, <1>2

LEMMA TypeStep == TypeOK /\ [Next]_vars => TypeOK'
<1>1. ASSUME TypeOK, Next
      PROVE  TypeOK'
  BY <1>1, CallTypeStep, RowTypeStep, PruneTypeStep DEF Next
<1>2. ASSUME TypeOK, UNCHANGED vars
      PROVE  TypeOK'
  BY <1>2 DEF vars, TypeOK
<1> QED
  BY <1>1, <1>2

LEMMA InitType == Init => TypeOK
  BY UniqueAssumption DEF Init, TypeOK, Statuses

\* Every row, call and pruner keeps its type; above all no call begins a third
\* round.
THEOREM UniqueTypeCorrect == Spec => []TypeOK
  BY InitType, TypeStep, PTL DEF Spec

(* ------------------------ one active row per key ---------------------- *)

\* A row becomes active only where nothing else of its key is.
ActivatesAlone ==
  \A c \in Calls :
    ~Live(status[c]) /\ Live(status'[c]) =>
      \A d \in Calls \ {c} : /\ status'[d] = status[d]
                             /\ SameKey(c, d) => ~Live(status[d])

LEMMA StepActivatesAlone == TypeOK /\ [Next]_vars => ActivatesAlone
<1> SUFFICES ASSUME TypeOK, [Next]_vars
             PROVE  ActivatesAlone
  OBVIOUS
<1>1. ASSUME NEW c \in Calls, NEW st, status' = [status EXCEPT ![c] = st],
             Live(status[c]) \/ ~Live(st) \/ Conflicts(c) = {}
      PROVE  ActivatesAlone
  BY <1>1 DEF ActivatesAlone, Live, Conflicts, Active, TypeOK
<1>2. CASE UNCHANGED status
  BY <1>2 DEF ActivatesAlone
<1>3. ASSUME NEW c \in Calls,
             \/ Begin(c) \/ InsertFails(c) \/ Conflict(c)
             \/ (\E d \in Calls : FindExisting(c, d)) \/ FindNone(c) \/ Age(c)
      PROVE  ActivatesAlone
  BY <1>2, <1>3 DEF Begin, InsertFails, Conflict, FindExisting, FindNone, Age
<1>4. ASSUME NEW c \in Calls,
             \/ Insert(c) \/ Claim(c) \/ (\E st \in {"SUCCESSFUL", "FAILED"} : Finish(c, st))
             \/ HandBack(c) \/ Requeue(c)
      PROVE  ActivatesAlone
  <2>1. CASE Insert(c) \/ Requeue(c)
    BY <1>1, <2>1 DEF Insert, Requeue, SetStatus
  <2>2. CASE Claim(c) \/ HandBack(c)
    BY <1>1, <2>2 DEF Claim, HandBack, SetStatus, Live
  <2>3. ASSUME NEW st \in {"SUCCESSFUL", "FAILED"}, Finish(c, st)
        PROVE  ActivatesAlone
    BY <1>1, <2>3 DEF Finish, SetStatus, Live
  <2> QED
    BY <1>4, <2>1, <2>2, <2>3
<1>5. ASSUME NEW p \in Pruners, (\E S \in SUBSET Calls : Select(p, S)) \/ Delete(p)
      PROVE  ActivatesAlone
  <2>1. \A c \in Calls : status'[c] = status[c] \/ status'[c] = "pruned"
    BY <1>5 DEF Select, Delete
  <2> QED
    BY <2>1 DEF ActivatesAlone, Live
<1> QED
  BY <1>2, <1>3, <1>4, <1>5 DEF Next, vars

LEMMA OneActiveStep ==
  ASSUME OneActivePerKey, ActivatesAlone
  PROVE  OneActivePerKey'
<1> SUFFICES ASSUME NEW c \in Calls, NEW d \in Calls, c # d, SameKey(c, d),
                    Live(status'[c]), Live(status'[d])
             PROVE  FALSE
  BY DEF OneActivePerKey, Live, SameKey
<1>1. SameKey(d, c)
  BY DEF SameKey
<1>2. CASE ~Live(status[c])
  BY <1>2 DEF ActivatesAlone
<1>3. CASE ~Live(status[d])
  BY <1>1, <1>3 DEF ActivatesAlone
<1>4. CASE Live(status[c]) /\ Live(status[d])
  BY <1>4 DEF OneActivePerKey, Live
<1> QED
  BY <1>2, <1>3, <1>4

\* However enqueues, requeues, retries and prunes interleave, the partial unique
\* constraint leaves one READY or RUNNING row per unique_key.
THEOREM KeysStayUnique == Spec => []OneActivePerKey
<1>1. Init => OneActivePerKey
  BY DEF Init, OneActivePerKey
<1>2. TypeOK /\ OneActivePerKey /\ [Next]_vars => OneActivePerKey'
  BY StepActivatesAlone, OneActiveStep
<1> QED
  BY <1>1, <1>2, UniqueTypeCorrect, PTL DEF Spec

(* ---------------------- what an answer stands for --------------------- *)

\* A call under way has seen every row that is active.
LiveIsSeen ==
  \A c, d \in Calls : Running(c) /\ Live(status[d]) => d \in seen[c]

AnswerInv == LiveIsSeen /\ AnswerWasActive

\* What the history records when the rows change.
LEMMA ObserveSees ==
  ASSUME TypeOK, Observe(status')
  PROVE  /\ \A c \in Calls : seen[c] \subseteq seen'[c]
         /\ \A c, d \in Calls : Running(c) /\ Live(status'[d]) => d \in seen'[c]
  BY DEF Observe, TypeOK, Live

LEMMA KeepsAnswers ==
  ASSUME AnswerInv, TypeOK, Observe(status'),
         \A c \in Calls : Running(c)' => Running(c),
         \A c \in Calls : pc'[c] = "existing" => pc[c] = "existing" /\ result'[c] = result[c]
  PROVE  AnswerInv'
  BY ObserveSees DEF AnswerInv, LiveIsSeen, AnswerWasActive, Running, Live, SameKey

LEMMA AnswerStep == AnswerInv /\ TypeOK /\ [Next]_vars => AnswerInv'
<1> SUFFICES ASSUME AnswerInv, TypeOK, [Next]_vars
             PROVE  AnswerInv'
  OBVIOUS
<1>1. ASSUME NEW c \in Calls, Begin(c)
      PROVE  AnswerInv'
  BY <1>1 DEF AnswerInv, LiveIsSeen, AnswerWasActive, Running, Live, SameKey, Begin, TypeOK
<1>2. ASSUME NEW c \in Calls, Insert(c)
      PROVE  AnswerInv'
  BY <1>2, KeepsAnswers DEF Insert, SetStatus, Running, TypeOK
<1>3. ASSUME NEW c \in Calls, InsertFails(c) \/ Conflict(c) \/ FindNone(c)
      PROVE  AnswerInv'
  BY <1>3 DEF AnswerInv, LiveIsSeen, AnswerWasActive, Running, Live, SameKey,
              InsertFails, Conflict, FindNone, TypeOK
<1>4. ASSUME NEW c \in Calls, NEW d \in Calls, FindExisting(c, d)
      PROVE  AnswerInv'
  <2>1. d \in seen[c] /\ SameKey(c, d)
    BY <1>4 DEF AnswerInv, LiveIsSeen, FindExisting, Found, Running, Live
  <2> QED
    BY <1>4, <2>1 DEF AnswerInv, LiveIsSeen, AnswerWasActive, Running, Live, SameKey,
                      FindExisting, TypeOK
<1>5. ASSUME NEW c \in Calls,
             \/ Claim(c) \/ (\E st \in {"SUCCESSFUL", "FAILED"} : Finish(c, st))
             \/ HandBack(c) \/ Requeue(c)
      PROVE  AnswerInv'
  BY <1>5, KeepsAnswers DEF Claim, Finish, HandBack, Requeue, SetStatus, Running
<1>6. ASSUME NEW p \in Pruners, Delete(p)
      PROVE  AnswerInv'
  BY <1>6, KeepsAnswers DEF Delete, Running
<1>7. CASE \/ \E c \in Calls : Age(c)
           \/ \E p \in Pruners : \E S \in SUBSET Calls : Select(p, S)
           \/ UNCHANGED vars
  BY <1>7 DEF AnswerInv, LiveIsSeen, AnswerWasActive, Running, Live, SameKey, Age, Select, vars
<1> QED
  BY <1>1, <1>2, <1>3, <1>4, <1>5, <1>6, <1>7 DEF Next

\* A call is only ever merged into a row of its key that was READY or RUNNING
\* during the call.
THEOREM AnswersAreCurrent == Spec => []AnswerWasActive
<1>1. Init => AnswerInv
  BY DEF Init, AnswerInv, LiveIsSeen, AnswerWasActive, Running
<1>2. AnswerInv => AnswerWasActive
  BY DEF AnswerInv
<1> QED
  BY <1>1, <1>2, AnswerStep, UniqueTypeCorrect, PTL DEF Spec

(* ------------------------ giving up, pruning -------------------------- *)

\* A finish seen by a call in its current round or, between the rounds, a row
\* that still conflicts.
RoundIsPaid(c) ==
  /\ pc[c] = "inserting" => freed[c] + 1 >= round[c]
  /\ pc[c] = "looking" => /\ freed[c] + 1 >= round[c]
                          /\ Found(c) # {} \/ freed[c] >= round[c]
  /\ pc[c] = "raised" => freed[c] >= 2

RoundsArePaid == \A c \in Calls : RoundIsPaid(c)

\* A call whose key loses its last active row has counted a finish.
LEMMA ObserveCounts ==
  ASSUME TypeOK, Observe(status'), NEW c \in Calls
  PROVE  /\ freed'[c] >= freed[c]
         /\ Running(c) /\ Found(c) # {} /\ Found(c)' = {} =>
              freed'[c] = 2 \/ freed'[c] = freed[c] + 1
<1>1. freed[c] \in 0..2
  BY DEF TypeOK
<1>2. ASSUME Running(c), Found(c) # {}, Found(c)' = {}
      PROVE  \E d \in Calls : /\ SameKey(c, d) /\ status[d] \in {"READY", "RUNNING"}
                              /\ status'[d] \notin {"READY", "RUNNING"}
  BY <1>2 DEF Found, SameKey
<1> QED
  BY <1>1, <1>2 DEF Observe

LEMMA KeepsRounds ==
  ASSUME RoundsArePaid, TypeOK, Observe(status'),
         NEW c \in Calls,
         (pc'[c] = pc[c] /\ round'[c] = round[c]) \/ pc'[c] = "created"
  PROVE  RoundIsPaid(c)'
<1>1. freed[c] \in 0..2 /\ freed'[c] \in 0..2 /\ round[c] \in 0..2
  BY ObserveType DEF TypeOK
<1> QED
  BY <1>1, ObserveCounts DEF RoundsArePaid, RoundIsPaid, Running

LEMMA RoundsStep == RoundsArePaid /\ TypeOK /\ [Next]_vars => RoundsArePaid'
<1> SUFFICES ASSUME RoundsArePaid, TypeOK, [Next]_vars, NEW c \in Calls
             PROVE  RoundIsPaid(c)'
  BY DEF RoundsArePaid
<1>1. freed[c] \in 0..2 /\ round[c] \in 0..2
  BY DEF TypeOK
<1>2. RoundIsPaid(c)
  BY DEF RoundsArePaid
<1>3. ASSUME NEW d \in Calls, Begin(d) \/ InsertFails(d)
      PROVE  RoundIsPaid(c)'
  BY <1>1, <1>2, <1>3 DEF RoundIsPaid, Found, SameKey, Begin, InsertFails, TypeOK
<1>4. ASSUME NEW d \in Calls, Conflict(d)
      PROVE  RoundIsPaid(c)'
  <2>1. Conflicts(d) \subseteq Found(d)
    BY DEF Conflicts, Found, Active
  <2> QED
    BY <1>1, <1>2, <1>4, <2>1 DEF RoundIsPaid, Found, SameKey, Conflict, TypeOK
<1>5. ASSUME NEW d \in Calls, FindNone(d) \/ \E e \in Calls : FindExisting(d, e)
      PROVE  RoundIsPaid(c)'
  BY <1>1, <1>2, <1>5 DEF RoundIsPaid, Found, SameKey, FindNone, FindExisting, TypeOK
<1>6. ASSUME NEW d \in Calls,
             \/ Insert(d) \/ Claim(d) \/ (\E st \in {"SUCCESSFUL", "FAILED"} : Finish(d, st))
             \/ HandBack(d) \/ Requeue(d)
      PROVE  RoundIsPaid(c)'
  BY <1>6, KeepsRounds DEF Insert, Claim, Finish, HandBack, Requeue, SetStatus, TypeOK
<1>7. ASSUME NEW p \in Pruners, Delete(p)
      PROVE  RoundIsPaid(c)'
  BY <1>7, KeepsRounds DEF Delete
<1>8. CASE \/ \E d \in Calls : Age(d)
           \/ \E p \in Pruners : \E S \in SUBSET Calls : Select(p, S)
           \/ UNCHANGED vars
  BY <1>2, <1>8 DEF RoundIsPaid, Found, SameKey, Age, Select, vars
<1> QED
  BY <1>3, <1>4, <1>5, <1>6, <1>7, <1>8 DEF Next

\* An enqueue raises the IntegrityError only after its key became free twice
\* during the call.
THEOREM GivesUpForAReason == Spec => []GivesUpAfterTwoFinishes
<1>1. Init => RoundsArePaid
  BY DEF Init, RoundsArePaid, RoundIsPaid
<1>2. RoundsArePaid => GivesUpAfterTwoFinishes
  BY DEF RoundsArePaid, RoundIsPaid, GivesUpAfterTwoFinishes
<1> QED
  BY <1>1, <1>2, RoundsStep, UniqueTypeCorrect, PTL DEF Spec

(* --------------------------- pruning batches -------------------------- *)

\* A row that was never requeued is finished, or deleted, when a batch holds
\* it, and has not been written before its call.
BatchIsFinished ==
  /\ \A p \in Pruners : \A c \in selected[p] :
       /\ requeues[c] > 0 \/ status[c] \in {"SUCCESSFUL", "FAILED", "pruned"}
       /\ status[c] # "absent"
  /\ \A c \in Calls : pc[c] # "created" => status[c] = "absent"

\* What a step may do to a row: nothing comes back to life but by requeue.
RowMoves ==
  \A c \in Calls :
    /\ requeues'[c] >= requeues[c]
    /\ status[c] # "absent" => status'[c] # "absent"
    /\ \/ status'[c] = status[c] \/ status'[c] \in {"SUCCESSFUL", "FAILED", "pruned"}
       \/ status[c] \in {"READY", "RUNNING"} \/ requeues'[c] > 0
       \/ status[c] = "absent"
    /\ pc[c] = "created" => pc'[c] = "created"
    /\ pc[c] # "created" /\ status[c] = "absent" => pc'[c] = "created" \/ status'[c] = "absent"

LEMMA StepMovesRows == BatchIsFinished /\ TypeOK /\ [Next]_vars => RowMoves
<1> SUFFICES ASSUME BatchIsFinished, TypeOK, [Next]_vars
             PROVE  RowMoves
  OBVIOUS
<1>1. \A c \in Calls : requeues[c] \in Nat
  BY UniqueAssumption DEF TypeOK
<1>2. ASSUME NEW c \in Calls,
             \/ Begin(c) \/ Insert(c) \/ InsertFails(c) \/ Conflict(c)
             \/ (\E d \in Calls : FindExisting(c, d)) \/ FindNone(c)
      PROVE  RowMoves
  BY <1>1, <1>2 DEF RowMoves, BatchIsFinished, TypeOK, SetStatus,
     Begin, Insert, InsertFails, Conflict, FindExisting, FindNone
<1>3. ASSUME NEW c \in Calls,
             \/ Claim(c) \/ (\E st \in {"SUCCESSFUL", "FAILED"} : Finish(c, st))
             \/ HandBack(c) \/ Requeue(c) \/ Age(c)
      PROVE  RowMoves
  BY <1>1, <1>3 DEF RowMoves, BatchIsFinished, TypeOK, SetStatus,
     Claim, Finish, HandBack, Requeue, Age
<1>4. ASSUME NEW p \in Pruners, (\E S \in SUBSET Calls : Select(p, S)) \/ Delete(p)
      PROVE  RowMoves
  BY <1>1, <1>4 DEF RowMoves, BatchIsFinished, TypeOK, Select, Delete
<1>5. CASE UNCHANGED vars
  BY <1>1, <1>5 DEF RowMoves, vars
<1> QED
  BY <1>2, <1>3, <1>4, <1>5 DEF Next

LEMMA BatchStep == BatchIsFinished /\ TypeOK /\ [Next]_vars => BatchIsFinished'
<1> SUFFICES ASSUME BatchIsFinished, TypeOK, [Next]_vars
             PROVE  BatchIsFinished'
  OBVIOUS
<1>1. RowMoves
  BY StepMovesRows
<1>2. \A c \in Calls : requeues[c] \in Nat /\ requeues'[c] \in Nat
  BY TypeStep, UniqueAssumption DEF TypeOK
<1>3. ASSUME NEW p \in Pruners, NEW S \in SUBSET Calls, Select(p, S)
      PROVE  BatchIsFinished'
  <2>1. \A q \in Pruners : selected'[q] = selected[q] \/ selected'[q] \subseteq Prunable
    BY <1>3 DEF Select, TypeOK
  <2> QED
    BY <1>3, <2>1 DEF Select, BatchIsFinished, Prunable
<1>4. ASSUME \A p \in Pruners : selected'[p] \subseteq selected[p]
      PROVE  BatchIsFinished'
  <2>1. \A p \in Pruners : selected[p] \subseteq Calls
    BY DEF TypeOK
  <2>2. ASSUME NEW p \in Pruners, NEW c \in selected[p]
        PROVE  /\ requeues'[c] > 0 \/ status'[c] \in {"SUCCESSFUL", "FAILED", "pruned"}
               /\ status'[c] # "absent"
    BY <1>1, <1>2, <2>1, <2>2 DEF RowMoves, BatchIsFinished
  <2> QED
    BY <1>1, <1>4, <2>2 DEF RowMoves, BatchIsFinished
<1>5. CASE UNCHANGED selected
  BY <1>4, <1>5
<1>6. ASSUME NEW p \in Pruners, Delete(p)
      PROVE  BatchIsFinished'
  BY <1>4, <1>6 DEF Delete, TypeOK
<1>7. CASE \E c \in Calls :
             \/ Begin(c) \/ Insert(c) \/ InsertFails(c) \/ Conflict(c)
             \/ (\E d \in Calls : FindExisting(c, d)) \/ FindNone(c)
             \/ Claim(c) \/ (\E st \in {"SUCCESSFUL", "FAILED"} : Finish(c, st))
             \/ HandBack(c) \/ Requeue(c) \/ Age(c)
  BY <1>5, <1>7 DEF Begin, Insert, InsertFails, Conflict, FindExisting, FindNone,
     Claim, Finish, HandBack, Requeue, Age
<1> QED
  BY <1>3, <1>5, <1>6, <1>7 DEF Next, vars

\* A batch deletes a READY or RUNNING row only after a requeue.
THEOREM OnlyRequeuedArePruned == Spec => ActivePrunedOnlyIfRequeued
<1> DEFINE Kept == \A c \in Calls :
             status[c] \in {"READY", "RUNNING"} /\ status'[c] = "pruned" => requeues[c] > 0
<1>1. Init => BatchIsFinished
  BY DEF Init, BatchIsFinished
<1>2. ASSUME BatchIsFinished, TypeOK, Next
      PROVE  Kept
  <2> SUFFICES ASSUME NEW c \in Calls, status[c] \in {"READY", "RUNNING"}, status'[c] = "pruned"
               PROVE  requeues[c] > 0
    OBVIOUS
  <2>1. PICK p \in Pruners : Delete(p)
    BY <1>2 DEF Next, Begin, Insert, InsertFails, Conflict, FindExisting, FindNone,
       Claim, Finish, HandBack, Requeue, Age, Select, TypeOK, SetStatus
  <2> QED
    BY <1>2, <2>1 DEF Delete, BatchIsFinished
<1>3. BatchIsFinished /\ TypeOK /\ [Next]_vars => [Kept]_vars
  BY <1>2
<1> QED
  BY <1>1, <1>3, BatchStep, UniqueTypeCorrect, PTL DEF Spec, ActivePrunedOnlyIfRequeued

\* As long as nobody requeues, "READY and RUNNING rows are never touched" is
\* true of pruning, for all its two statements and however rows finish between.
THEOREM ActiveRowsSurviveWithoutRequeues ==
  ASSUME MaxRequeues = 0
  PROVE  Spec => ActiveNeverPruned
<1> DEFINE Kept == \A c \in Calls :
             status[c] \in {"READY", "RUNNING"} /\ status'[c] = "pruned" => requeues[c] > 0
<1> DEFINE Survives == \A c \in Calls :
             status[c] \in {"READY", "RUNNING"} => status'[c] # "pruned"
<1>1. TypeOK /\ [Kept]_vars => [Survives]_vars
  <2> SUFFICES ASSUME TypeOK, Kept
               PROVE  Survives
    OBVIOUS
  <2>1. \A c \in Calls : requeues[c] = 0
    BY DEF TypeOK
  <2> QED
    BY <2>1
<1> QED
  BY <1>1, OnlyRequeuedArePruned, UniqueTypeCorrect, PTL
     DEF ActivePrunedOnlyIfRequeued, ActiveNeverPruned

(* ------------------------ one step per answer ------------------------- *)

\* A row exists only for a call that created it, and such a call answered it.
RowsAreAnswers ==
  \A c \in Calls : /\ pc[c] # "created" => status[c] = "absent"
                   /\ pc[c] = "created" => result[c] = c

LEMMA AnswersStay == RowsAreAnswers /\ BatchIsFinished' /\ TypeOK /\ [Next]_vars => RowsAreAnswers'
<1> SUFFICES ASSUME RowsAreAnswers, BatchIsFinished', TypeOK, [Next]_vars,
                    NEW c \in Calls, pc'[c] = "created"
             PROVE  result'[c] = c
  BY DEF RowsAreAnswers, BatchIsFinished
<1>1. ASSUME NEW d \in Calls,
             \/ Begin(d) \/ Insert(d) \/ InsertFails(d) \/ Conflict(d)
             \/ (\E e \in Calls : FindExisting(d, e)) \/ FindNone(d)
      PROVE  result'[c] = c
  BY <1>1 DEF RowsAreAnswers, TypeOK, Begin, Insert, InsertFails, Conflict, FindExisting, FindNone
<1>2. CASE UNCHANGED <<pc, result>>
  BY <1>2 DEF RowsAreAnswers
<1> QED
  BY <1>1, <1>2 DEF Next, vars, Claim, Finish, HandBack, Requeue, Age, Select, Delete

LEMMA PhaseMoves ==
  ASSUME TypeOK, NEW c \in Calls, pc' = [pc EXCEPT ![c] = pc'[c]]
  PROVE  /\ phase[c] = PhaseOf[pc[c]]
         /\ phase' = [phase EXCEPT ![c] = PhaseOf[pc'[c]]]
  BY DEF phase, TypeOK

LEMMA Phases ==
  /\ PhaseOf["idle"] = "idle"
  /\ PhaseOf["inserting"] = "asking" /\ PhaseOf["looking"] = "asking"
  /\ PhaseOf["created"] = "answered" /\ PhaseOf["existing"] = "answered"
  /\ PhaseOf["raised"] = "refused" /\ PhaseOf["broken"] = "refused"
  BY DEF PhaseOf

LEMMA OutstandingMoves ==
  ASSUME TypeOK, NEW c \in Calls, NEW st, status' = [status EXCEPT ![c] = st]
  PROVE  /\ Live(st) => outstanding' = outstanding \cup {c}
         /\ ~Live(st) => outstanding' = outstanding \ {c}
  BY DEF outstanding, Live, TypeOK

\* The constraint refuses, and the lookup finds, the rivals of UniqueWork.
LEMMA RivalsConflict ==
  ASSUME NEW c \in Calls
  PROVE  /\ Work!Rivals(c) = Conflicts(c)
         /\ Found(c) \ {c} = Work!Rivals(c)
  BY DEF Work!Rivals, Conflicts, Found, SameKey, Active, outstanding

LEMMA CallRefines ==
  ASSUME RowsAreAnswers, TypeOK, NEW c \in Calls,
         \/ Begin(c) \/ Insert(c) \/ InsertFails(c) \/ Conflict(c)
         \/ (\E d \in Calls : FindExisting(c, d)) \/ FindNone(c)
  PROVE  [Work!Next]_(Work!vars)
<1>1. ASSUME UNCHANGED status
      PROVE  UNCHANGED outstanding
  BY <1>1 DEF outstanding
<1>2. CASE Begin(c)
  <2>1. phase[c] = "idle" /\ phase' = [phase EXCEPT ![c] = "asking"]
    <3>1. pc[c] = "idle" /\ pc'[c] = "inserting" /\ pc' = [pc EXCEPT ![c] = pc'[c]]
      BY <1>2 DEF TypeOK, Begin
    <3> QED
      BY <3>1, PhaseMoves, Phases
  <2>2. Work!Ask(c)
    BY <1>1, <1>2, <2>1 DEF Begin, Work!Ask
  <2> QED
    BY <2>2 DEF Work!Next
<1>3. CASE Insert(c)
  <2>1. phase[c] = "asking" /\ phase' = [phase EXCEPT ![c] = "answered"]
    <3>1. pc[c] = "inserting" /\ pc'[c] = "created" /\ pc' = [pc EXCEPT ![c] = pc'[c]]
      BY <1>3 DEF TypeOK, Insert
    <3> QED
      BY <3>1, PhaseMoves, Phases
  <2>2. c \notin outstanding
    BY <1>3 DEF Insert, RowsAreAnswers, outstanding
  <2>3. outstanding' = outstanding \cup {c}
    BY <1>3, OutstandingMoves DEF Insert, SetStatus, Live
  <2>4. Work!Create(c)
    BY <1>3, <2>1, <2>2, <2>3, RivalsConflict DEF Insert, Work!Create, Work!Answer
  <2> QED
    BY <2>4 DEF Work!Next
<1>4. ASSUME NEW d \in Calls, FindExisting(c, d)
      PROVE  [Work!Next]_(Work!vars)
  <2>1. phase[c] = "asking" /\ phase' = [phase EXCEPT ![c] = "answered"]
    <3>1. pc[c] = "looking" /\ pc'[c] = "existing" /\ pc' = [pc EXCEPT ![c] = pc'[c]]
      BY <1>4 DEF TypeOK, FindExisting
    <3> QED
      BY <3>1, PhaseMoves, Phases
  <2>2. status[c] = "absent"
    BY <1>4 DEF FindExisting, RowsAreAnswers
  <2>3. d \in Work!Rivals(c)
    BY <1>4, <2>2, RivalsConflict DEF FindExisting, Found
  <2>4. Work!Merge(c, d)
    BY <1>1, <1>4, <2>1, <2>3 DEF FindExisting, Work!Merge, Work!Answer
  <2> QED
    BY <2>4 DEF Work!Next
<1>5. CASE InsertFails(c) \/ (FindNone(c) /\ pc' = [pc EXCEPT ![c] = "raised"])
  <2>1. phase[c] = "asking" /\ phase' = [phase EXCEPT ![c] = "refused"]
    <3>1. /\ pc[c] \in {"inserting", "looking"} /\ pc'[c] \in {"raised", "broken"}
          /\ pc' = [pc EXCEPT ![c] = pc'[c]]
      BY <1>5 DEF TypeOK, InsertFails, FindNone
    <3> QED
      BY <3>1, PhaseMoves, Phases
  <2>2. Work!Refuse(c)
    BY <1>1, <1>5, <2>1 DEF InsertFails, FindNone, Work!Refuse
  <2> QED
    BY <2>2 DEF Work!Next
<1>6. CASE Conflict(c) \/ (FindNone(c) /\ pc' = [pc EXCEPT ![c] = "inserting"])
  <2>1. phase[c] = "asking" /\ phase' = [phase EXCEPT ![c] = "asking"]
    <3>1. /\ pc[c] \in {"inserting", "looking"} /\ pc'[c] \in {"inserting", "looking"}
          /\ pc' = [pc EXCEPT ![c] = pc'[c]]
      BY <1>6 DEF TypeOK, Conflict, FindNone
    <3> QED
      BY <3>1, PhaseMoves, Phases
  <2>2. UNCHANGED <<phase, result, outstanding>>
    BY <1>1, <1>6, <2>1 DEF Conflict, FindNone, phase
  <2> QED
    BY <2>2 DEF Work!vars
<1> QED
  BY <1>2, <1>3, <1>4, <1>5, <1>6 DEF FindNone

LEMMA RowRefines ==
  ASSUME RowsAreAnswers, TypeOK, NEW c \in Calls,
         \/ Claim(c) \/ (\E st \in {"SUCCESSFUL", "FAILED"} : Finish(c, st))
         \/ HandBack(c) \/ Requeue(c) \/ Age(c)
  PROVE  [Work!Next]_(Work!vars)
<1>1. UNCHANGED <<phase, result>>
  BY DEF Claim, Finish, HandBack, Requeue, Age, phase
<1>2. CASE Claim(c) \/ HandBack(c)
  <2>1. c \in outstanding
    BY <1>2 DEF Claim, HandBack, outstanding
  <2>2. outstanding' = outstanding \cup {c}
    BY <1>2, OutstandingMoves DEF Claim, HandBack, SetStatus, Live
  <2> QED
    BY <1>1, <2>1, <2>2 DEF Work!vars
<1>3. CASE \E st \in {"SUCCESSFUL", "FAILED"} : Finish(c, st)
  <2>1. c \in outstanding
    BY <1>3 DEF Finish, outstanding
  <2>2. outstanding' = outstanding \ {c}
    BY <1>3, OutstandingMoves DEF Finish, SetStatus, Live
  <2>3. {c} \in SUBSET Calls /\ Work!Complete({c})
    BY <1>1, <2>1, <2>2 DEF Work!Complete
  <2> QED
    BY <2>3 DEF Work!Next
<1>4. CASE Requeue(c)
  <2>1. pc[c] = "created" /\ result[c] = c /\ c \notin outstanding
    BY <1>4 DEF Requeue, RowsAreAnswers, outstanding
  <2>2. phase[c] = "answered"
    BY <2>1, Phases DEF phase
  <2>3. outstanding' = outstanding \cup {c}
    BY <1>4, OutstandingMoves DEF Requeue, SetStatus, Live
  <2>4. Work!Repeat(c)
    BY <1>1, <1>4, <2>1, <2>2, <2>3, RivalsConflict DEF Requeue, Work!Repeat
  <2> QED
    BY <2>4 DEF Work!Next
<1>5. CASE Age(c)
  BY <1>1, <1>5 DEF Age, outstanding, Work!vars
<1> QED
  BY <1>2, <1>3, <1>4, <1>5

LEMMA PruneRefines ==
  ASSUME TypeOK, NEW p \in Pruners,
         (\E S \in SUBSET Calls : Select(p, S)) \/ Delete(p)
  PROVE  [Work!Next]_(Work!vars)
<1>1. UNCHANGED <<phase, result>>
  BY DEF Select, Delete, phase
<1>2. CASE \E S \in SUBSET Calls : Select(p, S)
  BY <1>1, <1>2 DEF Select, outstanding, Work!vars
<1>3. CASE Delete(p)
  <2> DEFINE gone == outstanding \cap selected[p]
  <2>1. outstanding' = outstanding \ gone
    BY <1>3 DEF Delete, outstanding, TypeOK
  <2>2. CASE gone = {}
    BY <1>1, <2>1, <2>2 DEF Work!vars
  <2>3. CASE gone # {}
    <3>1. gone \in SUBSET Calls
      BY DEF outstanding
    <3>2. Work!Complete(gone)
      BY <1>1, <2>1, <2>3 DEF Work!Complete
    <3> QED
      BY <3>1, <3>2 DEF Work!Next
  <2> QED
    BY <2>2, <2>3
<1> QED
  BY <1>2, <1>3

\* Whatever rounds, lookups, requeues and prunes interleave, each enqueue is
\* answered as if it had looked for work of its key and created it in one step.
THEOREM EnqueueIsOneStep == Spec => ImplementsUniqueWork
<1>1. Init => RowsAreAnswers /\ BatchIsFinished
  BY DEF Init, RowsAreAnswers, BatchIsFinished
<1>2. Init => Work!Init
  <2> SUFFICES ASSUME Init
               PROVE  Work!Init
    OBVIOUS
  <2>1. phase = [c \in Calls |-> "idle"]
    BY Phases DEF Init, phase
  <2>2. outstanding = {}
    BY DEF Init, outstanding
  <2> QED
    BY <2>1, <2>2 DEF Init, Work!Init
<1>3. RowsAreAnswers /\ TypeOK /\ [Next]_vars => [Work!Next]_(Work!vars)
  <2> SUFFICES ASSUME RowsAreAnswers, TypeOK, [Next]_vars
               PROVE  [Work!Next]_(Work!vars)
    OBVIOUS
  <2>1. CASE UNCHANGED vars
    BY <2>1 DEF vars, phase, outstanding, Work!vars
  <2> QED
    BY <2>1, CallRefines, RowRefines, PruneRefines DEF Next
<1> QED
  BY <1>1, <1>2, <1>3, AnswersStay, BatchStep, UniqueTypeCorrect, PTL
     DEF Spec, ImplementsUniqueWork, Work!Spec

=============================================================================
