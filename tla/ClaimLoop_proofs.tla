-------------------------- MODULE ClaimLoop_proofs --------------------------
(***************************************************************************)
(* Proofs about ClaimLoop: its workers claim and release as RateLimit says,  *)
(* so that the limits are kept, and no wakeup is lost.                       *)
(***************************************************************************)
EXTENDS ClaimLoop, RateLimit_proofs

(* ------------------- the loop implements RateLimit -------------------- *)

LEMMA CapacityType ==
  ASSUME NEW w \in Workers
  PROVE  AvailableCapacity(w) \in Int
<1>1. Inflight(w) \subseteq Jobs
  BY DEF Inflight, Owned
<1>2. Cardinality(Inflight(w)) \in Nat
  BY <1>1, JobsAssumption, FS_Subset, FS_CardinalityType
<1> QED
  BY <1>2, LoopAssumption DEF AvailableCapacity

LEMMA LimitFits ==
  ASSUME NEW w \in Workers, AvailableCapacity(w) > 0
  PROVE  Least(AvailableCapacity(w), ClaimBatchSize) \in 1..MaxLimit
  BY CapacityType, LoopAssumption, BoundAssumption DEF Least

LEMMA PassClaims ==
  ASSUME NEW w \in Workers, ClaimOrWait(w)
  PROVE  [Next]_vars
<1>1. CASE AvailableCapacity(w) > 0 /\ BeginClaim(w, Least(AvailableCapacity(w), ClaimBatchSize))
  BY <1>1, LimitFits DEF Next, ClaimStep
<1>2. CASE UNCHANGED vars
  BY <1>2
<1> QED
  BY <1>1, <1>2 DEF ClaimOrWait

LEMMA StepClaims ==
  ASSUME LoopNext
  PROVE  [Next]_vars
<1>1. ASSUME NEW w \in Workers, LoopStep(w)
      PROVE  [Next]_vars
  <2>1. CASE NextPass(w) \/ Wake(w) \/ TimeOut(w) \/ Relaunch(w)
    BY <2>1, PassClaims DEF NextPass, Wake, TimeOut, Relaunch
  <2>2. CASE LoopLockBucket(w) \/ ClaimNothing(w) \/ ClaimSkipped(w) \/ ClaimFails(w) \/ Crash(w)
    <3>1. ClaimStep(w)
      BY <2>2 DEF LoopLockBucket, ClaimNothing, ClaimSkipped, ClaimFails, Crash, ClaimStep
    <3> QED
      BY <3>1 DEF Next
  <2>3. CASE ClaimHeldBack(w)
    <3>1. {} \in SUBSET Jobs /\ CommitClaim(w, {})
      BY <2>3 DEF ClaimHeldBack
    <3> QED
      BY <3>1 DEF Next, ClaimStep
  <2>4. ASSUME NEW S \in SUBSET Jobs, ClaimSome(w, S)
        PROVE  [Next]_vars
    BY <2>4 DEF ClaimSome, Next, ClaimStep
  <2>5. ASSUME NEW j \in Jobs, HandBack(w, j) \/ HandBackFails(w, j) \/ StartLate(w, j)
        PROVE  [Next]_vars
    <3>1. RowStep(j) \/ UNCHANGED vars
      BY <2>5 DEF HandBack, HandBackFails, StartLate, RowStep
    <3> QED
      BY <3>1 DEF Next
  <2>6. CASE Rest(w)
    BY <2>6 DEF Rest
  <2> QED
    BY <1>1, <2>1, <2>2, <2>3, <2>4, <2>5, <2>6 DEF LoopStep
<1>2. ASSUME NEW w \in Workers, ListenerStep(w)
      PROVE  [Next]_vars
  BY <1>2 DEF ListenerStep, Connect, Listen, LoseConnection, NoticeLoss, Deliver
<1>3. ASSUME NEW j \in Jobs,
             RunEnds(j) \/ LoopEnqueue(j) \/ LoopCancel(j) \/ Unannounced(j)
      PROVE  [Next]_vars
  <2>1. RowStep(j)
    BY <1>3 DEF RunEnds, LoopEnqueue, LoopCancel, Unannounced, RowStep
  <2> QED
    BY <2>1 DEF Next
<1>4. CASE LoopTick
  BY <1>4 DEF LoopTick, Next
<1> QED
  BY <1>1, <1>2, <1>3, <1>4 DEF LoopNext

\* The claim loop, with its wakeups, waits and releases, claims and hands back
\* rows in no other way than RateLimit describes.
THEOREM LoopImplementsRateLimit == LoopSpec => Spec
<1>1. LoopInit => Init
  BY DEF LoopInit
<1>2. [LoopNext]_allVars => [Next]_vars
  <2>1. CASE LoopNext
    BY <2>1, StepClaims
  <2>2. CASE UNCHANGED allVars
    BY <2>2 DEF allVars
  <2> QED
    BY <2>1, <2>2
<1> QED
  BY <1>1, <1>2, PTL DEF LoopSpec, Spec

\* Workers that run the claim loop keep the limits of the path.
THEOREM LoopKeepsLimits == LoopSpec => [](TypeOK /\ ConcurrencyHeld /\ RateHeld)
  BY LoopImplementsRateLimit, LimitsAreKept, PTL

(* ------------------------- no lost wakeup ----------------------------- *)

\* A row counts as announced only while it is due.
AnnouncedAreDue == \A j \in announced : j \in Jobs /\ status[j] = "READY"

\* A claim is under way exactly while the loop awaits it.
ClaimsAwaited ==
  \A w \in Workers :
    /\ claim[w].stage # "none" <=> loop[w] = "claiming"
    /\ claim[w].stage # "none" => claim[w].limit > 0

\* Nothing has told this worker to look again.
Silent(w) == listen[w] = "listening" /\ ~wakeup[w] /\ ~notified[w]

\* A row that is announced while a claim cannot see it makes itself heard.
ClaimsSeeAnnounced ==
  \A w \in Workers :
    Silent(w) /\ loop[w] = "claiming" => announced \cap claim[w].late = {}

IdleMissNothing ==
  \A w \in Workers :
    Silent(w) /\ loop[w] = "idle" /\ ~hinted[w] /\ ~skipped[w] => announced = {}

LoopInv ==
  /\ LoopTypeOK /\ AnnouncedAreDue /\ ClaimsAwaited /\ ClaimsSeeAnnounced
  /\ IdleMissNothing

LEMMA LoopTypeStep ==
  ASSUME LoopTypeOK, TypeOK', [LoopNext]_allVars
  PROVE  LoopTypeOK'
<1>1. ASSUME NEW w \in Workers, ClaimOrWait(w)
      PROVE  LoopTypeOK'
  BY <1>1 DEF ClaimOrWait, LoopTypeOK, Waits
<1>2. ASSUME NEW w \in Workers, LoopStep(w)
      PROVE  LoopTypeOK'
  <2>1. CASE NextPass(w) \/ Wake(w) \/ TimeOut(w) \/ Relaunch(w)
    BY <2>1, <1>1 DEF NextPass, Wake, TimeOut, Relaunch
  <2>2. CASE LoopLockBucket(w)
    BY <2>2 DEF LoopLockBucket, loopVars, LoopTypeOK
  <2>3. CASE ClaimNothing(w)
    BY <2>3 DEF ClaimNothing, WaitForWork, LoopTypeOK, Waits
  <2>4. CASE ClaimSkipped(w)
    BY <2>4 DEF ClaimSkipped, WaitForWork, LoopTypeOK, Waits
  <2>5. CASE ClaimHeldBack(w)
    <3>1. WaitHint(w) \in BOOLEAN
      BY DEF WaitHint
    <3> QED
      BY <2>5, <3>1 DEF ClaimHeldBack, WaitForWork, LoopTypeOK, Waits
  <2>6. ASSUME NEW S \in SUBSET Jobs, ClaimSome(w, S)
        PROVE  LoopTypeOK'
    BY <2>6 DEF ClaimSome, LoopTypeOK, Waits
  <2>7. CASE ClaimFails(w) \/ Rest(w)
    BY <2>7 DEF ClaimFails, Rest, LoopTypeOK, Waits
  <2>8. ASSUME NEW j \in Jobs, HandBack(w, j) \/ HandBackFails(w, j) \/ StartLate(w, j)
        PROVE  LoopTypeOK'
    BY <2>8 DEF HandBack, HandBackFails, StartLate, Notify, LoopTypeOK
  <2>9. CASE Crash(w)
    BY <2>9 DEF Crash, LoopTypeOK, Waits
  <2> QED
    BY <1>2, <2>1, <2>2, <2>3, <2>4, <2>5, <2>6, <2>7, <2>8, <2>9 DEF LoopStep
<1>3. ASSUME NEW w \in Workers, ListenerStep(w)
      PROVE  LoopTypeOK'
  BY <1>3 DEF ListenerStep, Connect, Listen, LoseConnection, NoticeLoss, Deliver, LoopTypeOK
<1>4. ASSUME NEW j \in Jobs,
             RunEnds(j) \/ LoopEnqueue(j) \/ LoopCancel(j) \/ Unannounced(j)
      PROVE  LoopTypeOK'
  BY <1>4 DEF RunEnds, WakeOwner, LoopEnqueue, Notify, LoopCancel, Unannounced, loopVars,
              LoopTypeOK
<1>5. CASE LoopTick \/ UNCHANGED allVars
  BY <1>5 DEF LoopTick, allVars, loopVars, LoopTypeOK
<1> QED
  BY <1>2, <1>3, <1>4, <1>5 DEF LoopNext

Heard == AnnouncedAreDue /\ ClaimsAwaited /\ ClaimsSeeAnnounced /\ IdleMissNothing

\* A pass of the loop: the new claim sees every row announced so far.
LEMMA HeardByPass ==
  ASSUME LoopInv, NEW w \in Workers, loop[w] # "claiming", ClaimOrWait(w)
  PROVE  Heard'
<1>1. CASE UNCHANGED vars /\ loop' = [loop EXCEPT ![w] = "full"]
  <2>1. claim[w].stage = "none" /\ claim' = claim /\ status' = status
        /\ announced' = announced /\ listen' = listen /\ notified' = notified
    BY <1>1 DEF LoopInv, ClaimsAwaited, ClaimOrWait, vars, LoopTypeOK, TypeOK
  <2> QED
    BY <1>1, <2>1 DEF ClaimOrWait, LoopInv, LoopTypeOK, TypeOK, Heard, AnnouncedAreDue,
                      ClaimsAwaited, ClaimsSeeAnnounced, IdleMissNothing, Silent
<1>2. CASE /\ AvailableCapacity(w) > 0
           /\ BeginClaim(w, Least(AvailableCapacity(w), ClaimBatchSize))
           /\ loop' = [loop EXCEPT ![w] = "claiming"]
  <2>1. claim'[w].stage = "begun" /\ claim'[w].late = {} /\ claim'[w].limit > 0
        /\ \A v \in Workers : v # w => claim'[v] = claim[v]
    BY <1>2, LimitFits, BoundAssumption DEF BeginClaim, FreshClaim, LoopInv, LoopTypeOK, TypeOK
  <2>2. status' = status /\ announced' = announced /\ listen' = listen
        /\ notified' = notified
    BY <1>2 DEF BeginClaim, ClaimOrWait
  <2> QED
    BY <1>2, <2>1, <2>2 DEF ClaimOrWait, LoopInv, LoopTypeOK, TypeOK, Heard, AnnouncedAreDue,
                      ClaimsAwaited, ClaimsSeeAnnounced, IdleMissNothing, Silent
<1> QED
  BY <1>1, <1>2 DEF ClaimOrWait

\* A claim that came back with nothing and without a hint saw no due row.
LEMMA HeardByClaim ==
  ASSUME LoopInv, NEW w \in Workers,
         ClaimNothing(w) \/ ClaimSkipped(w) \/ ClaimHeldBack(w)
  PROVE  Heard'
<1>1. /\ claim' = [claim EXCEPT ![w] = NoClaim] /\ status' = status
      /\ claim[w].stage # "none" /\ loop[w] = "claiming"
      /\ announced' = announced /\ listen' = listen /\ notified' = notified
      /\ wakeup' = wakeup
  <2>1. CASE ClaimNothing(w) \/ ClaimSkipped(w)
    BY <2>1 DEF ClaimNothing, ClaimSkipped, NothingDue, SkipBucket, LoopInv, ClaimsAwaited
  <2>2. CASE ClaimHeldBack(w)
    <3>1. status' = [j \in Jobs |-> status[j]]
      BY <2>2 DEF ClaimHeldBack, CommitClaim
    <3> QED
      BY <2>2, <3>1 DEF ClaimHeldBack, CommitClaim, LoopInv, LoopTypeOK, TypeOK, ClaimsAwaited
  <2> QED
    BY <2>1, <2>2
<1>2. \E hint \in BOOLEAN :
        /\ loop' = [loop EXCEPT ![w] = IF w \in Once /\ ~hint THEN "stopped" ELSE "idle"]
        /\ hinted' = [hinted EXCEPT ![w] = hint]
        /\ \A v \in Workers \ {w} : skipped'[v] = skipped[v]
        /\ Silent(w) /\ ~hint /\ ~skipped'[w] => Due(w) = {}
  <2>1. CASE ClaimNothing(w)
    BY <2>1 DEF ClaimNothing, WaitForWork, NothingDue
  <2>2. CASE ClaimSkipped(w)
    BY <2>2 DEF ClaimSkipped, WaitForWork, Silent, LoopInv, LoopTypeOK
  <2>3. CASE ClaimHeldBack(w)
    <3>1. ASSUME ~WaitHint(w)
          PROVE  Due(w) = {}
      <4>1. claim[w].limit > 0 /\ claim[w].limit \in Nat /\ claim[w].allowed \in Int
        BY <1>1, BoundAssumption DEF LoopInv, ClaimsAwaited, LoopTypeOK, TypeOK
      <4>2. claim[w].allowed > 0
        BY <3>1, <4>1 DEF WaitHint
      <4>3. IsFiniteSet(Due(w))
        BY JobsAssumption, FS_Subset DEF Due
      <4>4. Cardinality(Due(w)) \in Nat
        BY <4>3, FS_CardinalityType
      <4>5. Cardinality({}) = Least(Most(claim[w].allowed, 0), Cardinality(Due(w)))
        BY <2>3 DEF ClaimHeldBack, CommitClaim, Picks
      <4>6. Cardinality({}) = 0
        BY FS_EmptySet
      <4>7. Cardinality(Due(w)) = 0
        BY <4>1, <4>2, <4>4, <4>5, <4>6 DEF Least, Most
      <4> QED
        BY <4>3, <4>7, FS_EmptySet
    <3>2. WaitHint(w) \in BOOLEAN
      BY DEF WaitHint
    <3>3. /\ loop' = [loop EXCEPT ![w] = IF w \in Once /\ ~WaitHint(w) THEN "stopped" ELSE "idle"]
          /\ hinted' = [hinted EXCEPT ![w] = WaitHint(w)]
          /\ skipped' = skipped
      BY <2>3 DEF ClaimHeldBack, WaitForWork
    <3> WITNESS WaitHint(w) \in BOOLEAN
    <3> QED
      BY <3>1, <3>3
  <2> QED
    BY <2>1, <2>2, <2>3
<1>3. claim'[w].stage = "none" /\ \A v \in Workers : v # w => claim'[v] = claim[v]
  BY <1>1 DEF NoClaim, FreshClaim, LoopInv, LoopTypeOK, TypeOK
<1>4. loop'[w] # "claiming" /\ \A v \in Workers : v # w => loop'[v] = loop[v]
  BY <1>2 DEF LoopInv, LoopTypeOK
<1>5. AnnouncedAreDue' /\ ClaimsAwaited' /\ ClaimsSeeAnnounced'
  BY <1>1, <1>3, <1>4 DEF LoopInv, AnnouncedAreDue, ClaimsAwaited, ClaimsSeeAnnounced, Silent
<1>6. Silent(w) /\ Due(w) = {} => announced = {}
  BY <1>1 DEF LoopInv, AnnouncedAreDue, ClaimsSeeAnnounced, Due
<1>7. IdleMissNothing'
  BY <1>1, <1>2, <1>4, <1>6 DEF LoopInv, LoopTypeOK, IdleMissNothing, Silent
<1> QED
  BY <1>5, <1>7 DEF Heard

LEMMA HeardByOthers ==
  ASSUME LoopInv, NEW w \in Workers,
         \/ LoopLockBucket(w) \/ ClaimFails(w) \/ Rest(w) \/ Crash(w)
         \/ \E S \in SUBSET Jobs : ClaimSome(w, S)
  PROVE  Heard'
<1> USE DEF LoopInv, LoopTypeOK, TypeOK, Heard, AnnouncedAreDue, ClaimsAwaited,
            ClaimsSeeAnnounced, IdleMissNothing, Silent
<1>1. CASE LoopLockBucket(w)
  <2>1. \A v \in Workers : claim'[v].late = claim[v].late /\ claim'[v].limit = claim[v].limit
          /\ (claim'[v].stage # "none" <=> claim[v].stage # "none")
    BY <1>1 DEF LoopLockBucket, LockBucket
  <2>2. status' = status /\ UNCHANGED loopVars
    BY <1>1 DEF LoopLockBucket, LockBucket
  <2> QED
    BY <2>1, <2>2 DEF loopVars
<1>2. CASE ClaimFails(w)
  <2>1. claim' = [claim EXCEPT ![w] = NoClaim] /\ status' = status
    BY <1>2 DEF ClaimFails, AbortClaim
  <2> QED
    BY <1>2, <2>1 DEF ClaimFails, NoClaim, FreshClaim
<1>3. CASE Rest(w)
  BY <1>3 DEF Rest, vars
<1>4. CASE Crash(w)
  <2>1. claim' = [claim EXCEPT ![w] = NoClaim] /\ status' = status
    BY <1>4 DEF Crash, Die
  <2>2. loop'[w] = "top" /\ listen'[w] # "listening"
        /\ \A v \in Workers : v # w =>
             /\ loop'[v] = loop[v] /\ listen'[v] = listen[v] /\ wakeup'[v] = wakeup[v]
             /\ notified'[v] = notified[v] /\ hinted'[v] = hinted[v]
             /\ skipped'[v] = skipped[v]
    BY <1>4 DEF Crash
  <2>3. announced' = announced
    BY <1>4 DEF Crash
  <2> QED
    BY <2>1, <2>2, <2>3 DEF NoClaim, FreshClaim
<1>5. ASSUME NEW S \in SUBSET Jobs, ClaimSome(w, S)
      PROVE  Heard'
  <2>1. /\ claim' = [claim EXCEPT ![w] = NoClaim]
        /\ status' = [j \in Jobs |-> IF j \in S THEN "RUNNING" ELSE status[j]]
    BY <1>5 DEF ClaimSome, CommitClaim
  <2>2. /\ loop'[w] \in {"top", "returning"} /\ announced' = announced \ S
        /\ \A v \in Workers : v # w => loop'[v] = loop[v]
        /\ UNCHANGED <<wakeup, hinted, listen, notified, skipped>>
    BY <1>5 DEF ClaimSome
  <2> QED
    BY <2>1, <2>2 DEF NoClaim, FreshClaim
<1> QED
  BY <1>1, <1>2, <1>3, <1>4, <1>5

\* A NOTIFY reaches every connection that listens: nothing there is silent.
LEMMA HeardByNotify ==
  ASSUME LoopInv, NEW j \in Jobs, Notify(j), UNCHANGED listen
  PROVE  \A w \in Workers : listen'[w] = "listening" => notified'[w]
  BY DEF Notify

LEMMA HeardByReturns ==
  ASSUME LoopInv, NEW w \in Workers, NEW j \in Jobs,
         HandBack(w, j) \/ HandBackFails(w, j) \/ StartLate(w, j)
  PROVE  Heard'
<1> USE DEF LoopInv, LoopTypeOK, TypeOK, Heard, AnnouncedAreDue, ClaimsAwaited,
            ClaimsSeeAnnounced, IdleMissNothing, Silent
<1>1. CASE HandBack(w, j)
  <2>1. \A v \in Workers : listen'[v] = "listening" => notified'[v]
    BY <1>1, HeardByNotify DEF HandBack
  <2>2. status'[j] = "READY" /\ \A k \in Jobs : k # j => status'[k] = status[k]
    BY <1>1 DEF HandBack, Release
  <2>3. claim' = claim /\ loop' = loop
    BY <1>1 DEF HandBack, Release
  <2>4. announced' \subseteq announced \cup {j}
    BY <1>1 DEF HandBack, Notify
  <2> QED
    BY <2>1, <2>2, <2>3, <2>4
<1>2. CASE HandBackFails(w, j)
  BY <1>2 DEF HandBackFails, Orphan
<1>3. CASE StartLate(w, j)
  BY <1>3 DEF StartLate, vars
<1> QED
  BY <1>1, <1>2, <1>3

LEMMA HeardByListener ==
  ASSUME LoopInv, NEW w \in Workers, ListenerStep(w)
  PROVE  Heard'
<1> USE DEF LoopInv, LoopTypeOK, TypeOK, Heard, AnnouncedAreDue, ClaimsAwaited,
            ClaimsSeeAnnounced, IdleMissNothing, Silent, vars
<1>1. CASE Connect(w)
  BY <1>1 DEF Connect
<1>2. CASE Listen(w)
  BY <1>2 DEF Listen
<1>3. CASE LoseConnection(w)
  BY <1>3 DEF LoseConnection
<1>4. CASE Deliver(w)
  BY <1>4 DEF Deliver
<1>5. CASE NoticeLoss(w)
  BY <1>5 DEF NoticeLoss
<1> QED
  BY <1>1, <1>2, <1>3, <1>4, <1>5 DEF ListenerStep

\* A row whose run_after passes, or that the reaper handed back, is not announced.
LEMMA HeardByRows ==
  ASSUME LoopInv, NEW j \in Jobs,
         RunEnds(j) \/ LoopEnqueue(j) \/ LoopCancel(j) \/ Unannounced(j)
  PROVE  Heard'
<1> USE DEF LoopInv, LoopTypeOK, TypeOK, Heard, AnnouncedAreDue, ClaimsAwaited,
            ClaimsSeeAnnounced, IdleMissNothing, Silent
<1>1. CASE RunEnds(j)
  <2>1. status[j] = "RUNNING" /\ status' = [status EXCEPT ![j] = "later"] /\ claim' = claim
    BY <1>1 DEF RunEnds, EndRun
  <2>2. \A v \in Workers : ~wakeup'[v] => ~wakeup[v]
    BY <1>1 DEF RunEnds, WakeOwner
  <2>3. UNCHANGED <<loop, hinted, listen, notified, announced, skipped>>
    BY <1>1 DEF RunEnds
  <2> QED
    BY <2>1, <2>2, <2>3
<1>2. ASSUME Enqueue(j)
      PROVE  /\ status[j] = "later" /\ status' = [status EXCEPT ![j] = "READY"]
             /\ \A v \in Workers :
                  /\ claim'[v].stage = claim[v].stage /\ claim'[v].limit = claim[v].limit
                  /\ claim'[v].late \subseteq claim[v].late \cup {j}
  <2>1. status[j] = "later" /\ status' = [status EXCEPT ![j] = "READY"]
        /\ claim' = MissedByClaims(j)
    BY <1>2 DEF Enqueue
  <2> QED
    BY <2>1 DEF MissedByClaims
<1>3. CASE LoopEnqueue(j)
  <2>1. \A v \in Workers : listen'[v] = "listening" => notified'[v]
    BY <1>3, HeardByNotify DEF LoopEnqueue
  <2>2. loop' = loop /\ announced' \subseteq announced \cup {j}
    BY <1>3 DEF LoopEnqueue, Notify
  <2> QED
    BY <1>2, <1>3, <2>1, <2>2 DEF LoopEnqueue
<1>4. CASE LoopCancel(j)
  BY <1>4 DEF LoopCancel, Cancel
<1>5. CASE Unannounced(j) /\ ComeDue(j)
  BY <1>2, <1>5 DEF Unannounced, ComeDue, loopVars
<1>6. CASE Unannounced(j) /\ Reap(j)
  BY <1>6 DEF Unannounced, Reap, loopVars
<1> QED
  BY <1>1, <1>3, <1>4, <1>5, <1>6 DEF Unannounced

LEMMA HeardByClock ==
  ASSUME LoopInv, LoopTick \/ UNCHANGED allVars
  PROVE  Heard'
<1> USE DEF LoopInv, LoopTypeOK, TypeOK, Heard, AnnouncedAreDue, ClaimsAwaited,
            ClaimsSeeAnnounced, IdleMissNothing, Silent
<1>1. CASE LoopTick
  <2>1. \A v \in Workers : claim'[v].late = claim[v].late /\ claim'[v].limit = claim[v].limit
          /\ claim'[v].stage = claim[v].stage
    BY <1>1 DEF LoopTick, Tick
  <2> QED
    BY <1>1, <2>1 DEF LoopTick, Tick, loopVars
<1>2. CASE UNCHANGED allVars
  BY <1>2 DEF allVars, vars, loopVars
<1> QED
  BY <1>1, <1>2

LEMMA HeardStep ==
  ASSUME LoopInv, [LoopNext]_allVars
  PROVE  Heard'
<1>1. ASSUME NEW w \in Workers, LoopStep(w)
      PROVE  Heard'
  <2>1. CASE NextPass(w) \/ Wake(w) \/ TimeOut(w) \/ Relaunch(w)
    BY <2>1, HeardByPass DEF NextPass, Wake, TimeOut, Relaunch, Waits
  <2>2. CASE ClaimNothing(w) \/ ClaimSkipped(w) \/ ClaimHeldBack(w)
    BY <2>2, HeardByClaim
  <2>3. CASE \/ LoopLockBucket(w) \/ ClaimFails(w) \/ Rest(w) \/ Crash(w)
             \/ \E S \in SUBSET Jobs : ClaimSome(w, S)
    BY <2>3, HeardByOthers
  <2>4. ASSUME NEW j \in Jobs, HandBack(w, j) \/ HandBackFails(w, j) \/ StartLate(w, j)
        PROVE  Heard'
    BY <2>4, HeardByReturns
  <2> QED
    BY <1>1, <2>1, <2>2, <2>3, <2>4 DEF LoopStep
<1> QED
  BY <1>1, HeardByListener, HeardByRows, HeardByClock DEF LoopNext

LEMMA LoopInvAlways == LoopSpec => []LoopInv
<1>1. LoopInit /\ TypeOK => LoopInv
  <2> SUFFICES ASSUME LoopInit, TypeOK
               PROVE  LoopInv
    OBVIOUS
  <2>1. \A w \in Workers : claim[w].stage = "none"
    BY DEF LoopInit, Init, NoClaim, FreshClaim
  <2>2. PICK d \in Deployments :
          /\ policy = d.policy /\ sync = d.sync
          /\ listen = [w \in Workers |-> IF w \in d.listeners THEN "down" ELSE "off"]
    BY DEF LoopInit
  <2>3. sync \in BOOLEAN
    BY <2>2, LoopAssumption
  <2>4. LoopTypeOK
    BY <2>2, <2>3 DEF LoopInit, LoopTypeOK, Waits
  <2> QED
    BY <2>1, <2>4 DEF LoopInit, LoopInv, AnnouncedAreDue, ClaimsAwaited, ClaimsSeeAnnounced,
                      IdleMissNothing
<1>2. LoopInv /\ TypeOK' /\ [LoopNext]_allVars => LoopInv'
  BY LoopTypeStep, HeardStep DEF LoopInv, Heard
<1> QED
  BY <1>1, <1>2, LoopKeepsLimits, PTL DEF LoopSpec

\* The loop of every worker is at one of its awaits with events, a batch and a
\* connection of their types, and the rows and buckets below keep theirs.
THEOREM LoopTypeCorrect == LoopSpec => []LoopTypeOK
<1>1. LoopInv => LoopTypeOK
  BY DEF LoopInv
<1> QED
  BY <1>1, LoopInvAlways, PTL

\* Whatever is enqueued, released, lost with a connection or claimed by others
\* meanwhile, a listening worker never settles down for the long poll while a
\* row it was notified of is due: the event is cleared before the claim, and
\* set once more after LISTEN.
THEOREM NoWakeupIsLost == LoopSpec => [](LoopTypeOK /\ NoLostWakeup)
<1>1. LoopInv => LoopTypeOK /\ NoLostWakeup
  BY DEF LoopInv, IdleMissNothing, Silent, NoLostWakeup
<1> QED
  BY <1>1, LoopInvAlways, PTL

(* ---------------------------- --once ---------------------------------- *)

\* Only a claim that is past the bucket holds its lock.
LockIsClaimed == \A w \in Workers : lock = w => claim[w].stage = "locked"

LEMMA LockStep ==
  ASSUME TypeOK, LockIsClaimed, [Next]_vars
  PROVE  LockIsClaimed'
<1>1. ASSUME NEW w \in Workers, ClaimStep(w)
      PROVE  LockIsClaimed'
  <2>1. \A v \in Workers \ {w} : claim'[v] = claim[v]
    BY <1>1 DEF ClaimStep, BeginClaim, LockBucket, SkipBucket, NothingDue, CommitClaim,
                AbortClaim, Die, TypeOK
  <2>2. \/ lock' = w /\ claim'[w].stage = "locked"
        \/ lock' # w /\ (lock' = lock \/ lock' = NoWorker)
    BY <1>1, NoWorkerAssumption DEF ClaimStep, BeginClaim, LockBucket, SkipBucket, NothingDue,
       CommitClaim, AbortClaim, Die, TypeOK, LockIsClaimed
  <2> QED
    BY <2>1, <2>2, NoWorkerAssumption DEF LockIsClaimed
<1>2. ASSUME NEW j \in Jobs, RowStep(j)
      PROVE  LockIsClaimed'
  <2>1. lock' = lock /\ \A v \in Workers : claim'[v].stage = claim[v].stage
    BY <1>2 DEF RowStep, Enqueue, ComeDue, Cancel, EndRun, Orphan, Reap, Release,
       MissedByClaims, TypeOK
  <2> QED
    BY <2>1 DEF LockIsClaimed
<1>3. CASE Tick
  <2>1. lock' = lock /\ \A v \in Workers : claim'[v].stage = claim[v].stage
    BY <1>3 DEF Tick, TypeOK
  <2> QED
    BY <2>1 DEF LockIsClaimed
<1>4. CASE UNCHANGED vars
  BY <1>4 DEF vars, LockIsClaimed
<1> QED
  BY <1>1, <1>2, <1>3, <1>4 DEF Next

LEMMA DueFinite ==
  ASSUME NEW w \in Workers
  PROVE  IsFiniteSet(Due(w)) /\ Cardinality(Due(w)) \in Nat
<1>1. Due(w) \subseteq Jobs
  BY DEF Due
<1> QED
  BY <1>1, JobsAssumption, FS_Subset, FS_CardinalityType

\* A claim that comes back with nothing and without a hint found nothing due.
LEMMA UnhintedFoundNothing ==
  ASSUME TypeOK, ClaimsAwaited, NEW w \in Workers, ClaimHeldBack(w), ~WaitHint(w)
  PROVE  Due(w) = {}
<1>1. claim[w].allowed \in Int /\ claim[w].limit \in Nat /\ claim[w].stage = "locked"
  BY DEF TypeOK, ClaimHeldBack, CommitClaim
<1>2. claim[w].limit > 0 /\ claim[w].allowed > 0
  BY <1>1 DEF ClaimsAwaited, WaitHint
<1>3. 0 = Least(Most(claim[w].allowed, 0), Cardinality(Due(w)))
  BY FS_EmptySet DEF ClaimHeldBack, CommitClaim, Picks
<1>4. Cardinality(Due(w)) = 0
  BY <1>1, <1>2, <1>3, DueFinite DEF Least, Most
<1> QED
  BY <1>4, DueFinite, FS_EmptySet

StopsDone(w) ==
  loop[w] # "stopped" /\ loop'[w] = "stopped" =>
    Due(w) = {} \/ lock \notin {NoWorker, w}

LEMMA StepStopsDone ==
  ASSUME TypeOK, LoopTypeOK, ClaimsAwaited, LockIsClaimed, LoopNext, NEW w \in Once
  PROVE  StopsDone(w)
<1> SUFFICES ASSUME loop[w] # "stopped", loop'[w] = "stopped"
             PROVE  Due(w) = {} \/ lock \notin {NoWorker, w}
  BY DEF StopsDone
<1>0. w \in Workers /\ loop = [v \in Workers |-> loop[v]]
  BY LoopAssumption DEF LoopTypeOK
<1>1. \A v \in Workers : ~ClaimOrWait(v)
  BY <1>0 DEF ClaimOrWait
<1>2. PICK v \in Workers : LoopStep(v)
  BY DEF LoopNext, ListenerStep, Connect, Listen, LoseConnection, NoticeLoss, Deliver, RunEnds,
     LoopEnqueue, LoopCancel, Unannounced, LoopTick, loopVars
<1>3. ~(NextPass(v) \/ Wake(v) \/ TimeOut(v) \/ Relaunch(v) \/ LoopLockBucket(v))
  BY <1>1 DEF NextPass, Wake, TimeOut, Relaunch, LoopLockBucket, loopVars
<1>4. ~(ClaimFails(v) \/ Rest(v) \/ Crash(v))
  BY <1>0 DEF ClaimFails, Rest, Crash
<1>5. \A S \in SUBSET Jobs : ~ClaimSome(v, S)
  BY <1>0 DEF ClaimSome
<1>6. \A j \in Jobs : ~(HandBack(v, j) \/ HandBackFails(v, j) \/ StartLate(v, j))
  BY DEF HandBack, HandBackFails, StartLate
<1>7. ClaimNothing(v) \/ ClaimSkipped(v) \/ ClaimHeldBack(v)
  BY <1>2, <1>3, <1>4, <1>5, <1>6 DEF LoopStep
<1>8. v = w
  BY <1>7, <1>0 DEF ClaimNothing, ClaimSkipped, ClaimHeldBack, WaitForWork
<1>9. CASE ClaimNothing(w)
  BY <1>9 DEF ClaimNothing, NothingDue
<1>10. CASE ClaimSkipped(w)
  BY <1>10, <1>8 DEF ClaimSkipped, SkipBucket, LockIsClaimed
<1>11. CASE ClaimHeldBack(w)
  <2>1. ~WaitHint(w)
    BY <1>11, <1>8 DEF ClaimHeldBack, WaitForWork, LoopTypeOK
  <2> QED
    BY <1>11, <1>8, <2>1, UnhintedFoundNothing
<1> QED
  BY <1>7, <1>8, <1>9, <1>10, <1>11

\* A --once worker ends only on a claim that found nothing due or the bucket
\* locked by another: the wait hint keeps it alive for what a limit holds back.
THEOREM OnceEndsWhenDone == LoopSpec => OnceStopsWhenDone
<1>1. LoopInit => LockIsClaimed
  BY NoWorkerAssumption DEF LoopInit, Init, LockIsClaimed
<1>2. LockIsClaimed /\ TypeOK /\ [LoopNext]_allVars => LockIsClaimed'
  BY LockStep, StepClaims DEF allVars
<1>3. LoopInv /\ TypeOK /\ LockIsClaimed /\ [LoopNext]_allVars =>
        [\A w \in Once : StopsDone(w)]_allVars
  BY StepStopsDone DEF LoopInv
<1> QED
  BY <1>1, <1>2, <1>3, LoopInvAlways, LoopKeepsLimits, PTL
     DEF LoopSpec, OnceStopsWhenDone, StopsDone

=============================================================================
