-------------------------- MODULE RateLimit_proofs --------------------------
(***************************************************************************)
(* Proofs about RateLimit: whatever the workers, the limits and the bounds,  *)
(* the concurrency limit and the rate are kept.                              *)
(***************************************************************************)
EXTENDS RateLimit, FiniteSetTheorems, TLAPS

(* ---------------------------- arithmetic ------------------------------ *)

LEMMA LeastType == \A a, b \in Int : Least(a, b) \in Int /\ Most(a, b) \in Int
  BY DEF Least, Most

LEMMA ProductType == \A a, b \in Nat : a * b \in Nat
  OBVIOUS

LEMMA Distribute == \A a, r \in Int : (a + 1) * r = a * r + r
  OBVIOUS

LEMMA ProductGrows ==
  ASSUME NEW a \in Nat, NEW b \in Nat, NEW r \in Nat, a <= b
  PROVE  a * r <= b * r
  OBVIOUS

\* As many rows as there are whole tokens cost no more than the tokens.
LEMMA WholeTokens ==
  ASSUME NEW n \in Nat, NEW t \in Nat, NEW u \in Nat \ {0}, n <= t \div u
  PROVE  n * u <= t
<1>1. t \div u \in Nat /\ (t \div u) * u <= t
  OBVIOUS
<1>2. n * u <= (t \div u) * u
  BY <1>1, ProductGrows
<1>3. n * u \in Nat /\ (t \div u) * u \in Nat
  BY <1>1, ProductType
<1> QED
  BY <1>1, <1>2, <1>3

(* ------------------------- the invariant ------------------------------ *)

\* What a claim finds in the bucket row if it read its clock MaxLag ticks ago, and
\* what has refilled since: no claim under way can make more of the row.
Past   == Most(bucket.age - MaxLag, 0) * policy.rate
Recent == Least(bucket.age, MaxLag) * policy.rate
Reach  == Least(policy.capacity, bucket.tokens + Past) + Recent

\* Only the claim that has the lock has read the bucket, and what it may take
\* is there.
LockedFits ==
  \A w \in Workers :
    claim[w].stage = "locked" =>
      /\ lock = w
      /\ policy.rate > 0 => /\ claim[w].tokens <= policy.capacity
                            /\ claim[w].allowed <= claim[w].tokens \div Unit
      /\ policy.concurrency > 0 =>
           claim[w].allowed + Cardinality(Running) <= policy.concurrency

\* A bucket that is not there yet is full and nothing runs; one that is there
\* is not ahead of the ideal bucket, nor is what a claim is about to save.
BudgetCovers ==
  policy.rate > 0 =>
    /\ ~bucket.exists => /\ bucket.tokens = policy.capacity
                         /\ budget = IdealBurst
                         /\ \A j \in Jobs : status[j] # "RUNNING"
    /\ bucket.exists => Reach <= budget
    /\ budget <= IdealBurst
    /\ \A w \in Workers :
         claim[w].stage = "locked" =>
           claim[w].tokens + claim[w].lag * policy.rate
             <= budget + Rewound(w) * policy.rate

\* Without a rate nothing is charged.
NothingCharged == policy.rate = 0 => budget = IdealBurst

Inv == TypeOK /\ LockedFits /\ ConcurrencyHeld /\ BudgetCovers /\ NothingCharged

(* ------------------------------ lemmas -------------------------------- *)

LEMMA PolicyType ==
  ASSUME TypeOK
  PROVE  /\ policy.rate \in Nat /\ policy.capacity \in Nat \ {0}
         /\ policy.concurrency \in Nat
         /\ policy.rate > 0 => policy.rate * (MaxAge - MaxLag) >= policy.capacity
  BY PolicyAssumption DEF TypeOK

LEMMA IdealType ==
  ASSUME TypeOK
  PROVE  IdealBurst \in Nat
<1>1. MaxLag * policy.rate \in Nat
  BY PolicyType, BoundAssumption, ProductType
<1> QED
  BY <1>1, PolicyType DEF IdealBurst

LEMMA RunningFinite == IsFiniteSet(Running) /\ Cardinality(Running) \in Nat
<1>1. Running \subseteq Jobs
  BY DEF Running
<1> QED
  BY <1>1, JobsAssumption, FS_Subset, FS_CardinalityType

LEMMA RunningShrinks ==
  ASSUME \A j \in Jobs : status'[j] = "RUNNING" => status[j] = "RUNNING"
  PROVE  Cardinality(Running') \in Nat /\ Cardinality(Running') <= Cardinality(Running)
<1>1. Running' \subseteq Running
  BY DEF Running
<1> QED
  BY <1>1, RunningFinite, FS_Subset, FS_CardinalityType

LEMMA RefilledType ==
  ASSUME TypeOK, NEW w \in Workers
  PROVE  Refilled(w) \in Nat
<1>1. policy.rate \in Nat /\ policy.capacity \in Nat /\ bucket.tokens \in Nat
      /\ bucket.age \in Nat /\ claim[w].lag \in Nat
  BY PolicyType, BoundAssumption DEF TypeOK
<1>2. Most(bucket.age - claim[w].lag, 0) \in Nat
  BY <1>1 DEF Most
<1>3. Most(bucket.age - claim[w].lag, 0) * policy.rate \in Nat
  BY <1>1, <1>2, ProductType
<1> QED
  BY <1>1, <1>3 DEF Refilled, Least

\* What a claim is allowed respects each limit.
LEMMA AllowedFits ==
  ASSUME TypeOK, NEW w \in Workers
  PROVE  /\ Allowed(w) \in Int
         /\ policy.rate > 0 => Allowed(w) <= Refilled(w) \div Unit
         /\ policy.concurrency > 0 => Allowed(w) + Cardinality(Running) <= policy.concurrency
<1>1. Refilled(w) \in Nat /\ claim[w].limit \in Nat /\ Unit \in Nat \ {0}
  BY RefilledType, BoundAssumption DEF TypeOK
<1>2. Refilled(w) \div Unit \in Nat
  BY <1>1
<1>3. Cardinality(Running) \in Nat /\ policy.concurrency \in Nat /\ policy.rate \in Nat
  BY RunningFinite, PolicyType
<1> QED
  BY <1>1, <1>2, <1>3 DEF Allowed, Least

\* What a claim takes is covered by its tokens and its slots.
LEMMA CommitFits ==
  ASSUME TypeOK, LockedFits, ConcurrencyHeld,
         NEW w \in Workers, NEW S, CommitClaim(w, S)
  PROVE  /\ S \subseteq {j \in Jobs : status[j] = "READY"}
         /\ Cardinality(S) \in Nat
         /\ policy.rate > 0 => Cardinality(S) * Unit <= claim[w].tokens
         /\ policy.concurrency > 0 =>
              Cardinality(S) + Cardinality(Running) <= policy.concurrency
<1>1. S \subseteq Due(w) /\ S \subseteq {j \in Jobs : status[j] = "READY"}
      /\ Due(w) \subseteq Jobs
  BY DEF CommitClaim, Picks, Due
<1>2. IsFiniteSet(S) /\ Cardinality(S) \in Nat /\ Cardinality(Due(w)) \in Nat
  BY <1>1, JobsAssumption, FS_Subset, FS_CardinalityType
<1>3. claim[w].allowed \in Int /\ claim[w].tokens \in Nat /\ claim[w].stage = "locked"
  BY DEF TypeOK, CommitClaim
<1>4. Cardinality(S) <= Most(claim[w].allowed, 0)
  BY <1>2, <1>3 DEF CommitClaim, Picks, Least, Most
<1>5. policy.rate > 0 => Cardinality(S) * Unit <= claim[w].tokens
  <2>1. SUFFICES ASSUME policy.rate > 0
                 PROVE  Cardinality(S) * Unit <= claim[w].tokens
    OBVIOUS
  <2>2. Unit \in Nat \ {0} /\ claim[w].tokens \div Unit \in Nat
    BY <1>3, BoundAssumption
  <2>3. Cardinality(S) <= claim[w].tokens \div Unit
    BY <1>2, <1>3, <1>4, <2>1, <2>2 DEF LockedFits, Most
  <2> QED
    BY <1>2, <1>3, <2>2, <2>3, WholeTokens
<1>6. policy.concurrency > 0 =>
        Cardinality(S) + Cardinality(Running) <= policy.concurrency
  BY <1>2, <1>3, <1>4, RunningFinite, PolicyType DEF LockedFits, ConcurrencyHeld, Most
<1> QED
  BY <1>1, <1>2, <1>5, <1>6

(* --------------------------- type correctness ------------------------- *)

ClaimRecords ==
  [stage : {"none", "begun", "locked"}, limit : 0..MaxLimit, lag : 0..MaxLag,
   late : SUBSET Jobs, tokens : Nat, allowed : Int]

LEMMA TypeInit == Init => TypeOK
<1>1. SUFFICES ASSUME Init
               PROVE  TypeOK
  OBVIOUS
<1>2. policy.capacity \in Nat /\ 0 \in 0..MaxAge /\ 0 \in 0..MaxLimit /\ 0 \in 0..MaxLag
  BY <1>1, PolicyAssumption, BoundAssumption DEF Init
<1>3. NoClaim \in ClaimRecords
  BY <1>2 DEF NoClaim, FreshClaim, ClaimRecords
<1>4. IdealBurst \in Nat
  <2>1. policy.rate \in Nat /\ MaxLag * policy.rate \in Nat
    BY <1>1, PolicyAssumption, BoundAssumption, ProductType DEF Init
  <2> QED
    BY <1>2, <2>1 DEF IdealBurst
<1> QED
  BY <1>1, <1>2, <1>3, <1>4 DEF Init, TypeOK, ClaimRecords

LEMMA TypeStep ==
  ASSUME TypeOK, LockedFits, ConcurrencyHeld, [Next]_vars
  PROVE  TypeOK'
<1> USE BoundAssumption
<1>1. ASSUME NEW w \in Workers, ClaimStep(w)
      PROVE  TypeOK'
  <2>1. ASSUME NEW limit \in 1..MaxLimit, BeginClaim(w, limit)
        PROVE  TypeOK'
    <3>1. FreshClaim("begun", limit) \in ClaimRecords
      BY DEF FreshClaim, ClaimRecords
    <3>2. claim' \in [Workers -> ClaimRecords]
      BY <2>1, <3>1 DEF BeginClaim, TypeOK, ClaimRecords
    <3> QED
      BY <2>1, <3>2 DEF BeginClaim, TypeOK, ClaimRecords
  <2>2. CASE LockBucket(w)
    <3>1. Refilled(w) \in Nat /\ Allowed(w) \in Int /\ claim \in [Workers -> ClaimRecords]
      BY RefilledType, AllowedFits DEF TypeOK, ClaimRecords
    <3>2. [claim[w] EXCEPT !.stage = "locked", !.tokens = Refilled(w),
                           !.allowed = Allowed(w)] \in ClaimRecords
      BY <3>1 DEF ClaimRecords
    <3>3. claim' = [claim EXCEPT ![w] =
                      [claim[w] EXCEPT !.stage = "locked", !.tokens = Refilled(w),
                                       !.allowed = Allowed(w)]]
      BY <2>2, <3>1 DEF LockBucket
    <3>4. claim' \in [Workers -> ClaimRecords]
      BY <3>1, <3>2, <3>3
    <3> QED
      BY <2>2, <3>4 DEF LockBucket, TypeOK, ClaimRecords
  <2>3. CASE SkipBucket(w) \/ NothingDue(w) \/ AbortClaim(w) \/ Die(w)
    BY <2>3 DEF SkipBucket, NothingDue, AbortClaim, Die, TypeOK, NoClaim, FreshClaim
  <2>4. ASSUME NEW S \in SUBSET Jobs, CommitClaim(w, S)
        PROVE  TypeOK'
    <3>1. status' \in [Jobs -> {"later", "READY", "RUNNING"}]
          /\ owner' \in [Jobs -> Workers \cup {NoWorker}]
          /\ lock' \in Workers \cup {NoWorker} /\ policy' \in Policies
      BY <2>4 DEF CommitClaim, TypeOK
    <3>2. claim' = [claim EXCEPT ![w] = NoClaim]
      BY <2>4 DEF CommitClaim
    <3>3. claim' \in [Workers -> [stage : {"none", "begun", "locked"}, limit : 0..MaxLimit,
                               lag : 0..MaxLag, late : SUBSET Jobs,
                               tokens : Nat, allowed : Int]]
      BY <3>2 DEF TypeOK, NoClaim, FreshClaim
    <3>4. CASE policy.rate = 0
      BY <2>4, <3>1, <3>3, <3>4 DEF CommitClaim, TypeOK
    <3>5. CASE policy.rate > 0
      <4>1. Cardinality(S) * Unit \in Nat /\ Cardinality(S) * Unit <= claim[w].tokens
        BY <2>4, <3>5, CommitFits, ProductType
      <4>2. claim[w].tokens \in Nat /\ claim[w].lag \in 0..MaxLag
        BY DEF TypeOK
      <4>3. policy.rate * (MaxAge - MaxLag) >= policy.capacity /\ policy.rate \in Nat
            /\ policy.capacity \in Nat \ {0}
        BY <3>5, PolicyType
      <4>4. MaxLag <= MaxAge
        <5>1. SUFFICES ASSUME MaxAge < MaxLag
                       PROVE  FALSE
          BY BoundAssumption
        <5>2. (MaxLag - MaxAge) * policy.rate \in Nat
          BY <4>3, <5>1, ProductType
        <5>3. policy.rate * (MaxAge - MaxLag) = 0 - (MaxLag - MaxAge) * policy.rate
          BY <4>3
        <5> QED
          BY <4>3, <5>2, <5>3
      <4>5. bucket' = [exists |-> TRUE, age |-> claim[w].lag,
                       tokens |-> claim[w].tokens - Cardinality(S) * Unit]
        BY <2>4, <3>5 DEF CommitClaim
      <4>6. claim[w].tokens - Cardinality(S) * Unit \in Nat /\ claim[w].lag \in 0..MaxAge
        BY <4>1, <4>2, <4>4
      <4>7. bucket' \in [exists : BOOLEAN, tokens : Nat, age : 0..MaxAge]
        BY <4>5, <4>6
      <4>8. budget' \in Int
        <5>1. Rewound(w) \in Int
          BY <4>2 DEF Rewound, Most, TypeOK
        <5>2. MaxLag * policy.rate \in Int /\ Rewound(w) * policy.rate \in Int
          BY <4>2, <4>3, <5>1
        <5>3. Charged(w, Cardinality(S)) \in Int
          BY <4>1, <4>3, <5>2 DEF Charged, IdealBurst, Least, TypeOK
        <5> QED
          BY <2>4, <3>5, <5>3 DEF CommitClaim
      <4> QED
        BY <3>1, <3>3, <4>7, <4>8 DEF TypeOK
    <3> QED
      BY <3>4, <3>5, PolicyType
  <2> QED
    BY <1>1, <2>1, <2>2, <2>3, <2>4 DEF ClaimStep
<1>2. ASSUME NEW j \in Jobs, RowStep(j)
      PROVE  TypeOK'
  <2>1. CASE Enqueue(j) \/ ComeDue(j)
    BY <2>1 DEF Enqueue, ComeDue, MissedByClaims, TypeOK
  <2>2. CASE Cancel(j) \/ EndRun(j) \/ Orphan(j) \/ Reap(j)
    BY <2>2 DEF Cancel, EndRun, Orphan, Reap, TypeOK
  <2>3. ASSUME NEW w \in Workers, Release(w, j)
        PROVE  TypeOK'
    BY <2>3, PolicyType, IdealType DEF Release, TypeOK, Least
  <2> QED
    BY <1>2, <2>1, <2>2, <2>3 DEF RowStep
<1>3. CASE Tick
  <2>1. claim' \in [Workers -> [stage : {"none", "begun", "locked"}, limit : 0..MaxLimit,
                             lag : 0..MaxLag, late : SUBSET Jobs,
                             tokens : Nat, allowed : Int]]
    BY <1>3 DEF Tick, TypeOK
  <2>2. bucket' \in [exists : BOOLEAN, tokens : Nat, age : 0..MaxAge]
    BY <1>3 DEF Tick, TypeOK, Least
  <2>3. budget' \in Int
    BY <1>3, PolicyType, IdealType DEF Tick, TypeOK, Least
  <2> QED
    BY <1>3, <2>1, <2>2, <2>3 DEF Tick, TypeOK
<1>4. CASE UNCHANGED vars
  BY <1>4 DEF vars, TypeOK
<1> QED
  BY <1>1, <1>2, <1>3, <1>4 DEF Next

(* ---------------------- lock, tokens and slots ------------------------ *)

\* The steps that start no run, and after which a claim that holds the lock is
\* one that held it before with the same allowance.
Kept ==
  /\ policy' = policy
  /\ \A j \in Jobs : status'[j] = "RUNNING" => status[j] = "RUNNING"
  /\ \A v \in Workers : claim'[v].stage = "locked" =>
       /\ claim[v].stage = "locked" /\ (lock = v => lock' = v)
       /\ claim'[v].tokens = claim[v].tokens /\ claim'[v].allowed = claim[v].allowed

LEMMA KeptKeepsLimits ==
  ASSUME TypeOK, LockedFits, ConcurrencyHeld, Kept
  PROVE  LockedFits' /\ ConcurrencyHeld'
<1>1. Cardinality(Running') \in Nat /\ Cardinality(Running') <= Cardinality(Running)
  BY RunningShrinks DEF Kept
<1>2. Cardinality(Running) \in Nat /\ policy.concurrency \in Nat /\ policy' = policy
  BY RunningFinite, PolicyType DEF Kept
<1>3. ConcurrencyHeld'
  BY <1>1, <1>2 DEF ConcurrencyHeld
<1>4. ASSUME NEW v \in Workers, claim'[v].stage = "locked"
      PROVE  /\ lock' = v
             /\ policy'.rate > 0 => /\ claim'[v].tokens <= policy'.capacity
                                    /\ claim'[v].allowed <= claim'[v].tokens \div Unit
             /\ policy'.concurrency > 0 =>
                  claim'[v].allowed + Cardinality(Running') <= policy'.concurrency
  <2>1. claim[v].stage = "locked" /\ (lock = v => lock' = v)
        /\ claim'[v].tokens = claim[v].tokens /\ claim'[v].allowed = claim[v].allowed
    BY <1>4 DEF Kept
  <2>2. claim[v].allowed \in Int
    BY DEF TypeOK
  <2> QED
    BY <1>1, <1>2, <2>1, <2>2 DEF LockedFits
<1> QED
  BY <1>3, <1>4 DEF LockedFits

LEMMA RowKept ==
  ASSUME TypeOK, NEW j \in Jobs, RowStep(j)
  PROVE  Kept
<1>1. CASE Enqueue(j) \/ ComeDue(j)
  <2>1. /\ claim' = MissedByClaims(j) /\ lock' = lock /\ policy' = policy
        /\ status' = [status EXCEPT ![j] = "READY"]
    BY <1>1 DEF Enqueue, ComeDue
  <2>2. ASSUME NEW v \in Workers
        PROVE  /\ claim'[v].stage = claim[v].stage
               /\ claim'[v].tokens = claim[v].tokens
               /\ claim'[v].allowed = claim[v].allowed
    BY <2>1 DEF MissedByClaims, TypeOK
  <2> QED
    BY <2>1, <2>2 DEF Kept, TypeOK
<1>2. CASE Cancel(j) \/ EndRun(j) \/ Orphan(j) \/ Reap(j)
  BY <1>2 DEF Cancel, EndRun, Orphan, Reap, Kept, TypeOK
<1>3. ASSUME NEW v \in Workers, Release(v, j)
      PROVE  Kept
  BY <1>3 DEF Release, Kept, TypeOK
<1> QED
  BY <1>1, <1>2, <1>3 DEF RowStep

LEMMA TickKept ==
  ASSUME TypeOK, Tick
  PROVE  Kept
<1>1. ASSUME NEW v \in Workers
      PROVE  /\ claim'[v].stage = claim[v].stage
             /\ claim'[v].tokens = claim[v].tokens
             /\ claim'[v].allowed = claim[v].allowed
  BY DEF Tick, TypeOK
<1> QED
  BY <1>1 DEF Tick, Kept

LEMMA LimitsStep ==
  ASSUME TypeOK, LockedFits, ConcurrencyHeld, BudgetCovers, [Next]_vars
  PROVE  LockedFits' /\ ConcurrencyHeld'
<1>1. ASSUME NEW w \in Workers, ClaimStep(w)
      PROVE  LockedFits' /\ ConcurrencyHeld'
  <2>1. CASE \E limit \in 1..MaxLimit : BeginClaim(w, limit)
    <3>1. /\ policy' = policy /\ status' = status /\ lock' = lock
          /\ \A v \in Workers : claim'[v].stage = "locked" => claim'[v] = claim[v]
      BY <2>1 DEF BeginClaim, FreshClaim, TypeOK
    <3> QED
      BY <3>1, KeptKeepsLimits DEF Kept
  <2>2. CASE SkipBucket(w) \/ NothingDue(w) \/ AbortClaim(w) \/ Die(w)
    <3>1. /\ policy' = policy /\ status' = status
          /\ claim' = [claim EXCEPT ![w] = NoClaim]
          /\ lock' = lock \/ lock' = IF lock = w THEN NoWorker ELSE lock
      BY <2>2 DEF SkipBucket, NothingDue, AbortClaim, Die
    <3> QED
      BY <3>1, KeptKeepsLimits DEF Kept, NoClaim, FreshClaim, TypeOK
  <2>3. CASE LockBucket(w)
    <3>1. /\ claim'[w].tokens = Refilled(w) /\ claim'[w].allowed = Allowed(w)
          /\ \A v \in Workers : v # w => claim'[v] = claim[v]
          /\ lock = NoWorker /\ lock' = w
          /\ policy' = policy /\ status' = status
      BY <2>3 DEF LockBucket, TypeOK
    <3>2. Running' = Running
      BY <3>1 DEF Running
    <3>3. \A v \in Workers : claim[v].stage # "locked"
      BY <3>1, NoWorkerAssumption DEF LockedFits
    <3>4. policy.rate > 0 => Refilled(w) <= policy.capacity
      <4>1. policy.capacity \in Nat /\ bucket.tokens \in Nat /\ policy.rate \in Nat
            /\ (policy.rate > 0 /\ ~bucket.exists => bucket.tokens = policy.capacity)
        BY PolicyType DEF BudgetCovers, TypeOK
      <4>2. \A x \in Int : Least(policy.capacity, x) <= policy.capacity
        BY <4>1 DEF Least
      <4>3. Most(bucket.age - claim[w].lag, 0) * policy.rate \in Int
        BY <4>1, BoundAssumption DEF Most, TypeOK
      <4> QED
        BY <4>1, <4>2, <4>3 DEF Refilled
    <3> QED
      BY <3>1, <3>2, <3>3, <3>4, AllowedFits DEF LockedFits, ConcurrencyHeld
  <2>4. ASSUME NEW S \in SUBSET Jobs, CommitClaim(w, S)
        PROVE  LockedFits' /\ ConcurrencyHeld'
    <3>1. lock = w /\ claim' = [claim EXCEPT ![w] = NoClaim] /\ policy' = policy
          /\ status' = [j \in Jobs |-> IF j \in S THEN "RUNNING" ELSE status[j]]
      BY <2>4 DEF CommitClaim, LockedFits
    <3>2. LockedFits'
      BY <3>1 DEF LockedFits, NoClaim, FreshClaim, TypeOK
    <3>3. Running' = Running \cup S
      BY <3>1 DEF Running
    <3>4. Cardinality(Running') <= Cardinality(Running) + Cardinality(S)
          /\ Cardinality(Running') \in Nat
      <4>1. IsFiniteSet(S) /\ IsFiniteSet(Running)
        BY JobsAssumption, FS_Subset, RunningFinite
      <4>2. Cardinality(Running \cup S) =
              Cardinality(Running) + Cardinality(S) - Cardinality(Running \cap S)
        BY <4>1, FS_Union
      <4>3. Cardinality(Running \cup S) \in Nat /\ Cardinality(Running \cap S) \in Nat
            /\ Cardinality(Running) \in Nat /\ Cardinality(S) \in Nat
        BY <4>1, FS_Union, FS_Intersection, FS_CardinalityType
      <4> QED
        BY <3>3, <4>2, <4>3
    <3>5. ConcurrencyHeld'
      BY <2>4, <3>1, <3>4, CommitFits, RunningFinite, PolicyType DEF ConcurrencyHeld
    <3> QED
      BY <3>2, <3>5
  <2> QED
    BY <1>1, <2>1, <2>2, <2>3, <2>4 DEF ClaimStep
<1>2. ASSUME NEW j \in Jobs, RowStep(j)
      PROVE  LockedFits' /\ ConcurrencyHeld'
  BY <1>2, RowKept, KeptKeepsLimits
<1>3. CASE Tick
  BY <1>3, TickKept, KeptKeepsLimits
<1>4. CASE UNCHANGED vars
  BY <1>4 DEF vars, LockedFits, ConcurrencyHeld, Running
<1> QED
  BY <1>1, <1>2, <1>3, <1>4 DEF Next

(* ------------------------- the ideal bucket --------------------------- *)

LEMMA BudgetTypes ==
  ASSUME TypeOK
  PROVE  /\ policy.rate \in Nat /\ policy.capacity \in Nat /\ budget \in Int
         /\ bucket.tokens \in Nat /\ bucket.age \in Nat /\ bucket.age <= MaxAge
         /\ MaxLag \in Nat /\ MaxAge \in Nat /\ MaxLag * policy.rate \in Nat
         /\ Past \in Nat /\ Recent \in Nat /\ Reach \in Nat
         /\ IdealBurst = policy.capacity + MaxLag * policy.rate /\ IdealBurst \in Nat
<1>1. /\ policy.rate \in Nat /\ policy.capacity \in Nat /\ budget \in Int
      /\ bucket.tokens \in Nat /\ bucket.age \in Nat /\ bucket.age <= MaxAge
      /\ MaxLag \in Nat /\ MaxAge \in Nat
  BY PolicyType, BoundAssumption DEF TypeOK
<1>2. Most(bucket.age - MaxLag, 0) \in Nat /\ Least(bucket.age, MaxLag) \in Nat
  BY <1>1 DEF Least, Most
<1>3. Past \in Nat /\ Recent \in Nat /\ MaxLag * policy.rate \in Nat
  BY <1>1, <1>2, ProductType DEF Past, Recent
<1>4. Reach \in Nat
  BY <1>1, <1>3 DEF Reach, Least
<1> QED
  BY <1>1, <1>3, <1>4 DEF IdealBurst

LEMMA ClaimTypes ==
  ASSUME TypeOK, NEW w \in Workers
  PROVE  /\ claim[w].lag \in Nat /\ claim[w].lag <= MaxLag
         /\ claim[w].tokens \in Nat /\ Rewound(w) \in Nat
         /\ claim[w].lag * policy.rate \in Nat
         /\ claim[w].lag * policy.rate <= MaxLag * policy.rate
         /\ Rewound(w) * policy.rate \in Nat
<1>1. /\ claim[w].lag \in Nat /\ claim[w].lag <= MaxLag /\ claim[w].tokens \in Nat
      /\ MaxLag \in Nat /\ bucket.age \in Nat /\ policy.rate \in Nat
  BY BudgetTypes DEF TypeOK
<1>2. Rewound(w) \in Nat
  BY <1>1 DEF Rewound, Most
<1> QED
  BY <1>1, <1>2, ProductType, ProductGrows

\* The age of a bucket is all of it past or recent.
LEMMA AgeSplits ==
  ASSUME TypeOK
  PROVE  /\ Past + Recent = bucket.age * policy.rate
         /\ bucket.age <= MaxLag => Past = 0 /\ Recent = bucket.age * policy.rate
         /\ bucket.age >= MaxLag => Recent = MaxLag * policy.rate
<1>1. bucket.age \in Nat /\ MaxLag \in Nat /\ policy.rate \in Nat
  BY BudgetTypes
<1>2. 0 * policy.rate = 0
        /\ (bucket.age - MaxLag) * policy.rate = bucket.age * policy.rate - MaxLag * policy.rate
        /\ bucket.age * policy.rate \in Nat /\ MaxLag * policy.rate \in Nat
  BY <1>1, ProductType
<1>3. CASE bucket.age < MaxLag
  BY <1>1, <1>2, <1>3 DEF Past, Recent, Least, Most
<1>4. CASE bucket.age >= MaxLag
  <2>1. /\ Most(bucket.age - MaxLag, 0) = bucket.age - MaxLag
        /\ Least(bucket.age, MaxLag) = MaxLag
    BY <1>1, <1>4 DEF Least, Most
  <2>2. Past = bucket.age * policy.rate - MaxLag * policy.rate
        /\ Recent = MaxLag * policy.rate
    BY <1>2, <2>1 DEF Past, Recent
  <2> QED
    BY <1>1, <1>2, <1>4, <2>2
<1> QED
  BY <1>1, <1>3, <1>4

LEMMA BudgetKept ==
  ASSUME TypeOK, BudgetCovers, Kept, bucket' = bucket, budget' = budget,
         \A v \in Workers : claim'[v].stage = "locked" => claim'[v].lag = claim[v].lag
  PROVE  BudgetCovers'
<1>1. \A v \in Workers : claim'[v].stage = "locked" =>
        /\ claim[v].stage = "locked" /\ claim'[v].tokens = claim[v].tokens
        /\ Rewound(v)' = Rewound(v)
  BY DEF Kept, Rewound
<1> QED
  BY <1>1 DEF BudgetCovers, Reach, Past, Recent, IdealBurst, Kept

LEMMA BudgetLock ==
  ASSUME TypeOK, LockedFits, BudgetCovers, NEW w \in Workers, LockBucket(w)
  PROVE  BudgetCovers'
<1>1. /\ claim'[w].tokens = Refilled(w) /\ claim'[w].lag = claim[w].lag
      /\ \A v \in Workers : v # w => claim'[v] = claim[v]
      /\ lock = NoWorker /\ UNCHANGED <<policy, status, bucket, budget>>
  BY DEF LockBucket, TypeOK
<1>2. \A v \in Workers : claim[v].stage # "locked"
  BY <1>1, NoWorkerAssumption DEF LockedFits
<1>3. ASSUME policy.rate > 0
      PROVE  Refilled(w) + claim[w].lag * policy.rate <= budget + Rewound(w) * policy.rate
  <2>1. /\ bucket.age * policy.rate \in Nat
        /\ (bucket.age - claim[w].lag) * policy.rate
             = bucket.age * policy.rate - claim[w].lag * policy.rate
        /\ (claim[w].lag - bucket.age) * policy.rate
             = claim[w].lag * policy.rate - bucket.age * policy.rate
        /\ 0 * policy.rate = 0
    BY BudgetTypes, ClaimTypes, ProductType
  <2>2. CASE ~bucket.exists
    <3>1. Refilled(w) = policy.capacity /\ budget = IdealBurst
      BY <1>3, <2>2 DEF BudgetCovers, Refilled
    <3> QED
      BY <3>1, BudgetTypes, ClaimTypes
  <2>3. CASE bucket.exists /\ claim[w].lag <= bucket.age
    <3>1. Refilled(w) = Least(policy.capacity,
                              bucket.tokens + (bucket.age * policy.rate
                                                 - claim[w].lag * policy.rate))
      <4>1. Most(bucket.age - claim[w].lag, 0) = bucket.age - claim[w].lag
        BY <2>3, BudgetTypes, ClaimTypes DEF Most
      <4> QED
        BY <1>3, <2>1, <2>3, <4>1 DEF Refilled
    <3>2. claim[w].lag * policy.rate <= Recent
      BY <2>3, AgeSplits, BudgetTypes, ClaimTypes, ProductGrows
    <3>3. Refilled(w) + claim[w].lag * policy.rate <= Reach
      BY <2>1, <3>1, <3>2, AgeSplits, BudgetTypes, ClaimTypes DEF Reach, Least
    <3>4. Refilled(w) \in Nat /\ Reach <= budget
      BY <1>3, <2>3, RefilledType DEF BudgetCovers
    <3> QED
      BY <3>3, <3>4, BudgetTypes, ClaimTypes
  <2>4. CASE bucket.exists /\ claim[w].lag > bucket.age
    <3>1. Most(bucket.age - claim[w].lag, 0) = 0 /\ Rewound(w) = claim[w].lag - bucket.age
      BY <2>4, BudgetTypes, ClaimTypes DEF Most, Rewound
    <3>2. Refilled(w) = Least(policy.capacity, bucket.tokens)
      BY <1>3, <2>1, <2>4, <3>1, BudgetTypes DEF Refilled
    <3>3. Reach = Least(policy.capacity, bucket.tokens) + bucket.age * policy.rate
      BY <2>4, AgeSplits, BudgetTypes, ClaimTypes DEF Reach
    <3>4. Refilled(w) \in Nat /\ Reach <= budget
      BY <1>3, <2>4, RefilledType DEF BudgetCovers
    <3>5. Rewound(w) * policy.rate
            = claim[w].lag * policy.rate - bucket.age * policy.rate
      BY <2>1, <3>1
    <3> QED
      BY <2>1, <3>2, <3>3, <3>4, <3>5, BudgetTypes, ClaimTypes
  <2> QED
    BY <2>2, <2>3, <2>4, BudgetTypes, ClaimTypes
<1>4. Rewound(w)' = Rewound(w) /\ Reach' = Reach /\ IdealBurst' = IdealBurst
  BY <1>1 DEF Rewound, Reach, Past, Recent, IdealBurst
<1> QED
  BY <1>1, <1>2, <1>3, <1>4 DEF BudgetCovers

LEMMA BudgetCommit ==
  ASSUME TypeOK, LockedFits, ConcurrencyHeld, BudgetCovers,
         NEW w \in Workers, NEW S, CommitClaim(w, S)
  PROVE  BudgetCovers'
<1>1. SUFFICES ASSUME policy.rate > 0
               PROVE  BudgetCovers'
  BY DEF BudgetCovers, CommitClaim
<1> DEFINE cost == Cardinality(S) * Unit
<1>2. /\ claim' = [claim EXCEPT ![w] = NoClaim] /\ policy' = policy
      /\ lock = w /\ claim[w].stage = "locked"
      /\ bucket' = [exists |-> TRUE, age |-> claim[w].lag, tokens |-> claim[w].tokens - cost]
      /\ budget' = Charged(w, Cardinality(S))
  BY <1>1, PolicyType DEF CommitClaim, LockedFits
<1>3. \A v \in Workers : claim'[v].stage # "locked"
  BY <1>2 DEF LockedFits, NoClaim, FreshClaim, TypeOK
<1>4. cost \in Nat /\ cost <= claim[w].tokens /\ claim[w].tokens <= policy.capacity
  BY <1>1, <1>2, CommitFits, ProductType, BoundAssumption DEF LockedFits
<1>5. Reach' = (claim[w].tokens - cost) + claim[w].lag * policy.rate
  <2>1. /\ Most(claim[w].lag - MaxLag, 0) = 0 /\ 0 * policy.rate = 0
        /\ Least(claim[w].lag, MaxLag) = claim[w].lag
    BY BudgetTypes, ClaimTypes DEF Least, Most
  <2>2. Past' = 0 /\ Recent' = claim[w].lag * policy.rate
    BY <1>2, <2>1 DEF Past, Recent
  <2>3. Least(policy.capacity, claim[w].tokens - cost) = claim[w].tokens - cost
    BY <1>4, BudgetTypes, ClaimTypes DEF Least
  <2> QED
    BY <1>2, <1>4, <2>2, <2>3, BudgetTypes, ClaimTypes DEF Reach
<1>6. Reach' <= Charged(w, Cardinality(S)) /\ Charged(w, Cardinality(S)) <= IdealBurst
  <2>1. claim[w].tokens + claim[w].lag * policy.rate <= budget + Rewound(w) * policy.rate
    BY <1>1, <1>2 DEF BudgetCovers
  <2> HIDE DEF cost
  <2>2. Charged(w, Cardinality(S)) = Least(IdealBurst, budget - cost + Rewound(w) * policy.rate)
    BY DEF Charged, cost
  <2> QED
    BY <1>4, <1>5, <2>1, <2>2, BudgetTypes, ClaimTypes DEF Least
<1>7. IdealBurst' = IdealBurst
  BY <1>2 DEF IdealBurst
<1> QED
  BY <1>2, <1>3, <1>6, <1>7 DEF BudgetCovers

LEMMA BudgetRelease ==
  ASSUME TypeOK, LockedFits, BudgetCovers, NEW w \in Workers, NEW j \in Jobs, Release(w, j)
  PROVE  BudgetCovers'
<1>1. SUFFICES ASSUME policy.rate > 0
               PROVE  BudgetCovers'
  BY DEF BudgetCovers, Release
<1>2. /\ bucket' = [bucket EXCEPT !.tokens = @ + Unit] /\ lock = NoWorker
      /\ budget' = Least(IdealBurst, budget + Unit)
      /\ status[j] = "RUNNING" /\ UNCHANGED <<policy, claim>>
  BY <1>1, PolicyType DEF Release
<1>3. /\ bucket'.tokens = bucket.tokens + Unit /\ bucket'.age = bucket.age
      /\ bucket.exists /\ bucket'.exists
  BY <1>1, <1>2 DEF TypeOK, BudgetCovers
<1>4. \A v \in Workers : claim'[v].stage # "locked"
  BY <1>2, NoWorkerAssumption DEF LockedFits
<1>5. /\ Reach' = Least(policy.capacity, bucket.tokens + Unit + Past) + Recent
      /\ IdealBurst' = IdealBurst
  BY <1>2, <1>3 DEF Reach, Past, Recent, IdealBurst
<1>6. Recent <= MaxLag * policy.rate
  BY AgeSplits, BudgetTypes, ProductGrows
<1>7. Reach' <= budget' /\ budget' <= IdealBurst
  BY <1>1, <1>2, <1>3, <1>5, <1>6, BudgetTypes, BoundAssumption
     DEF BudgetCovers, Reach, Least
<1> QED
  BY <1>2, <1>3, <1>4, <1>5, <1>7 DEF BudgetCovers

\* Once the age is no longer counted the bucket has refilled, whatever claim looks.
LEMMA OldBucket ==
  ASSUME TypeOK, policy.rate > 0, bucket.age = MaxAge
  PROVE  Reach = IdealBurst
<1>1. /\ policy.rate \in Nat /\ policy.capacity \in Nat \ {0}
      /\ policy.rate * (MaxAge - MaxLag) >= policy.capacity
  BY PolicyType
<1>2. MaxAge \in Nat /\ MaxLag \in Nat
  BY BoundAssumption
<1>3. MaxLag < MaxAge
  <2>1. SUFFICES ASSUME MaxAge <= MaxLag
                 PROVE  FALSE
    BY <1>2
  <2>2. (MaxLag - MaxAge) * policy.rate \in Nat
    BY <1>1, <1>2, <2>1, ProductType
  <2>3. policy.rate * (MaxAge - MaxLag) = 0 - (MaxLag - MaxAge) * policy.rate
    BY <1>1, <1>2
  <2> QED
    BY <1>1, <2>2, <2>3
<1>4. Most(bucket.age - MaxLag, 0) = MaxAge - MaxLag
  BY <1>2, <1>3 DEF Most
<1>5. Past >= policy.capacity
  <2>1. Past = policy.rate * (MaxAge - MaxLag)
    BY <1>1, <1>2, <1>4 DEF Past
  <2> QED
    BY <1>1, <2>1
<1>6. Recent = MaxLag * policy.rate
  BY <1>2, <1>3, AgeSplits
<1> QED
  BY <1>5, <1>6, BudgetTypes DEF Reach, Least

LEMMA BudgetTick ==
  ASSUME TypeOK, LockedFits, BudgetCovers, Tick
  PROVE  BudgetCovers'
<1>1. /\ policy.rate > 0 /\ policy' = policy /\ status' = status /\ lock' = lock
      /\ budget' = Least(IdealBurst, budget + policy.rate)
      /\ bucket' = IF bucket.exists THEN [bucket EXCEPT !.age = Least(MaxAge, @ + 1)]
                   ELSE bucket
      /\ IdealBurst' = IdealBurst
  BY DEF Tick, IdealBurst
<1> DEFINE age == bucket.age
<1>0. /\ age \in Nat /\ age <= MaxAge /\ MaxAge \in Nat /\ MaxLag \in Nat
      /\ policy.rate \in Nat /\ policy' = policy /\ policy'.rate = policy.rate
  BY <1>1, BudgetTypes
<1>2. /\ budget \in Int /\ budget' \in Int /\ IdealBurst \in Nat
      /\ budget <= IdealBurst /\ budget' <= IdealBurst
      /\ budget = IdealBurst => budget' = IdealBurst
  BY <1>1, BudgetTypes DEF BudgetCovers, Least
<1>3. ASSUME bucket.exists
      PROVE  Reach' <= budget'
  <2>1. bucket'.exists /\ bucket'.tokens = bucket.tokens
        /\ bucket'.age = Least(MaxAge, age + 1)
    BY <1>1, <1>3 DEF TypeOK
  <2>2. CASE bucket.age = MaxAge
    <3>1. bucket'.age = bucket.age
      BY <1>0, <2>1, <2>2 DEF Least
    <3>2. Reach' = Reach
      BY <1>1, <2>1, <3>1 DEF Reach, Past, Recent
    <3> QED
      BY <1>1, <1>2, <1>3, <2>2, <3>2, OldBucket, BudgetTypes DEF BudgetCovers
  <2>3. CASE bucket.age < MaxAge
    <3>1. bucket'.age = age + 1
      BY <1>0, <2>1, <2>3 DEF Least
    <3>2. Past' + Recent' = Past + Recent + policy.rate /\ Past' \in Nat
          /\ Past' >= Past /\ Recent' >= Recent /\ Recent' <= MaxLag * policy.rate
      <4>1. (age + 1) * policy.rate = age * policy.rate + policy.rate
            /\ 0 * policy.rate = 0
        BY <1>0, Distribute
      <4>2. CASE bucket.age < MaxLag
        <5>1. /\ Most((age + 1) - MaxLag, 0) = 0
              /\ Least(age + 1, MaxLag) = age + 1
          BY <1>0, <4>2 DEF Least, Most
        <5>2. Past' = 0 /\ Recent' = (age + 1) * policy.rate
          BY <1>0, <3>1, <4>1, <5>1 DEF Past, Recent
        <5>3. (age + 1) * policy.rate <= MaxLag * policy.rate
          BY <1>0, <4>2, ProductGrows
        <5> QED
          BY <4>1, <4>2, <5>2, <5>3, AgeSplits, BudgetTypes
      <4>3. CASE bucket.age >= MaxLag
        <5>1. /\ Most((age + 1) - MaxLag, 0) = Most(age - MaxLag, 0) + 1
              /\ Least(age + 1, MaxLag) = Least(age, MaxLag)
              /\ Most(age - MaxLag, 0) \in Nat
          BY <1>0, <4>3 DEF Least, Most
        <5>2. (Most(age - MaxLag, 0) + 1) * policy.rate
                = Most(age - MaxLag, 0) * policy.rate + policy.rate
          <6> DEFINE m == Most(age - MaxLag, 0)
          <6>1. m \in Int /\ policy.rate \in Int
            BY <1>0, <5>1
          <6> HIDE DEF m
          <6>2. (m + 1) * policy.rate = m * policy.rate + policy.rate
            BY <6>1, Distribute
          <6> QED
            BY <6>2 DEF m
        <5>3. Past' = Past + policy.rate /\ Recent' = Recent
          BY <1>0, <3>1, <5>1, <5>2 DEF Past, Recent
        <5> QED
          BY <4>3, <5>3, AgeSplits, BudgetTypes
      <4> QED
        BY <1>0, <4>2, <4>3
    <3>3. Reach' = Least(policy.capacity, bucket.tokens + Past') + Recent'
      BY <1>1, <2>1 DEF Reach
    <3>4. Reach <= budget
      BY <1>1, <1>3 DEF BudgetCovers
    <3>5. Recent' \in Int
      <4>1. bucket'.age \in Nat
        BY <1>0, <3>1
      <4> QED
        BY <1>0, <4>1 DEF Recent, Least
    <3> QED
      BY <1>1, <3>2, <3>3, <3>4, <3>5, BudgetTypes DEF Reach, Least
  <2> QED
    BY <1>0, <2>2, <2>3
<1>4. ASSUME NEW v \in Workers, claim'[v].stage = "locked"
      PROVE  claim'[v].tokens + claim'[v].lag * policy.rate
               <= budget' + Rewound(v)' * policy.rate
  <2>1. /\ claim[v].stage = "locked" /\ claim'[v].tokens = claim[v].tokens
        /\ claim'[v].lag = claim[v].lag + 1 /\ claim[v].lag < MaxLag
    BY <1>4 DEF Tick, TypeOK
  <2>2. (claim[v].lag + 1) * policy.rate = claim[v].lag * policy.rate + policy.rate
        /\ (claim[v].lag + 1) * policy.rate <= MaxLag * policy.rate
    <3>1. claim[v].lag + 1 \in Nat /\ claim[v].lag + 1 <= MaxLag
      BY <1>0, <2>1, ClaimTypes
    <3> QED
      BY <1>0, <3>1, ClaimTypes, Distribute, ProductGrows
  <2>3. claim[v].tokens <= policy.capacity
        /\ claim[v].tokens + claim[v].lag * policy.rate <= budget + Rewound(v) * policy.rate
    BY <1>1, <2>1 DEF LockedFits, BudgetCovers
  <2>4. Rewound(v)' \in Nat /\ Rewound(v)' * policy.rate \in Nat
    <3>1. bucket'.age \in Int
      BY <1>1, BudgetTypes DEF Least, TypeOK
    <3>2. Rewound(v)' \in Nat
      BY <2>1, <3>1, ClaimTypes DEF Rewound, Most
    <3> QED
      BY <3>2, BudgetTypes, ProductType
  <2>5. CASE budget = IdealBurst
    BY <1>2, <2>1, <2>2, <2>3, <2>4, <2>5, BudgetTypes, ClaimTypes
  <2>6. CASE budget # IdealBurst
    <3>1. bucket.exists
      BY <1>1, <2>6 DEF BudgetCovers
    <3>2. age # MaxAge
      <4>1. SUFFICES ASSUME bucket.age = MaxAge
                     PROVE  FALSE
        OBVIOUS
      <4>2. Reach = IdealBurst /\ Reach <= budget
        BY <1>1, <3>1, <4>1, OldBucket DEF BudgetCovers
      <4> QED
        BY <1>2, <2>6, <4>2
    <3>3. bucket'.exists /\ bucket'.age = age + 1
      <4>1. bucket'.exists /\ bucket'.age = Least(MaxAge, age + 1)
        BY <1>1, <3>1 DEF TypeOK
      <4> QED
        BY <1>0, <3>2, <4>1 DEF Least
    <3>4. Rewound(v)' = Rewound(v)
      BY <1>0, <2>1, <3>1, <3>3, ClaimTypes DEF Rewound, Most
    <3> QED
      BY <1>1, <2>1, <2>2, <2>3, <3>4, BudgetTypes, ClaimTypes DEF Least
  <2> QED
    BY <2>5, <2>6
<1>5. bucket'.exists = bucket.exists /\ (~bucket.exists => bucket' = bucket)
  BY <1>1 DEF TypeOK
<1> QED
  BY <1>1, <1>2, <1>3, <1>4, <1>5 DEF BudgetCovers

LEMMA BudgetStep ==
  ASSUME TypeOK, LockedFits, ConcurrencyHeld, BudgetCovers, [Next]_vars
  PROVE  BudgetCovers'
<1>1. ASSUME NEW w \in Workers, ClaimStep(w)
      PROVE  BudgetCovers'
  <2>1. CASE \E limit \in 1..MaxLimit : BeginClaim(w, limit)
    <3>1. /\ UNCHANGED <<policy, status, lock, bucket, budget>>
          /\ \A v \in Workers : claim'[v].stage = "locked" => claim'[v] = claim[v]
      BY <2>1 DEF BeginClaim, FreshClaim, TypeOK
    <3> QED
      BY <3>1, BudgetKept DEF Kept
  <2>2. CASE SkipBucket(w) \/ NothingDue(w) \/ AbortClaim(w) \/ Die(w)
    <3>1. /\ UNCHANGED <<policy, status, bucket, budget>>
          /\ claim' = [claim EXCEPT ![w] = NoClaim]
          /\ lock' = lock \/ lock' = IF lock = w THEN NoWorker ELSE lock
      BY <2>2 DEF SkipBucket, NothingDue, AbortClaim, Die
    <3>2. \A v \in Workers : claim'[v].stage = "locked" => v # w /\ claim'[v] = claim[v]
      BY <3>1 DEF NoClaim, FreshClaim, TypeOK
    <3> QED
      BY <3>1, <3>2, BudgetKept DEF Kept
  <2>3. CASE LockBucket(w)
    BY <2>3, BudgetLock
  <2>4. ASSUME NEW S \in SUBSET Jobs, CommitClaim(w, S)
        PROVE  BudgetCovers'
    BY <2>4, BudgetCommit
  <2> QED
    BY <1>1, <2>1, <2>2, <2>3, <2>4 DEF ClaimStep
<1>2. ASSUME NEW j \in Jobs, RowStep(j)
      PROVE  BudgetCovers'
  <2>1. CASE \E w \in Workers : Release(w, j)
    BY <2>1, BudgetRelease
  <2>2. CASE Enqueue(j) \/ ComeDue(j)
    <3>1. bucket' = bucket /\ budget' = budget /\ claim' = MissedByClaims(j)
      BY <2>2 DEF Enqueue, ComeDue
    <3>2. \A v \in Workers : claim'[v].lag = claim[v].lag
      BY <3>1 DEF MissedByClaims, TypeOK
    <3> QED
      BY <1>2, <3>1, <3>2, RowKept, BudgetKept
  <2>3. CASE Cancel(j) \/ EndRun(j) \/ Orphan(j) \/ Reap(j)
    <3>1. bucket' = bucket /\ budget' = budget /\ claim' = claim
      BY <2>3 DEF Cancel, EndRun, Orphan, Reap
    <3> QED
      BY <1>2, <3>1, RowKept, BudgetKept
  <2> QED
    BY <1>2, <2>1, <2>2, <2>3 DEF RowStep
<1>3. CASE Tick
  BY <1>3, BudgetTick
<1>4. CASE UNCHANGED vars
  BY <1>4 DEF vars, BudgetCovers, Reach, Past, Recent, IdealBurst, Rewound
<1> QED
  BY <1>1, <1>2, <1>3, <1>4 DEF Next

LEMMA ChargeStep ==
  ASSUME TypeOK, NothingCharged, [Next]_vars
  PROVE  NothingCharged'
<1> DEFINE Quiet == policy' = policy /\ (policy.rate = 0 => budget' = budget)
<1>1. ASSUME NEW w \in Workers, ClaimStep(w)
      PROVE  Quiet
  <2>1. ASSUME NEW S, CommitClaim(w, S)
        PROVE  Quiet
    BY <2>1 DEF CommitClaim
  <2>2. ASSUME NEW limit, BeginClaim(w, limit)
        PROVE  Quiet
    BY <2>2 DEF BeginClaim
  <2>3. CASE LockBucket(w) \/ SkipBucket(w) \/ NothingDue(w) \/ AbortClaim(w) \/ Die(w)
    BY <2>3 DEF LockBucket, SkipBucket, NothingDue, AbortClaim, Die
  <2> QED
    BY <1>1, <2>1, <2>2, <2>3 DEF ClaimStep
<1>2. ASSUME NEW j \in Jobs, RowStep(j)
      PROVE  Quiet
  <2>1. ASSUME NEW w, Release(w, j)
        PROVE  Quiet
    BY <2>1 DEF Release
  <2>2. CASE Enqueue(j) \/ ComeDue(j) \/ Cancel(j) \/ EndRun(j) \/ Orphan(j) \/ Reap(j)
    BY <2>2 DEF Enqueue, ComeDue, Cancel, EndRun, Orphan, Reap
  <2> QED
    BY <1>2, <2>1, <2>2 DEF RowStep
<1>3. ASSUME Tick
      PROVE  Quiet
  <2>1. policy.rate \in Nat /\ policy.rate > 0 /\ policy' = policy
    BY <1>3, PolicyType DEF Tick
  <2> QED
    BY <2>1
<1>4. ASSUME UNCHANGED vars
      PROVE  Quiet
  <2>1. policy' = policy /\ budget' = budget
    BY <1>4 DEF vars
  <2> QED
    BY <2>1
<1>5. Quiet
  <2> HIDE DEF Quiet
  <2> QED
    BY <1>1, <1>2, <1>3, <1>4 DEF Next
<1> QED
  BY <1>5 DEF NothingCharged, IdealBurst

(* ----------------------------- theorems ------------------------------- *)

LEMMA InvInit == Init => Inv
<1>1. SUFFICES ASSUME Init
               PROVE  Inv
  OBVIOUS
<1>2. TypeOK
  BY <1>1, TypeInit
<1>3. \A w \in Workers : claim[w].stage # "locked"
  BY <1>1 DEF Init, NoClaim, FreshClaim
<1>4. LockedFits
  BY <1>3 DEF LockedFits
<1>5. ConcurrencyHeld
  <2>1. Running = {}
    BY <1>1 DEF Init, Running
  <2> QED
    BY <2>1, <1>2, FS_EmptySet, PolicyType DEF ConcurrencyHeld
<1>6. BudgetCovers
  BY <1>1, <1>2, <1>3, BudgetTypes DEF BudgetCovers, Init
<1>7. NothingCharged
  BY <1>1 DEF Init, NothingCharged
<1> QED
  BY <1>2, <1>4, <1>5, <1>6, <1>7 DEF Inv

LEMMA InvStep == Inv /\ [Next]_vars => Inv'
  BY TypeStep, LimitsStep, BudgetStep, ChargeStep DEF Inv

\* An ideal bucket that is not behind the real one is never overdrawn.
LEMMA InvHoldsRate == Inv => RateHeld
<1>1. SUFFICES ASSUME Inv
               PROVE  RateHeld
  OBVIOUS
<1>2. TypeOK /\ BudgetCovers /\ NothingCharged
  BY <1>1 DEF Inv
<1> QED
  BY <1>2, BudgetTypes DEF BudgetCovers, NothingCharged, RateHeld

LEMMA InvAlways == Spec => []Inv
<1>1. Init => Inv
  BY InvInit
<1>2. Inv /\ [Next]_vars => Inv'
  BY InvStep
<1> QED
  BY <1>1, <1>2, PTL DEF Spec

\* Whatever workers claim the rows of a path, and however their claims, releases
\* and deaths fall together, no more run than the concurrency limit allows, and
\* they do not outpace the rate.
THEOREM LimitsAreKept == Spec => [](TypeOK /\ ConcurrencyHeld /\ RateHeld)
<1>1. Inv => TypeOK /\ ConcurrencyHeld /\ RateHeld
  BY InvHoldsRate DEF Inv
<1> QED
  BY <1>1, InvAlways, PTL

=============================================================================
