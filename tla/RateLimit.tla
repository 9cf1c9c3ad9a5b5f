----------------------------- MODULE RateLimit -----------------------------
(***************************************************************************)
(* How workers claim the tasks of one @rate_limit path: the token bucket    *)
(* and the concurrency limit that all workers share, the transaction of     *)
(* PostgresBroker.claim that reads and writes them, and what happens to the *)
(* path's rows meanwhile.                                                   *)
(*                                                                          *)
(* Tokens are counted in parts, Unit to a token, so that a rate is a whole   *)
(* number of parts per tick.  A time stamp is kept as its distance to the    *)
(* present: age is now - updated_at, lag is now - the clock a claim read.    *)
(***************************************************************************)
EXTENDS Integers, FiniteSets

CONSTANTS
  Workers,      \* workers that claim from the queue of the path
  NoWorker,     \* claimed_by = "", or nobody left to answer for the claim
  Jobs,         \* rows of the path; one stands for all that follow each other
  Unit,         \* parts of a token
  Policies,     \* the limits the path may have been declared with
  MaxLimit,     \* a claim asks for at most this many rows
  MaxLag,       \* bound: ticks a claim may take from its clock reading to its end
  MaxAge        \* bound: the age of a bucket is counted up to here

ASSUME NoWorkerAssumption == NoWorker \notin Workers
ASSUME JobsAssumption == IsFiniteSet(Jobs)
ASSUME BoundAssumption ==
  Unit \in Nat \ {0} /\ MaxLimit \in Nat \ {0} /\ MaxLag \in Nat /\ MaxAge \in Nat

\* rate 0 and concurrency 0 stand for None: that limit was not declared.  A
\* bucket whose age is no longer counted has refilled, whatever claim looks.
ASSUME PolicyAssumption ==
  \A p \in Policies :
    /\ p \in [rate : Nat, capacity : Nat \ {0}, concurrency : Nat]
    /\ p.rate > 0 => p.rate * (MaxAge - MaxLag) >= p.capacity

VARIABLES
  policy,   \* the declared limits, the same in every worker
  status,   \* READY (and due), RUNNING, or later: finished, or not due before a
            \* run_after to come
  owner,    \* the worker that answers for the RUNNING row, NoWorker once it died
  bucket,   \* the RateLimitBucket row
  lock,     \* the worker whose transaction holds the bucket row
  claim,    \* the claim() under way in each worker
  budget    \* history: what an ideal bucket would hold, see IdealBurst

vars == <<policy, status, owner, bucket, lock, claim, budget>>

Least(a, b) == IF a <= b THEN a ELSE b
Most(a, b) == IF a >= b THEN a ELSE b

(* ------------------------- what is declared -------------------------- *)

\* '10/m': the refill per tick and the burst; both in parts.
parse_rate(count, period) == [rate |-> count \div period, burst |-> count]

\* @rate_limit(rate=, burst=, concurrency=), with 0 for an argument left out.
rate_limit(count, period, burst, concurrency) ==
  [rate        |-> IF count = 0 THEN 0 ELSE parse_rate(count, period).rate,
   capacity    |-> IF count = 0 THEN Unit
                   ELSE IF burst = 0 THEN parse_rate(count, period).burst
                   ELSE burst * Unit,
   concurrency |-> concurrency]

(* ----------------------------- one claim ----------------------------- *)

\* A claim that has not read the bucket yet.
FreshClaim(stage, limit) ==
  [stage |-> stage, limit |-> limit, lag |-> 0, late |-> {}, tokens |-> 0, allowed |-> 0]

NoClaim == FreshClaim("none", 0)

Running == {j \in Jobs : status[j] = "RUNNING"}

\* The rows a claim finds: READY with a run_after up to the clock it read.
Due(w) == {j \in Jobs : status[j] = "READY"} \ claim[w].late

\* Faulty: only whole tokens are saved, the rest of the refill is lost.
RefilledWhole(w) ==
  IF ~bucket.exists \/ policy.rate = 0 THEN bucket.tokens
  ELSE LET tokens == bucket.tokens + Most(bucket.age - claim[w].lag, 0) * policy.rate
       IN  Least(policy.capacity, (tokens \div Unit) * Unit)

\* The tokens once the time between two clock readings is paid in.
Refilled(w) ==
  IF ~bucket.exists \/ policy.rate = 0 THEN bucket.tokens
  ELSE Least(policy.capacity,
             bucket.tokens + Most(bucket.age - claim[w].lag, 0) * policy.rate)

\* Faulty: the concurrency limit counts the runs of this worker alone.
AllowedPerWorker(w) ==
  LET byRate == IF policy.rate = 0 THEN claim[w].limit
                ELSE Least(claim[w].limit, Refilled(w) \div Unit)
      mine == {j \in Running : owner[j] = w}
  IN  IF policy.concurrency = 0 THEN byRate
      ELSE Least(byRate, policy.concurrency - Cardinality(mine))

\* How many rows the limits let this claim take.
Allowed(w) ==
  LET byRate == IF policy.rate = 0 THEN claim[w].limit
                ELSE Least(claim[w].limit, Refilled(w) \div Unit)
  IN  IF policy.concurrency = 0 THEN byRate
      ELSE Least(byRate, policy.concurrency - Cardinality(Running))

\* claim() reads the clock, and the rows' run_after is compared with that.
BeginClaim(w, limit) ==
  /\ claim[w].stage = "none"
  /\ claim' = [claim EXCEPT ![w] = FreshClaim("begun", limit)]
  /\ UNCHANGED <<policy, status, owner, bucket, lock, budget>>

\* The path has due work: the bucket is inserted full unless it exists, and
\* locked.  An insert waits for one that is not committed yet.
LockBucket(w) ==
  /\ claim[w].stage = "begun" /\ Due(w) # {}
  /\ lock = NoWorker
  /\ lock' = w
  /\ claim' = [claim EXCEPT ![w].stage = "locked", ![w].tokens = Refilled(w),
                            ![w].allowed = Allowed(w)]
  /\ UNCHANGED <<policy, status, owner, bucket, budget>>

\* SKIP LOCKED: another claim has the bucket, so the path is left alone.
SkipBucket(w) ==
  /\ claim[w].stage = "begun" /\ Due(w) # {}
  /\ lock # NoWorker /\ bucket.exists
  /\ claim' = [claim EXCEPT ![w] = NoClaim]
  /\ UNCHANGED <<policy, status, owner, bucket, lock, budget>>

NothingDue(w) ==
  /\ claim[w].stage = "begun" /\ Due(w) = {}
  /\ claim' = [claim EXCEPT ![w] = NoClaim]
  /\ UNCHANGED <<policy, status, owner, bucket, lock, budget>>

\* Faulty: as many as the worker asked for.
PicksAsked(w) ==
  {S \in SUBSET Due(w) :
     Cardinality(S) = Least(claim[w].limit, Cardinality(Due(w)))}

\* The rows that a claim may end up with: as many as allowed, or all of them.
\* Which ones is a matter of priority and run_after.
Picks(w) ==
  {S \in SUBSET Due(w) :
     Cardinality(S) = Least(Most(claim[w].allowed, 0), Cardinality(Due(w)))}

\* By how much a claim that read the clock before the last one did moves
\* updated_at back: the next claim is paid that time once more.
Rewound(w) == IF bucket.exists THEN Most(claim[w].lag - bucket.age, 0) ELSE 0

\* The ideal bucket is charged when a claim commits, and refilled as time passes.
\* It holds the declared burst and what refills in the longest claim: the time
\* from the clock reading of a claim to its commit is the next one's to spend.
IdealBurst == policy.capacity + MaxLag * policy.rate

\* What it holds after a claim of n rows.  They cost all of their tokens; what
\* the claim makes the next one be paid twice is paid in here too.
Charged(w, n) ==
  Least(IdealBurst, budget - n * Unit + Rewound(w) * policy.rate)

\* Faulty: updated_at is not among the fields that are saved.
CommitClaimTokens(w, S) ==
  /\ claim[w].stage = "locked" /\ S \in Picks(w)
  /\ status' = [j \in Jobs |-> IF j \in S THEN "RUNNING" ELSE status[j]]
  /\ owner' = [j \in Jobs |-> IF j \in S THEN w ELSE owner[j]]
  /\ bucket' = IF policy.rate = 0 THEN [bucket EXCEPT !.exists = TRUE]
               ELSE [exists |-> TRUE, age |-> bucket.age,
                     tokens |-> claim[w].tokens - Cardinality(S) * Unit]
  /\ budget' = IF policy.rate = 0 THEN budget ELSE Charged(w, Cardinality(S))
  /\ lock' = IF lock = w THEN NoWorker ELSE lock
  /\ claim' = [claim EXCEPT ![w] = NoClaim]
  /\ UNCHANGED policy

\* The bucket is saved with the clock the claim read, the rows become RUNNING.
CommitClaim(w, S) ==
  /\ claim[w].stage = "locked" /\ S \in Picks(w)
  /\ status' = [j \in Jobs |-> IF j \in S THEN "RUNNING" ELSE status[j]]
  /\ owner' = [j \in Jobs |-> IF j \in S THEN w ELSE owner[j]]
  /\ bucket' = IF policy.rate = 0 THEN [bucket EXCEPT !.exists = TRUE]
               ELSE [exists |-> TRUE, age |-> claim[w].lag,
                     tokens |-> claim[w].tokens - Cardinality(S) * Unit]
  /\ budget' = IF policy.rate = 0 THEN budget ELSE Charged(w, Cardinality(S))
  /\ lock' = IF lock = w THEN NoWorker ELSE lock
  /\ claim' = [claim EXCEPT ![w] = NoClaim]
  /\ UNCHANGED policy

\* The statement fails or the connection drops: the transaction, an inserted
\* bucket included, is rolled back.
AbortClaim(w) ==
  /\ claim[w].stage # "none"
  /\ lock' = IF lock = w THEN NoWorker ELSE lock
  /\ claim' = [claim EXCEPT ![w] = NoClaim]
  /\ UNCHANGED <<policy, status, owner, bucket, budget>>

\* Faulty: there is a hint for a missing token only, none for a missing slot.
WaitHintOfRate(w) ==
  /\ claim[w].allowed < claim[w].limit
  /\ policy.rate > 0 /\ claim[w].tokens < Unit

\* A claim that asked for more than the limits allow comes back with a wait
\* hint: until a token is due, or a moment if it may be a slot.
WaitHint(w) == claim[w].allowed < claim[w].limit

(* --------------------- the rows outside of claims --------------------- *)

\* A row whose run_after is set to the present is not due for the claims that
\* have read the clock before.
MissedByClaims(j) ==
  [v \in Workers |-> IF claim[v].stage = "none" THEN claim[v]
                    ELSE [claim[v] EXCEPT !.late = @ \cup {j}]]

\* enqueue(), or requeue() of a finished row, for now.
Enqueue(j) ==
  /\ status[j] = "later"
  /\ status' = [status EXCEPT ![j] = "READY"]
  /\ claim' = MissedByClaims(j)
  /\ UNCHANGED <<policy, owner, bucket, lock, budget>>

\* run_after of a delayed or retried row passes: nothing but the clock happens.
ComeDue(j) == Enqueue(j)

\* cancel() of a row that waits.
Cancel(j) ==
  /\ status[j] = "READY"
  /\ status' = [status EXCEPT ![j] = "later"]
  /\ UNCHANGED <<policy, owner, bucket, lock, claim, budget>>

\* The run is over: its row is finished, or is retried after a delay (nack).
EndRun(j) ==
  /\ status[j] = "RUNNING" /\ owner[j] # NoWorker
  /\ status' = [status EXCEPT ![j] = "later"]
  /\ owner' = [owner EXCEPT ![j] = NoWorker]
  /\ UNCHANGED <<policy, bucket, lock, claim, budget>>

\* release(): the claim is handed back unrun with its token, in a transaction
\* that waits for the bucket row.  run_after stays as it was, so the row is due
\* for every claim.
Release(w, j) ==
  /\ status[j] = "RUNNING" /\ owner[j] = w
  /\ lock = NoWorker
  /\ status' = [status EXCEPT ![j] = "READY"]
  /\ owner' = [owner EXCEPT ![j] = NoWorker]
  /\ bucket' = IF policy.rate = 0 THEN bucket
               ELSE [bucket EXCEPT !.tokens = @ + Unit]
  /\ budget' = IF policy.rate = 0 THEN budget
               ELSE Least(IdealBurst, budget + Unit)
  /\ UNCHANGED <<policy, lock, claim>>

\* Nobody answers for the row any more, its worker being dead or its release
\* having failed; reclaim_stale hands it back with a delay, and fails it after
\* the last attempt.
Orphan(j) ==
  /\ status[j] = "RUNNING" /\ owner[j] # NoWorker
  /\ owner' = [owner EXCEPT ![j] = NoWorker]
  /\ UNCHANGED <<policy, status, bucket, lock, claim, budget>>

Reap(j) ==
  /\ status[j] = "RUNNING" /\ owner[j] = NoWorker
  /\ status' = [status EXCEPT ![j] = "later"]
  /\ UNCHANGED <<policy, owner, bucket, lock, claim, budget>>

\* The worker dies: its transaction is rolled back, its rows are orphans.
Die(w) ==
  /\ lock' = IF lock = w THEN NoWorker ELSE lock
  /\ claim' = [claim EXCEPT ![w] = NoClaim]
  /\ owner' = [j \in Jobs |-> IF owner[j] = w THEN NoWorker ELSE owner[j]]
  /\ UNCHANGED <<policy, status, bucket, budget>>

\* Time passes, and refills the ideal bucket.  Without a rate nothing depends
\* on it.  No claim lasts longer than MaxLag.
Tick ==
  /\ policy.rate > 0
  /\ \A w \in Workers : claim[w].stage # "none" => claim[w].lag < MaxLag
  /\ claim' = [w \in Workers |-> IF claim[w].stage = "none" THEN claim[w]
                                ELSE [claim[w] EXCEPT !.lag = @ + 1]]
  /\ bucket' = IF bucket.exists THEN [bucket EXCEPT !.age = Least(MaxAge, @ + 1)]
               ELSE bucket
  /\ budget' = Least(IdealBurst, budget + policy.rate)
  /\ UNCHANGED <<policy, status, owner, lock>>

Init ==
  /\ policy \in Policies
  /\ status = [j \in Jobs |-> "later"]
  /\ owner = [j \in Jobs |-> NoWorker]
  /\ bucket = [exists |-> FALSE, tokens |-> policy.capacity, age |-> 0]
  /\ lock = NoWorker
  /\ claim = [w \in Workers |-> NoClaim]
  /\ budget = IdealBurst

ClaimStep(w) ==
  \/ \E limit \in 1..MaxLimit : BeginClaim(w, limit)
  \/ LockBucket(w) \/ SkipBucket(w) \/ NothingDue(w)
  \/ \E S \in SUBSET Jobs : CommitClaim(w, S)
  \/ AbortClaim(w) \/ Die(w)

RowStep(j) ==
  \/ Enqueue(j) \/ ComeDue(j) \/ Cancel(j) \/ EndRun(j) \/ Orphan(j) \/ Reap(j)
  \/ \E w \in Workers : Release(w, j)

Next ==
  \/ \E w \in Workers : ClaimStep(w)
  \/ \E j \in Jobs : RowStep(j)
  \/ Tick

Spec == Init /\ [][Next]_vars

(* ---------------------------- properties ----------------------------- *)

TypeOK ==
  /\ policy \in Policies
  /\ status \in [Jobs -> {"later", "READY", "RUNNING"}]
  /\ owner \in [Jobs -> Workers \cup {NoWorker}]
  /\ bucket \in [exists : BOOLEAN, tokens : Nat, age : 0..MaxAge]
  /\ lock \in Workers \cup {NoWorker}
  /\ claim \in [Workers -> [stage : {"none", "begun", "locked"}, limit : 0..MaxLimit,
                           lag : 0..MaxLag, late : SUBSET Jobs,
                           tokens : Nat, allowed : Int]]
  /\ budget \in Int

\* The rate is kept across all workers: in any period, the claims that commit
\* less those handed back are no more than the declared burst and what the
\* declared rate refills in the period, in one claim's duration before it, and
\* in the time that claims out of the order of their clocks refill twice.
RateHeld == budget >= 0

\* @rate_limit(concurrency=n): n rows of the path RUNNING at most, whichever
\* workers claim them, and counting those whose worker died.
ConcurrencyHeld ==
  policy.concurrency > 0 => Cardinality(Running) <= policy.concurrency

=============================================================================
