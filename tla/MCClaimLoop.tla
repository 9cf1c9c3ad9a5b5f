---------------------------- MODULE MCClaimLoop ----------------------------
(* Instances of ClaimLoop for TLC. *)
EXTENDS ClaimLoop, TLC

CONSTANTS w1, w2

\* One run at a time; as many as there are rows; a burst of one refilled at half
\* a token per tick.
OneAtATime == rate_limit(0, 1, 0, 1)
Wide       == rate_limit(0, 1, 0, 3)
Slow       == rate_limit(2, 2, 0, 0)

SomePolicies == {OneAtATime, Wide, Slow}

\* With a worker that listens: a sync task, whose claims may be handed back, an
\* async one, of which a worker may be full, and one run at a time.  The rate,
\* with refunds, with polling only.
Deployed(policy_, sync_, listeners_) ==
  [policy |-> policy_, sync |-> sync_, listeners |-> listeners_]

SomeDeployments ==
  {Deployed(OneAtATime, FALSE, {w1}), Deployed(Wide, FALSE, {w1}), Deployed(Wide, TRUE, {w1}),
   Deployed(Slow, TRUE, {})}

=============================================================================
