---------------------------- MODULE MCRateLimit ----------------------------
(* Instances of RateLimit for TLC. *)
EXTENDS RateLimit, TLC

\* A burst of one token and of two, refilled at half a token per tick; the
\* second also with one run at a time.
Slow      == rate_limit(2, 2, 0, 0)
Pair      == rate_limit(2, 2, 2, 0)
PairAlone == rate_limit(2, 2, 2, 1)
OneAtATime == rate_limit(0, 1, 0, 1)

SomeLimits == {Slow, Pair, PairAlone, OneAtATime}

AnyWorker == Permutations(Workers)

=============================================================================
