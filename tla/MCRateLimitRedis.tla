-------------------------- MODULE MCRateLimitRedis --------------------------
\* RateLimitRedis for a few calls and members that may trade places.
EXTENDS RateLimitRedis, TLC

CallerSymmetry == Permutations(Callers) \cup Permutations(Members)
=============================================================================
