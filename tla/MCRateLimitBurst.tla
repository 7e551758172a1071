-------------------------- MODULE MCRateLimitBurst --------------------------
(***************************************************************************)
(* RateLimitRedis where only is_allowed is called, with members taken in   *)
(* order: enough calls to meet a limit of two under an expiring key.       *)
(***************************************************************************)
EXTENDS RateLimitRedis, TLC

NextMember(m) == Fresh(m) /\ \A x \in Members : Fresh(x) => m <= x

\* A call of is_allowed and the passing of time.
Burst == \/ \E c \in Callers : \/ IsAllowed(c) \/ Trim(c) \/ Deny(c)
                               \/ \E m \in Members : NextMember(m) /\ Pass(c, m)
                               \/ Add(c) \/ Expire(c)
         \/ Tick

BurstSpec == Init /\ [][Burst]_vars

CallerSymmetry == Permutations(Callers)
=============================================================================
