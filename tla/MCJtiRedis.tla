----------------------------- MODULE MCJtiRedis -----------------------------
\* JtiRedis with calls on two hosts, one of them a tick ahead of Redis, and two
\* assertions that carry the same identifier.
EXTENDS JtiRedis

CONSTANTS c1, c2, j1

MCDrift == [c \in Calls |-> IF c = c1 THEN 0 ELSE 1]

MCAssertions == {[jti |-> j1, iat |-> 0, exp |-> 1],
                 [jti |-> j1, iat |-> 1, exp |-> 3]}
=============================================================================
