----------------------------- MODULE AcceptOnce -----------------------------
(***************************************************************************)
(* What replay protection promises (RFC 7523 client assertions, module     *)
(* docstring of client_auth/jwt.py): once an assertion with identifier j   *)
(* has been accepted, no assertion with that identifier is accepted again  *)
(* until a horizon has passed.  The in-memory cache and the Redis cache    *)
(* keep this promise up to different horizons; JtiMemory and JtiRedis say  *)
(* which, and are shown to implement this specification.                   *)
(***************************************************************************)
EXTENDS Integers

CONSTANTS Jtis,      \* identifiers an assertion may carry (the jti claim)
          Absent,    \* not an integer: no assertion with this identifier was accepted
          Durable    \* a Boolean: does the promise outlive a restart of the process?

VARIABLES clock,            \* seconds
          protectedUntil    \* for each identifier, the horizon of its last acceptance

vars == <<clock, protectedUntil>>

TypeOK == /\ clock \in Nat
          /\ protectedUntil \in [Jtis -> Int \cup {Absent}]

\* j may be accepted: it never was, or its horizon has passed.
Acceptable(j) == protectedUntil[j] = Absent \/ clock > protectedUntil[j]

Init == /\ clock = 0
        /\ protectedUntil = [j \in Jtis |-> Absent]

\* The new horizon is whatever the assertion and the cache give it.
Accept(j) == /\ Acceptable(j)
             /\ protectedUntil'[j] \in Int
             /\ protectedUntil' = [protectedUntil EXCEPT ![j] = protectedUntil'[j]]
             /\ UNCHANGED clock

\* A restart of a process whose cache lives in its own memory.
Forget == /\ ~Durable
          /\ protectedUntil' = [j \in Jtis |-> Absent]
          /\ UNCHANGED clock

Tick == clock' = clock + 1 /\ UNCHANGED protectedUntil

Next == \/ \E j \in Jtis : Accept(j)
        \/ Forget
        \/ Tick

Spec == Init /\ [][Next]_vars
=============================================================================
