--------------------------- MODULE SlidingWindow ---------------------------
(***************************************************************************)
(* What a rate limiter (SlidingWindowRateLimiter in rate_limiting.py)      *)
(* promises: a call is judged by every admission of its client             *)
(* in the window before it was made, as if none were ever forgotten, and a *)
(* client that is told when to come back finds room then, unless it was    *)
(* admitted in the meantime.  RateLimitMemory, which forgets and says so   *)
(* from what it has kept, is shown to implement this specification.        *)
(***************************************************************************)
EXTENDS Integers, FiniteSets

CONSTANTS Callers, Clients,
          Limit, Window,
          Patience,  \* the longest a client is told to wait
          Absent     \* no advice is outstanding

VARIABLES clock,
          waiting,   \* the calls that are to be judged
          admitted,  \* every admission of each client
          advice     \* when it was told to come back

vars == <<clock, waiting, admitted, advice>>

Entry == [at : Nat, id : Nat]

TypeOK == /\ clock \in Nat
          /\ waiting \subseteq [caller : Callers, client : Clients, at : 0..clock]
          /\ admitted \in [Clients -> SUBSET Entry]
          /\ advice \in [Clients -> Int \cup {Absent}]

Init == /\ clock = 0
        /\ waiting = {}
        /\ admitted = [c \in Clients |-> {}]
        /\ advice = [c \in Clients |-> Absent]

Begin(t, c) == /\ \A w \in waiting : w.caller # t
               /\ waiting' = waiting \cup {[caller |-> t, client |-> c, at |-> clock]}
               /\ UNCHANGED <<clock, admitted, advice>>

\* There are fewer than Limit admissions since a window before the time.
Room(c, time) == Cardinality({e \in admitted[c] : time - e.at < Window}) < Limit

Admit(w) ==
    /\ Room(w.client, w.at)
    /\ waiting' = waiting \ {w}
    /\ admitted' = [admitted EXCEPT ![w.client] =
                      @ \cup {[at |-> w.at, id |-> Cardinality(@)]}]
    /\ advice' = [advice EXCEPT ![w.client] = Absent]
    /\ UNCHANGED clock

Deny(w) == /\ ~Room(w.client, w.at)
           /\ waiting' = waiting \ {w}
           /\ UNCHANGED <<clock, admitted, advice>>

Advise(c) == \E time \in clock..(clock + Patience) :
    /\ Room(c, time)
    /\ advice' = [advice EXCEPT ![c] = time]
    /\ UNCHANGED <<clock, waiting, admitted>>

Tick == clock' = clock + 1 /\ UNCHANGED <<waiting, admitted, advice>>

Next == \/ \E t \in Callers, c \in Clients : Begin(t, c)
        \/ \E w \in waiting : Admit(w) \/ Deny(w)
        \/ \E c \in Clients : Advise(c)
        \/ Tick

Spec == Init /\ [][Next]_vars
=============================================================================
