---------------------------- MODULE TokenStorage ----------------------------
(***************************************************************************)
(* What a token storage promises (the interface in storage/base.py): a     *)
(* token that was stored is found until it is deleted or the storage is    *)
(* closed, and as long as it has not expired; what is found is what was    *)
(* stored last.  A storage may still find a token that expired less than a *)
(* second ago; from then on it never does.                                 *)
(***************************************************************************)
EXTENDS Integers

CONSTANTS Kinds, Tokens,  \* Kinds: access and refresh tokens
          Expiries,       \* in seconds
          Absent,         \* not an integer: no such token
          Second,         \* ticks of the clock per second
          NoAnswer

Keys == Kinds \X Tokens

VARIABLES clock,    \* ticks
          table,    \* the expiry of each token
          answer    \* what the last call found, if it was a load

vars == <<clock, table, answer>>

TypeOK == /\ clock \in Nat
          /\ table \in [Keys -> Expiries \cup {Absent}]
          /\ answer \in (Keys \X (Expiries \cup {Absent})) \cup {NoAnswer}

Expired(exp) == exp # Absent /\ clock > exp * Second

\* Expired for a second or longer.
Overdue(exp) == exp # Absent /\ clock >= (exp + 1) * Second

Init == /\ clock = 0
        /\ table = [k \in Keys |-> Absent]
        /\ answer = NoAnswer

Store(k, exp) == /\ table' = [table EXCEPT ![k] = exp]
                 /\ answer' = NoAnswer
                 /\ UNCHANGED clock

Load(k, exp) == /\ \/ exp = table[k]
                   \/ exp = Absent /\ Expired(table[k])
                /\ ~Overdue(exp)
                /\ table' = [table EXCEPT ![k] = exp]
                /\ answer' = <<k, exp>>
                /\ UNCHANGED clock

Delete(k) == Store(k, Absent)

\* All that is overdue goes, nothing that is live does.
Cleanup(kind, gone) == /\ \A k \in gone : Expired(table[k])
                       /\ \A k \in Keys \ gone : k[1] = kind => ~Overdue(table[k])
                       /\ table' = [k \in Keys |-> IF k \in gone THEN Absent ELSE table[k]]
                       /\ answer' = NoAnswer
                       /\ UNCHANGED clock

Close == /\ table' = [k \in Keys |-> Absent]
         /\ answer' = NoAnswer
         /\ UNCHANGED clock

\* Calls that find and change nothing.
Other == answer' = NoAnswer /\ UNCHANGED <<clock, table>>

Tick == clock' = clock + 1 /\ UNCHANGED <<table, answer>>

Next == \/ \E k \in Keys : \/ \E exp \in Expiries : Store(k, exp)
                           \/ \E exp \in Expiries \cup {Absent} : Load(k, exp)
                           \/ Delete(k)
        \/ \E kind \in Kinds, gone \in SUBSET Keys : Cleanup(kind, gone)
        \/ Close \/ Other \/ Tick

Spec == Init /\ [][Next]_vars
=============================================================================
