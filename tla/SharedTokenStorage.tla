------------------------- MODULE SharedTokenStorage -------------------------
(***************************************************************************)
(* What a token storage promises to concurrent calls (the interface in     *)
(* storage/base.py, as storage/postgres.py keeps it): a call takes effect  *)
(* once, at one moment between its start and its end, or ends without; a   *)
(* load answers what was stored at such a moment and has not expired when  *)
(* it answers.  A load that finds an expired token deletes whatever is     *)
(* stored under it by then.  Connections, pools and what can go wrong with *)
(* them are not seen.                                                      *)
(***************************************************************************)
EXTENDS Integers

CONSTANTS Calls,
          Kinds, Tokens,  \* Kinds: access and refresh tokens
          Expiries,
          Absent,         \* not an integer: no such token
          Nothing         \* a call that is not under way

Keys == Kinds \X Tokens

VARIABLES clock,
          table,  \* the expiry of each token
          task    \* what each call is still to do, or what it answered

vars == <<clock, table, task>>

Task == [method : {"store", "load", "delete", "cleanup", "count", "answer", "sweep", "answered"},
         key : Keys, arg : Int \cup {Absent}]

TypeOK == /\ clock \in Nat
          /\ table \in [Keys -> Int \cup {Absent}]
          /\ task \in [Calls -> Task \cup {Nothing}]

Expired(exp, now) == exp # Absent /\ exp < now

Init == /\ clock = 0
        /\ table = [k \in Keys |-> Absent]
        /\ task = [c \in Calls |-> Nothing]

Become(c, method, k, arg) ==
    task' = [task EXCEPT ![c] = [method |-> method, key |-> k, arg |-> arg]]

End(c) == task' = [task EXCEPT ![c] = Nothing]

Has(c, method) == task[c] \in Task /\ task[c].method = method

\* A call with an argument: an expiry, or the time it was made at.
Begin(c) == /\ task[c] = Nothing \/ Has(c, "answered")
            /\ \E k \in Keys :
                  \/ \E exp \in Expiries : Become(c, "store", k, exp)
                  \/ Become(c, "cleanup", k, clock)
                  \/ \E method \in {"load", "delete", "count"} : Become(c, method, k, 0)
            /\ UNCHANGED <<clock, table>>

Store(c) == /\ Has(c, "store")
            /\ table' = [table EXCEPT ![task[c].key] = task[c].arg]
            /\ End(c)
            /\ UNCHANGED clock

Delete(c) == /\ Has(c, "delete")
             /\ table' = [table EXCEPT ![task[c].key] = Absent]
             /\ End(c)
             /\ UNCHANGED clock

\* All that had expired when the call was made goes, and nothing that is live.
Cleanup(c, gone) ==
    /\ Has(c, "cleanup")
    /\ \A k \in gone : Expired(table[k], clock)
    /\ \A k \in Keys \ gone : k[1] = task[c].key[1] => ~Expired(table[k], task[c].arg)
    /\ table' = [k \in Keys |-> IF k \in gone THEN Absent ELSE table[k]]
    /\ End(c)
    /\ UNCHANGED clock

Read(c) == /\ Has(c, "load")
           /\ Become(c, "answer", task[c].key, table[task[c].key])
           /\ UNCHANGED <<clock, table>>

Answer(c) == /\ Has(c, "answer")
             /\ ~Expired(task[c].arg, clock)
             /\ Become(c, "answered", task[c].key, task[c].arg)
             /\ UNCHANGED <<clock, table>>

Discover(c) == /\ Has(c, "answer")
               /\ Expired(task[c].arg, clock)
               /\ Become(c, "sweep", task[c].key, task[c].arg)
               /\ UNCHANGED <<clock, table>>

Sweep(c) == /\ Has(c, "sweep")
            /\ table' = [table EXCEPT ![task[c].key] = Absent]
            /\ Become(c, "answer", task[c].key, Absent)
            /\ UNCHANGED clock

\* A call fails, or has nothing left to do.
Leave(c) == End(c) /\ UNCHANGED <<clock, table>>

Tick == clock' = clock + 1 /\ UNCHANGED <<table, task>>

Next == \/ \E c \in Calls : \/ Begin(c) \/ Store(c) \/ Delete(c)
                            \/ \E gone \in SUBSET Keys : Cleanup(c, gone)
                            \/ Read(c) \/ Answer(c) \/ Discover(c) \/ Sweep(c)
                            \/ Leave(c)
        \/ Tick

Spec == Init /\ [][Next]_vars
=============================================================================
