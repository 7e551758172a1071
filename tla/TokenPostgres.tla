---------------------------- MODULE TokenPostgres ----------------------------
(***************************************************************************)
(* PostgresTokenStorage (storage/postgres.py): the calls of one storage    *)
(* object share a connection pool and two tables, one of access and one of *)
(* refresh tokens.  Every method runs one statement on a connection of its *)
(* own; between its awaits other calls run and time passes, and at any of  *)
(* them a call may raise or be cancelled.  A row is its expires_at: the    *)
(* other columns are written and read with it.                             *)
(***************************************************************************)
EXTENDS Integers, FiniteSets

CONSTANTS Calls,         \* concurrent calls of the storage object's methods
          Kinds, Tokens, \* Kinds: access and refresh tokens, a table each
          Expiries,      \* the expires_at callers give
          Absent,        \* no row
          Pools, NoPool, \* pools the object may create; self._pool is None
          PoolSize,      \* max_size of a pool
          NoCall,
          MaxTime        \* bound of the exploration

ASSUME StorageAssumption == /\ Expiries \subseteq Int /\ Absent \notin Int
                            /\ NoPool \notin Pools /\ PoolSize \in Nat \ {0}
                            /\ IsFiniteSet(Calls) /\ MaxTime \in Nat

\* The methods for access and for refresh tokens differ in the table only.
Keys == Kinds \X Tokens
Rows == Int \cup {Absent}

VARIABLES clock,   \* of the application and of Postgres
          rows,    \* the tables
          pool,    \* self._pool
          status,  \* of each pool
          free,    \* connections of each pool that nobody holds
          pc,      \* where each call is
          call,    \* its method, its key and pool, and a local of the method;
                   \* of a call that is over, what it answered
          overlapped \* history, read by no action: initialize() and close() were
                     \* in each other's way

pools == <<pool, status, free, overlapped>>
vars == <<clock, rows, pools, pc, call>>

Statements == {"store", "load", "delete", "sweep", "cleanup", "count"}
Call == [method : Statements, key : Keys, pool : Pools, arg : Rows]
LifecycleCall == [method : {"initialize", "close"}, pool : Pools]
Answered == [method : {"answered"}, key : Keys, arg : Rows]

TypeOK == /\ clock \in Nat
          /\ rows \in [Keys -> Rows]
          /\ pool \in Pools \cup {NoPool}
          /\ status \in [Pools -> {"none", "creating", "open", "closing", "closed"}]
          /\ free \in [Pools -> 0..PoolSize]
          /\ pc \in [Calls -> {"idle", "acquire", "execute", "release", "judge",
                               "create", "close"}]
          /\ call \in [Calls -> Call \cup LifecycleCall \cup Answered \cup {NoCall}]
          /\ overlapped \in BOOLEAN

Init == /\ clock = 0
        /\ rows = [k \in Keys |-> Absent]
        /\ pool = NoPool
        /\ status = [p \in Pools |-> "none"]
        /\ free = [p \in Pools |-> PoolSize]
        /\ pc = [c \in Calls |-> "idle"]
        /\ call = [c \in Calls |-> NoCall]
        /\ overlapped = FALSE

-----------------------------------------------------------------------------
GoTo(c, label) == pc' = [pc EXCEPT ![c] = label]

Return(c) == GoTo(c, "idle") /\ call' = [call EXCEPT ![c] = NoCall]

\* load_token returns what it found.
Deliver(c, found) ==
    /\ GoTo(c, "idle")
    /\ call' = [call EXCEPT ![c] = [method |-> "answered", key |-> call[c].key, arg |-> found]]

\* self._pool is there and is not closing.
Usable == pool # NoPool /\ status[pool] = "open"

\* A method asks self._pool for a connection.
Ask(c, method, key, arg) ==
    /\ Usable
    /\ GoTo(c, "acquire")
    /\ call' = [call EXCEPT ![c] = [method |-> method, key |-> key, pool |-> pool, arg |-> arg]]
    /\ UNCHANGED <<clock, rows, pools>>

\* A method that finds self._pool None, or a pool that refuses, raises.
Raise(c) == pc[c] = "idle" /\ ~Usable /\ UNCHANGED vars

Store(c, k, exp) == pc[c] = "idle" /\ Ask(c, "store", k, exp)
Load(c, k) == pc[c] = "idle" /\ Ask(c, "load", k, 0)
Delete(c, k) == pc[c] = "idle" /\ Ask(c, "delete", k, 0)
\* The now of cleanup_expired_tokens is read before it waits for a connection.
Cleanup(c, k) == pc[c] = "idle" /\ Ask(c, "cleanup", k, clock)
Count(c, k) == pc[c] = "idle" /\ k[1] = "access" /\ Ask(c, "count", k, 0)

\* Pool.acquire: waits until a connection is free.
Acquire(c) == LET p == call[c].pool IN
    /\ pc[c] = "acquire"
    /\ status[p] \in {"open", "closing"}
    /\ free[p] > 0
    /\ free' = [free EXCEPT ![p] = @ - 1]
    /\ GoTo(c, "execute")
    /\ UNCHANGED <<clock, rows, pool, status, overlapped, call>>

Refused(c) == /\ pc[c] = "acquire"
              /\ status[call[c].pool] # "open"
              /\ Return(c)
              /\ UNCHANGED <<clock, rows, pools>>

-----------------------------------------------------------------------------
\* One statement each, atomic in the database.
Execute(c, method) == /\ pc[c] = "execute"
                      /\ call[c].method = method
                      /\ status[call[c].pool] # "closed"
                      /\ GoTo(c, "release")
                      /\ UNCHANGED <<clock, pools>>

\* INSERT ... ON CONFLICT (token) DO UPDATE
Upsert(c) == /\ Execute(c, "store")
             /\ rows' = [rows EXCEPT ![call[c].key] = call[c].arg]
             /\ UNCHANGED call

\* SELECT ... WHERE token = $1
Select(c) == /\ Execute(c, "load")
             /\ call' = [call EXCEPT ![c].arg = rows[call[c].key]]
             /\ UNCHANGED rows

\* DELETE ... WHERE token = $1
DeleteRow(c, method) == /\ Execute(c, method)
                        /\ rows' = [rows EXCEPT ![call[c].key] = Absent]
                        /\ UNCHANGED call

\* Mutant of Expired: at its expires_at already.
Expired_AtOnce(exp, now) == exp # Absent /\ exp <= now

Expired(exp, now) == exp # Absent /\ exp < now

\* DELETE ... WHERE expires_at < $1
DeleteExpired(c) ==
    /\ Execute(c, "cleanup")
    /\ rows' = [k \in Keys |-> IF k[1] = call[c].key[1] /\ Expired(rows[k], call[c].arg)
                                 THEN Absent ELSE rows[k]]
    /\ UNCHANGED call

SelectCount(c) == Execute(c, "count") /\ UNCHANGED <<rows, call>>

Statement(c) == \/ Upsert(c) \/ Select(c) \/ DeleteExpired(c) \/ SelectCount(c)
                \/ \E method \in {"delete", "sweep"} : DeleteRow(c, method)

-----------------------------------------------------------------------------
\* Mutants of GiveBack: an expired token is deleted inside the "async with" block;
\* "async with" and a finally block of its own; neither.
GiveBack_Later(c) == LET p == call[c].pool IN
    free' = IF call[c].method = "load" /\ Expired(call[c].arg, clock)
              THEN free ELSE [free EXCEPT ![p] = @ + 1]

GiveBack_Twice(c) == free' = [free EXCEPT ![call[c].pool] = @ + 2]
GiveBack_Never(c) == UNCHANGED free

\* The connection goes back to its pool.
GiveBack(c) == free' = [free EXCEPT ![call[c].pool] = @ + 1]

Release(c) == /\ pc[c] = "release"
              /\ GiveBack(c)
              /\ CASE call[c].method = "load" -> GoTo(c, "judge") /\ UNCHANGED call
                   [] call[c].method = "sweep" -> Deliver(c, Absent)
                   [] OTHER -> Return(c)
              /\ UNCHANGED <<clock, rows, pool, status, overlapped>>

\* Mutant of Answer: whatever it found.
Answer_Unjudged(c) == /\ pc[c] = "judge"
                      /\ Deliver(c, call[c].arg)
                      /\ UNCHANGED <<clock, rows, pools>>

\* load_token has its row, or None, and answers ...
Answer(c) == /\ pc[c] = "judge"
             /\ ~Expired(call[c].arg, clock)
             /\ Deliver(c, call[c].arg)
             /\ UNCHANGED <<clock, rows, pools>>

\* ... or calls delete_token for the token whose row it saw expired, which may
\* raise.
Sweep(c) == /\ pc[c] = "judge"
            /\ Expired(call[c].arg, clock)
            /\ Ask(c, "sweep", call[c].key, call[c].arg)

SweepRefused(c) == /\ pc[c] = "judge"
                   /\ Expired(call[c].arg, clock)
                   /\ ~Usable
                   /\ Return(c)
                   /\ UNCHANGED <<clock, rows, pools>>

\* A statement runs into command_timeout or the call is cancelled, before or
\* after the database has done its work: "async with" gives the connection back.
Fail(c) == /\ pc[c] \in {"execute", "release"}
           /\ free' = [free EXCEPT ![call[c].pool] = @ + 1]
           /\ Return(c)
           /\ UNCHANGED <<clock, rows, pool, status, overlapped>>

\* Cancelled while it waits for a connection, or before it looks at its row.
Cancel(c) == /\ pc[c] \in {"acquire", "judge"}
             /\ Return(c)
             /\ UNCHANGED <<clock, rows, pools>>

-----------------------------------------------------------------------------
\* initialize() and close().

Busy(labels) == \E c \in Calls : pc[c] \in labels

\* initialize(): create_pool ...
Initialize(c, p) ==
    /\ pc[c] = "idle"
    /\ status[p] = "none"
    /\ status' = [status EXCEPT ![p] = "creating"]
    /\ GoTo(c, "create")
    /\ call' = [call EXCEPT ![c] = [method |-> "initialize", pool |-> p]]
    /\ overlapped' = (overlapped \/ pool # NoPool \/ Busy({"create", "close"}))
    /\ UNCHANGED <<clock, rows, pool, free>>

\* ... replaces whatever pool there is.
Created(c) == /\ pc[c] = "create"
              /\ status' = [status EXCEPT ![call[c].pool] = "open"]
              /\ pool' = call[c].pool
              /\ Return(c)
              /\ UNCHANGED <<clock, rows, free, overlapped>>

NotCreated(c) == /\ pc[c] = "create"
                 /\ status' = [status EXCEPT ![call[c].pool] = "closed"]
                 /\ Return(c)
                 /\ UNCHANGED <<clock, rows, pool, free, overlapped>>

\* close() of a pool that is there; with none it does nothing.
Close(c) == /\ pc[c] = "idle"
            /\ pool # NoPool
            /\ status' = [status EXCEPT ![pool] = IF @ = "open" THEN "closing" ELSE @]
            /\ GoTo(c, "close")
            /\ call' = [call EXCEPT ![c] = [method |-> "close", pool |-> pool]]
            /\ overlapped' = (overlapped \/ Busy({"create"}))
            /\ UNCHANGED <<clock, rows, pool, free>>

\* self._pool = None, whatever pool is there by now.
Forget == pool' = NoPool

\* Mutant of Closed: it does not wait for the connections that are in use.
Closed_NoWait(c) == /\ pc[c] = "close"
                    /\ Forget
                    /\ Return(c)
                    /\ UNCHANGED <<clock, rows, status, free, overlapped>>

\* Pool.close waits until every connection was given back.
Closed(c) == LET p == call[c].pool IN
    /\ pc[c] = "close"
    /\ status[p] = "closed" \/ free[p] = PoolSize
    /\ status' = [status EXCEPT ![p] = "closed"]
    /\ Forget
    /\ Return(c)
    /\ UNCHANGED <<clock, rows, free, overlapped>>

\* A close() that is cancelled terminates the pool; self._pool stays.
Terminated(c) == /\ pc[c] = "close"
                 /\ status' = [status EXCEPT ![call[c].pool] = "closed"]
                 /\ Return(c)
                 /\ UNCHANGED <<clock, rows, pool, free, overlapped>>

Tick == /\ clock < MaxTime
        /\ clock' = clock + 1
        /\ UNCHANGED <<rows, pools, pc, call>>

Begin(c) == \/ Raise(c)
            \/ \E k \in Keys : \/ \E exp \in Expiries : Store(c, k, exp)
                               \/ Load(c, k) \/ Delete(c, k) \/ Cleanup(c, k) \/ Count(c, k)
            \/ Close(c)
            \/ \E p \in Pools : Initialize(c, p)

Next == \/ \E c \in Calls : \/ Begin(c)
                            \/ Acquire(c) \/ Refused(c)
                            \/ Statement(c) \/ Release(c) \/ Fail(c) \/ Cancel(c)
                            \/ Answer(c) \/ Sweep(c) \/ SweepRefused(c)
                            \/ Created(c) \/ NotCreated(c) \/ Closed(c) \/ Terminated(c)
        \/ Tick

Spec == Init /\ [][Next]_vars

\* A statement is answered or runs into command_timeout; a pool is made or is
\* not; who keeps waiting for a connection gets one when one is given back again
\* and again, and so does a close().
Fairness == \A c \in Calls :
    /\ WF_vars(Statement(c) \/ Fail(c))
    /\ WF_vars(Release(c))
    /\ WF_vars(Answer(c) \/ Sweep(c) \/ SweepRefused(c))
    /\ WF_vars(Created(c) \/ NotCreated(c))
    /\ WF_vars(Refused(c))
    /\ SF_vars(Acquire(c))
    /\ SF_vars(Closed(c))

FairSpec == Spec /\ Fairness

-----------------------------------------------------------------------------
\* The properties.

Holders(p) == {c \in Calls : pc[c] \in {"execute", "release"} /\ call[c].pool = p}

\* No connection is lost or handed out twice, whatever raises: a pool's
\* connections are free or held by a call that is in its "async with" block.
PoolInv == \A p \in Pools : free[p] + Cardinality(Holders(p)) = PoolSize

Runs(c, method, k) == /\ pc[c] = "execute" /\ pc'[c] = "release"
                      /\ call[c].method = method /\ call[c].key = k

Lost(k) == rows[k] # Absent /\ rows'[k] = Absent /\ ~(rows[k] < clock)

\* A token that has not expired goes only if somebody deletes it, or if it was
\* stored again since a load saw it expired: no cleanup drops it, and no load that
\* saw it as it is (lines 132-135, 176 and their refresh twins).
LiveTokensKept ==
    [][\A k \in Keys : Lost(k) => \E c \in Calls :
          \/ Runs(c, "delete", k)
          \/ Runs(c, "sweep", k) /\ call[c].arg # rows[k]]_vars

\* A pool that is open, or has connections that close() waits for, is the one
\* self._pool holds, so that it will be closed, as long as initialize() is called on
\* a closed storage and neither method overlaps the other (lines 42 and 52-54).
PoolNotLeaked ==
    ~overlapped => \A p \in Pools : status[p] \in {"open", "closing"} => pool = p

\* What a call is still to do: its statement, or its answer; a load's delete is part
\* of it.
Still(c, method, arg) == [method |-> method, key |-> call[c].key, arg |-> arg]

Task(c) ==
    CASE pc[c] = "idle" -> call[c]
      [] pc[c] \in {"acquire", "execute"} -> Still(c, call[c].method, call[c].arg)
      [] pc[c] \in {"release", "judge"} /\ call[c].method = "load" -> Still(c, "answer", call[c].arg)
      [] pc[c] = "release" /\ call[c].method = "sweep" -> Still(c, "answer", Absent)
      [] OTHER -> NoCall

Tasks == [c \in Calls |-> Task(c)]

Promise == INSTANCE SharedTokenStorage WITH table <- rows, task <- Tasks, Nothing <- NoCall

\* Whatever pools do and whichever calls fail: a call takes effect once and between
\* its start and its end, and no load answers a token that has expired by then.
ImplementsSharedStorage == Promise!Spec

\* Every call returns or raises: none waits for a second connection with one in
\* its hand.
CallsEnd == \A c \in Calls : pc[c] # "idle" ~> pc[c] = "idle"

\* What load_token says of its delete_token ("Clean up expired token", line
\* 134): the row it deletes has expired.
SweepsOnlyExpired ==
    [][\A k \in Keys, c \in Calls : Lost(k) => ~Runs(c, "sweep", k)]_vars
=============================================================================
