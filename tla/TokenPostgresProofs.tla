------------------------ MODULE TokenPostgresProofs ------------------------
(***************************************************************************)
(* Proofs about the token storage in Postgres, for any calls, tokens, pool *)
(* size and number of pools.                                               *)
(***************************************************************************)
EXTENDS TokenPostgres, FiniteSetTheorems, TLAPS

OnPool == {"acquire", "execute", "release", "judge"}

\* What a call knows at each of its positions: a cleanup's now is in the past, a
\* sweep's load saw a row that has expired, an idle call its answer at most.
CallInv == \A c \in Calls :
    /\ pc[c] \in OnPool =>
          /\ call[c] \in Call
          /\ call[c].method = "store" => call[c].arg \in Int
          /\ call[c].method = "cleanup" => call[c].arg \in Int /\ call[c].arg <= clock
          /\ call[c].method = "sweep" => call[c].arg \in Int /\ call[c].arg < clock
    /\ pc[c] = "judge" => call[c].method = "load"
    /\ pc[c] \in {"create", "close"} => call[c] \in LifecycleCall
    /\ pc[c] = "idle" => call[c] \in Answered \cup {NoCall}

\* Pools that calls are making or closing, while none was in another's way.
LifecycleInv ==
    /\ pool # NoPool => status[pool] \in {"open", "closing", "closed"}
    /\ \A c \in Calls : pc[c] = "create" =>
          /\ status[call[c].pool] = "creating"
          /\ \A d \in Calls : pc[d] = "create" /\ call[d].pool = call[c].pool => d = c
    /\ \A c \in Calls : pc[c] = "close" => status[call[c].pool] \in {"closing", "closed"}
    /\ ~overlapped => \A c \in Calls :
          /\ pc[c] = "create" =>
                pool = NoPool /\ \A d \in Calls : pc[d] \in {"create", "close"} => d = c
          /\ pc[c] = "close" => pool \in {NoPool, call[c].pool}

TInv == TypeOK /\ CallInv

IInv == TInv /\ PoolInv

LEMMA ConstantFacts ==
        /\ Expiries \subseteq Int /\ Absent \notin Int /\ NoPool \notin Pools
        /\ PoolSize \in Nat \ {0} /\ IsFiniteSet(Calls)
  BY StorageAssumption

\* Holders are finitely many, and taking one in or out counts one.
LEMMA HoldersCount ==
  ASSUME NEW p \in Pools
  PROVE  /\ IsFiniteSet(Holders(p)) /\ Cardinality(Holders(p)) \in Nat
         /\ \A c \in Calls \ Holders(p) :
               Cardinality(Holders(p) \cup {c}) = Cardinality(Holders(p)) + 1
         /\ \A c \in Holders(p) :
               /\ Cardinality(Holders(p)) >= 1
               /\ Cardinality(Holders(p) \ {c}) = Cardinality(Holders(p)) - 1
<1>1. Holders(p) \subseteq Calls
  BY DEF Holders
<1>2. IsFiniteSet(Holders(p))
  BY <1>1, ConstantFacts, FS_Subset
<1>3. Cardinality(Holders(p)) \in Nat
  BY <1>2, FS_CardinalityType
<1>4. ASSUME NEW c \in Calls \ Holders(p)
      PROVE  Cardinality(Holders(p) \cup {c}) = Cardinality(Holders(p)) + 1
  BY <1>2, <1>4, FS_AddElement
<1>5. ASSUME NEW c \in Holders(p)
      PROVE  /\ Cardinality(Holders(p)) >= 1
             /\ Cardinality(Holders(p) \ {c}) = Cardinality(Holders(p)) - 1
  <2>1. Cardinality(Holders(p) \ {c}) \in Nat
    BY <1>2, FS_Subset, FS_CardinalityType
  <2>2. Cardinality(Holders(p) \ {c}) = Cardinality(Holders(p)) - 1
    BY <1>2, <1>5, FS_RemoveElement
  <2>3. QED
    BY <1>3, <2>1, <2>2
<1>6. QED
  BY <1>2, <1>3, <1>4, <1>5

LEMMA InitIInv == Init => IInv
<1> SUFFICES ASSUME Init PROVE IInv
  OBVIOUS
<1> USE ConstantFacts DEF Init
<1>1. overlapped \in BOOLEAN
  OBVIOUS
<1>2. TypeOK
  BY <1>1 DEF TypeOK, Rows
<1>3. CallInv
  BY DEF CallInv, OnPool
<1>4. PoolInv
  <2> SUFFICES ASSUME NEW p \in Pools PROVE free[p] + Cardinality(Holders(p)) = PoolSize
    BY DEF PoolInv
  <2>1. Holders(p) = {}
    BY DEF Holders
  <2>2. QED
    BY <2>1, FS_EmptySet
<1>5. QED
  BY <1>2, <1>3, <1>4 DEF IInv, TInv

\* Where calls and rows are the same, so is what is known of them.
LEMMA TInvStep == IInv /\ [Next]_vars => TInv'
<1> SUFFICES ASSUME IInv, [Next]_vars PROVE TInv'
  OBVIOUS
<1> USE ConstantFacts DEF IInv, TInv, TypeOK, CallInv, OnPool, Rows
<1>1. ASSUME NEW c \in Calls, NEW method \in Statements, NEW k \in Keys, NEW arg \in Rows,
             Ask(c, method, k, arg),
             method = "store" => arg \in Int,
             method = "cleanup" => arg \in Int /\ arg <= clock,
             method = "sweep" => arg \in Int /\ arg < clock
      PROVE  TInv'
  <2>1. [method |-> method, key |-> k, pool |-> pool, arg |-> arg] \in Call
    BY <1>1 DEF Ask, Usable, Call
  <2>2. QED
    BY <1>1, <2>1 DEF Ask, GoTo, pools
<1>2. ASSUME NEW c \in Calls, NEW k \in Keys, NEW exp \in Expiries, Store(c, k, exp) PROVE TInv'
  BY <1>1, <1>2 DEF Store, Statements
<1>3. ASSUME NEW c \in Calls, NEW k \in Keys,
             Load(c, k) \/ Delete(c, k) \/ Cleanup(c, k) \/ Count(c, k)
      PROVE  TInv'
  BY <1>1, <1>3 DEF Load, Delete, Cleanup, Count, Statements
<1>4. ASSUME NEW c \in Calls, Acquire(c) PROVE TInv'
  BY <1>4 DEF Acquire, GoTo, Call
<1>0. ASSUME NEW c \in Calls, NEW found \in Rows, call[c] \in Call, Deliver(c, found)
      PROVE  /\ call' \in [Calls -> Call \cup LifecycleCall \cup Answered \cup {NoCall}]
             /\ call'[c] \in Answered /\ pc'[c] = "idle"
             /\ \A d \in Calls \ {c} : call'[d] = call[d] /\ pc'[d] = pc[d]
             /\ pc' \in [Calls -> {"idle", "acquire", "execute", "release", "judge", "create", "close"}]
  <2>1. [method |-> "answered", key |-> call[c].key, arg |-> found] \in Answered
    BY <1>0 DEF Call, Answered
  <2>2. QED
    BY <1>0, <2>1 DEF Deliver, GoTo
<1>5. ASSUME NEW c \in Calls, Refused(c) \/ SweepRefused(c) \/ Cancel(c) PROVE TInv'
  BY <1>5 DEF Refused, SweepRefused, Cancel, Return, GoTo, pools
<1>5a. ASSUME NEW c \in Calls, Answer(c) PROVE TInv'
  <2>1. call[c] \in Call /\ call[c].arg \in Rows /\ Deliver(c, call[c].arg)
    BY <1>5a DEF Answer, Call
  <2>2. UNCHANGED <<clock, rows, pool, status, free, overlapped>>
    BY <1>5a DEF Answer, pools
  <2>3. QED
    BY <1>0, <2>1, <2>2
<1>6. ASSUME NEW c \in Calls, Upsert(c) PROVE TInv'
  BY <1>6 DEF Upsert, Execute, GoTo, pools, Call
<1>7. ASSUME NEW c \in Calls, Select(c) PROVE TInv'
  <2>1. call[c] \in Call /\ call[c].method = "load" /\ rows[call[c].key] \in Rows
    BY <1>7 DEF Select, Execute, Call
  <2>2. [call[c] EXCEPT !.arg = rows[call[c].key]] \in Call
    BY <2>1 DEF Call
  <2>3. QED
    BY <1>7, <2>1, <2>2 DEF Select, Execute, GoTo, pools, Call
<1>8. ASSUME NEW c \in Calls, NEW method, DeleteRow(c, method) PROVE TInv'
  BY <1>8 DEF DeleteRow, Execute, GoTo, pools
<1>9. ASSUME NEW c \in Calls, DeleteExpired(c) \/ SelectCount(c) PROVE TInv'
  BY <1>9 DEF DeleteExpired, SelectCount, Execute, GoTo, pools
<1>10. ASSUME NEW c \in Calls, Sweep(c) PROVE TInv'
  <2>1. call[c].key \in Keys /\ call[c].arg \in Rows
    BY <1>10 DEF Sweep, Call
  <2>2. call[c].arg \in Int /\ call[c].arg < clock
    BY <1>10, <2>1 DEF Sweep, Expired
  <2>3. QED
    BY <1>1, <1>10, <2>1, <2>2 DEF Sweep, Statements
<1>11. ASSUME NEW c \in Calls, NEW p \in Pools, Initialize(c, p) PROVE TInv'
  <2>1. [method |-> "initialize", pool |-> p] \in LifecycleCall
    BY DEF LifecycleCall
  <2>2. overlapped' \in BOOLEAN
    BY <1>11 DEF Initialize
  <2>3. QED
    BY <1>11, <2>1, <2>2 DEF Initialize, GoTo
<1>12. ASSUME NEW c \in Calls, Close(c) PROVE TInv'
  <2>1. [method |-> "close", pool |-> pool] \in LifecycleCall
    BY <1>12 DEF Close, LifecycleCall
  <2>2. overlapped' \in BOOLEAN
    BY <1>12 DEF Close
  <2>3. QED
    BY <1>12, <2>1, <2>2 DEF Close, GoTo
<1>13. ASSUME NEW c \in Calls, Created(c) \/ NotCreated(c) \/ Closed(c) \/ Terminated(c) PROVE TInv'
  BY <1>13 DEF Created, NotCreated, Closed, Forget, Terminated, Return, GoTo, LifecycleCall
<1>14. ASSUME NEW c \in Calls, Release(c) \/ Fail(c) PROVE TInv'
  <2>1. call[c] \in Call /\ c \in Holders(call[c].pool)
    BY <1>14 DEF Release, Fail, Holders
  <2>2. call[c].pool \in Pools
    BY <2>1 DEF Call
  <2>3. free[call[c].pool] + 1 \in 0..PoolSize
    <3>1. Cardinality(Holders(call[c].pool)) \in Nat /\ Cardinality(Holders(call[c].pool)) >= 1
      BY <2>1, <2>2, HoldersCount
    <3>2. free[call[c].pool] + Cardinality(Holders(call[c].pool)) = PoolSize
      BY <2>2 DEF PoolInv
    <3>3. free[call[c].pool] \in 0..PoolSize
      BY <2>2
    <3>4. QED
      BY <3>1, <3>2, <3>3
  <2>4. CASE Release(c)
    <3>1. free' \in [Pools -> 0..PoolSize] /\ UNCHANGED <<clock, rows, pool, status, overlapped>>
      BY <2>3, <2>4 DEF Release, GiveBack
    <3>2. CASE GoTo(c, "judge") /\ UNCHANGED call /\ call[c].method = "load"
      BY <2>1, <3>1, <3>2 DEF GoTo
    <3>3. CASE Deliver(c, Absent)
      <4>1. Absent \in Rows
        OBVIOUS
      <4>2. QED
        BY <1>0, <2>1, <3>1, <3>3, <4>1
    <3>4. CASE Return(c)
      BY <3>1, <3>4 DEF Return, GoTo
    <3>5. QED
      BY <2>4, <3>2, <3>3, <3>4 DEF Release
  <2>5. CASE Fail(c)
    BY <2>1, <2>3, <2>5 DEF Fail, Return, GoTo
  <2>6. QED
    BY <1>14, <2>4, <2>5
<1>15. CASE Tick
  BY <1>15 DEF Tick, pools, Call
<1>16. CASE UNCHANGED vars
  BY <1>16 DEF vars, pools
<1>17. CASE \E c \in Calls : Raise(c)
  BY <1>16, <1>17 DEF Raise
<1>18. QED
  BY <1>2, <1>3, <1>4, <1>5, <1>6, <1>7, <1>8, <1>9, <1>10, <1>11, <1>12, <1>13, <1>14, <1>15,
     <1>16, <1>17, <1>5a DEF Next, Begin, Statement

\* Connections are counted: only Acquire takes one, only Release and Fail bring one.
LEMMA PoolStep == IInv /\ [Next]_vars => PoolInv'
<1> SUFFICES ASSUME IInv, [Next]_vars PROVE PoolInv'
  OBVIOUS
<1> USE DEF IInv, TInv, TypeOK
<1>1. ASSUME UNCHANGED free,
             \A d \in Calls : /\ pc'[d] \in {"execute", "release"} <=>
                                    pc[d] \in {"execute", "release"}
                              /\ pc[d] \in {"execute", "release"} =>
                                    call'[d].pool = call[d].pool
      PROVE  PoolInv'
  <2> SUFFICES ASSUME NEW p \in Pools PROVE free'[p] + Cardinality(Holders(p)') = PoolSize
    BY DEF PoolInv
  <2>1. Holders(p)' = Holders(p)
    BY <1>1 DEF Holders
  <2>2. QED
    BY <1>1, <2>1 DEF PoolInv
<1>2. ASSUME NEW c \in Calls, NEW label, NEW v, GoTo(c, label), UNCHANGED free,
             pc[c] \notin {"execute", "release"}, label \notin {"execute", "release"},
             call' = [call EXCEPT ![c] = v]
      PROVE  PoolInv'
  BY <1>1, <1>2 DEF GoTo
<1>3. ASSUME NEW c \in Calls, pc[c] \notin {"execute", "release"},
             NEW method, NEW k, NEW arg, Ask(c, method, k, arg)
      PROVE  PoolInv'
  BY <1>2, <1>3 DEF Ask, pools
<1>4. ASSUME NEW c \in Calls, NEW method, Execute(c, method), UNCHANGED call PROVE PoolInv'
  BY <1>1, <1>4 DEF Execute, GoTo, pools
<1>5. ASSUME NEW c \in Calls, Select(c) PROVE PoolInv'
  <2>1. UNCHANGED free /\ pc[c] = "execute" /\ GoTo(c, "release")
    BY <1>5 DEF Select, Execute, pools
  <2>2. \A d \in Calls : d # c => call'[d] = call[d]
    BY <1>5 DEF Select
  <2>3. call'[c].pool = call[c].pool
    <3>1. call[c] \in Call /\ c \in Calls
      BY <1>5 DEF Select, Execute, CallInv, OnPool
    <3>2. call'[c] = [call[c] EXCEPT !.arg = rows[call[c].key]]
      BY <1>5, <3>1 DEF Select
    <3>3. QED
      BY <3>1, <3>2 DEF Call
  <2>4. QED
    BY <1>1, <2>1, <2>2, <2>3 DEF GoTo
<1>6. ASSUME NEW c \in Calls, Acquire(c) PROVE PoolInv'
  <2> SUFFICES ASSUME NEW p \in Pools PROVE free'[p] + Cardinality(Holders(p)') = PoolSize
    BY DEF PoolInv
  <2>1. c \notin Holders(p) /\ free[p] \in 0..PoolSize
    BY <1>6 DEF Acquire, Holders
  <2>2. CASE p = call[c].pool
    <3>1. Holders(p)' = Holders(p) \cup {c}
      BY <1>6, <2>2 DEF Acquire, GoTo, Holders
    <3>2. free'[p] = free[p] - 1
      BY <1>6, <2>2 DEF Acquire
    <3>3. QED
      BY <2>1, <3>1, <3>2, HoldersCount DEF PoolInv
  <2>3. CASE p # call[c].pool
    <3>1. Holders(p)' = Holders(p)
      BY <1>6, <2>3 DEF Acquire, GoTo, Holders
    <3>2. free'[p] = free[p]
      BY <1>6, <2>3 DEF Acquire
    <3>3. QED
      BY <3>1, <3>2 DEF PoolInv
  <2>4. QED
    BY <2>2, <2>3
<1>7. ASSUME NEW c \in Calls, Release(c) \/ Fail(c) PROVE PoolInv'
  <2> SUFFICES ASSUME NEW p \in Pools PROVE free'[p] + Cardinality(Holders(p)') = PoolSize
    BY DEF PoolInv
  <2> DEFINE q == call[c].pool
  <2>1. /\ pc[c] \in {"execute", "release"}
        /\ pc' \in {[pc EXCEPT ![c] = "idle"], [pc EXCEPT ![c] = "judge"]}
        /\ free' = [free EXCEPT ![q] = @ + 1]
        /\ \A d \in Calls : d # c => call'[d] = call[d]
    BY <1>7 DEF Release, GiveBack, Fail, Return, Deliver, GoTo
  <2>2. free[p] \in 0..PoolSize
    OBVIOUS
  <2>3. CASE p = q
    <3>1. Holders(p)' = Holders(p) \ {c} /\ c \in Holders(p)
      BY <2>1, <2>3 DEF Holders
    <3>2. free'[p] = free[p] + 1
      BY <2>1, <2>3
    <3>3. Cardinality(Holders(p)') = Cardinality(Holders(p)) - 1 /\ Cardinality(Holders(p)) \in Nat
      BY <3>1, HoldersCount
    <3>4. free[p] + Cardinality(Holders(p)) = PoolSize
      BY DEF PoolInv
    <3>5. QED
      BY <2>2, <3>2, <3>3, <3>4
  <2>4. CASE p # q
    <3>1. Holders(p)' = Holders(p)
      BY <2>1, <2>4 DEF Holders
    <3>2. free'[p] = free[p]
      BY <2>1, <2>4
    <3>3. QED
      BY <3>1, <3>2 DEF PoolInv
  <2>5. QED
    BY <2>3, <2>4
<1>8. ASSUME NEW c \in Calls, Refused(c) \/ Answer(c) \/ SweepRefused(c) \/ Cancel(c)
      PROVE  PoolInv'
  BY <1>2, <1>8 DEF Refused, Answer, SweepRefused, Cancel, Return, Deliver, pools
<1>9. ASSUME NEW c \in Calls, Created(c) \/ NotCreated(c) \/ Closed(c) \/ Terminated(c)
      PROVE  PoolInv'
  BY <1>2, <1>9 DEF Created, NotCreated, Closed, Terminated, Return
<1>10. ASSUME NEW c \in Calls, Close(c) \/ \E p \in Pools : Initialize(c, p) PROVE PoolInv'
  BY <1>2, <1>10 DEF Close, Initialize
<1>11. ASSUME NEW c \in Calls, NEW k \in Keys,
             \/ \E exp \in Expiries : Store(c, k, exp)
             \/ Load(c, k) \/ Delete(c, k) \/ Cleanup(c, k) \/ Count(c, k)
       PROVE PoolInv'
  BY <1>3, <1>11 DEF Store, Load, Delete, Cleanup, Count
<1>12. ASSUME NEW c \in Calls, Sweep(c) PROVE PoolInv'
  BY <1>3, <1>12 DEF Sweep
<1>13. ASSUME NEW c \in Calls, Statement(c) PROVE PoolInv'
  BY <1>4, <1>5, <1>13 DEF Statement, Upsert, DeleteExpired, SelectCount, DeleteRow
<1>14. CASE Tick
  BY <1>1, <1>14 DEF Tick, pools
<1>15. CASE UNCHANGED vars
  BY <1>1, <1>15 DEF vars, pools
<1>16. CASE \E c \in Calls : Raise(c)
  BY <1>15, <1>16 DEF Raise
<1>17. QED
  BY <1>6, <1>7, <1>8, <1>9, <1>10, <1>11, <1>12, <1>13, <1>14, <1>15, <1>16 DEF Next, Begin

LEMMA Invariance == Spec => []IInv
<1>1. IInv /\ [Next]_vars => IInv'
  BY TInvStep, PoolStep DEF IInv
<1>2. QED
  BY InitIInv, <1>1, PTL DEF Spec

\* Every state of a storage object, its tables and its calls has the declared
\* form; no pool ever counts fewer than none or more than all of its connections.
THEOREM TypeCorrect == Spec => []TypeOK
<1>1. IInv => TypeOK
  BY DEF IInv, TInv
<1>2. QED
  BY <1>1, Invariance, PTL

\* Whatever fails and in whatever order: a pool's connections are free or held by
\* one call each, inside its "async with" block.
THEOREM ConnectionsConserved == Spec => []PoolInv
<1>1. IInv => PoolInv
  BY DEF IInv
<1>2. QED
  BY <1>1, Invariance, PTL

\* What a step does to the tables: a token's row goes by a statement that deletes
\* by token, or by a cleanup that finds it expired.
LEMMA RowLost ==
  ASSUME IInv, [Next]_vars, NEW k \in Keys, rows[k] # Absent, rows'[k] = Absent
  PROVE  \E c \in Calls :
            \/ Runs(c, "delete", k) \/ Runs(c, "sweep", k)
            \/ Execute(c, "cleanup") /\ Expired(rows[k], call[c].arg)
<1> USE ConstantFacts DEF IInv, TInv, TypeOK, Rows
<1>1. PICK c \in Calls : Statement(c)
  BY DEF Next, Begin, Raise, Store, Load, Delete, Cleanup, Count, Ask, Acquire, Refused,
         Release, Fail, Cancel, Answer, Deliver, Sweep, SweepRefused, Created, NotCreated, Closed,
         Terminated, Close, Initialize, Tick, vars
<1>2. ASSUME Upsert(c) PROVE FALSE
  <2>1. call[c].arg \in Int
    BY <1>2 DEF Upsert, Execute, CallInv, OnPool
  <2>2. QED
    BY <1>2, <2>1 DEF Upsert
<1>3. ASSUME DeleteExpired(c)
      PROVE  Execute(c, "cleanup") /\ Expired(rows[k], call[c].arg)
  BY <1>3 DEF DeleteExpired
<1>4. ASSUME NEW method \in {"delete", "sweep"}, DeleteRow(c, method)
      PROVE  Runs(c, method, k)
  BY <1>4 DEF DeleteRow, Execute, GoTo, Runs
<1>5. ASSUME Select(c) \/ SelectCount(c) PROVE FALSE
  BY <1>5 DEF Select, SelectCount
<1>6. QED
  BY <1>1, <1>2, <1>3, <1>4, <1>5 DEF Statement

\* No cleanup drops a token that has not expired, and a load's own delete drops one
\* only if it was stored again since the load looked.
THEOREM LiveTokensAreKept == Spec => LiveTokensKept
<1>1. ASSUME IInv, [Next]_vars, NEW k \in Keys, Lost(k)
      PROVE  \E c \in Calls : \/ Runs(c, "delete", k)
                              \/ Runs(c, "sweep", k) /\ call[c].arg # rows[k]
  <2>1. PICK c \in Calls : \/ Runs(c, "delete", k) \/ Runs(c, "sweep", k)
                           \/ Execute(c, "cleanup") /\ Expired(rows[k], call[c].arg)
    BY <1>1, RowLost DEF Lost
  <2>2. rows[k] \in Int /\ clock \in Int /\ ~(rows[k] < clock)
    BY <1>1 DEF Lost, IInv, TInv, TypeOK, Rows
  <2>3. CASE Runs(c, "delete", k)
    BY <2>3
  <2>4. CASE Runs(c, "sweep", k)
    <3>1. call[c].arg \in Int /\ call[c].arg < clock
      BY <1>1, <2>4 DEF Runs, IInv, TInv, CallInv, OnPool
    <3>2. QED
      BY <2>2, <2>4, <3>1
  <2>5. CASE Execute(c, "cleanup") /\ Expired(rows[k], call[c].arg)
    <3>1. call[c].arg \in Int /\ call[c].arg <= clock
      BY <1>1, <2>5 DEF Execute, IInv, TInv, CallInv, OnPool
    <3>2. rows[k] < call[c].arg
      BY <2>5 DEF Expired
    <3>3. QED
      BY <2>2, <3>1, <3>2
  <2>6. QED
    BY <2>1, <2>3, <2>4, <2>5
<1>2. IInv /\ [Next]_vars =>
        [\A k \in Keys : Lost(k) => \E c \in Calls :
            \/ Runs(c, "delete", k)
            \/ Runs(c, "sweep", k) /\ call[c].arg # rows[k]]_vars
  BY <1>1
<1>3. QED
  BY Invariance, <1>2, PTL DEF Spec, LiveTokensKept

\* Initialisations and closings: what each step leaves of the pools' states.
LEMMA LifecycleStep ==
        IInv /\ LifecycleInv /\ PoolNotLeaked /\ [Next]_vars => LifecycleInv' /\ PoolNotLeaked'
<1> SUFFICES ASSUME IInv, LifecycleInv, PoolNotLeaked, [Next]_vars
             PROVE  LifecycleInv' /\ PoolNotLeaked'
  OBVIOUS
<1>0. /\ pool \in Pools \cup {NoPool} /\ NoPool \notin Pools
      /\ status \in [Pools -> {"none", "creating", "open", "closing", "closed"}]
      /\ pc \in [Calls -> {"idle", "acquire", "execute", "release", "judge", "create", "close"}]
      /\ DOMAIN call = Calls
      /\ \A c \in Calls : pc[c] \in {"create", "close"} => call[c].pool \in Pools
  BY ConstantFacts DEF IInv, TInv, TypeOK, CallInv, LifecycleCall
<1> USE <1>0 DEF LifecycleInv, PoolNotLeaked
<1>1. ASSUME UNCHANGED <<pool, status, overlapped>>,
             \A d \in Calls : pc'[d] \in {"create", "close"} =>
                                pc'[d] = pc[d] /\ call'[d] = call[d]
      PROVE  LifecycleInv' /\ PoolNotLeaked'
  BY <1>1
<1>2. ASSUME NEW c \in Calls, NEW p \in Pools, Initialize(c, p)
      PROVE  LifecycleInv' /\ PoolNotLeaked'
  <2>1. ~overlapped' => /\ ~overlapped /\ pool = NoPool
                        /\ \A d \in Calls : pc[d] \notin {"create", "close"}
    BY <1>2, Zenon DEF Initialize, Busy
  <2>2. /\ pc' = [pc EXCEPT ![c] = "create"] /\ UNCHANGED pool
        /\ status[p] = "none" /\ status' = [status EXCEPT ![p] = "creating"]
        /\ \A d \in Calls \ {c} : call'[d] = call[d]
        /\ call'[c].pool = p
    BY <1>2 DEF Initialize, GoTo
  <2>3. PoolNotLeaked'
    BY <2>1, <2>2
  <2>4. /\ pool' # NoPool => status'[pool'] \in {"open", "closing", "closed"}
        /\ \A d \in Calls : pc'[d] = "close" => status'[call'[d].pool] \in {"closing", "closed"}
    BY <2>2
  <2>5. \A d \in Calls : pc'[d] = "create" =>
           /\ status'[call'[d].pool] = "creating"
           /\ \A e \in Calls : pc'[e] = "create" /\ call'[e].pool = call'[d].pool => e = d
    BY <2>2
  <2>6. ~overlapped' => \A d \in Calls :
           /\ pc'[d] = "create" =>
                 pool' = NoPool /\ \A e \in Calls : pc'[e] \in {"create", "close"} => e = d
           /\ pc'[d] = "close" => pool' \in {NoPool, call'[d].pool}
    BY <2>1, <2>2
  <2>7. QED
    BY <2>3, <2>4, <2>5, <2>6
<1>3. ASSUME NEW c \in Calls, Close(c) PROVE LifecycleInv' /\ PoolNotLeaked'
  <2>1. ~overlapped' => ~overlapped /\ \A d \in Calls : pc[d] # "create"
    BY <1>3, Zenon DEF Close, Busy
  <2>2. /\ pc' = [pc EXCEPT ![c] = "close"] /\ UNCHANGED pool /\ pool \in Pools
        /\ status' = [status EXCEPT ![pool] = IF @ = "open" THEN "closing" ELSE @]
        /\ \A d \in Calls \ {c} : call'[d] = call[d]
        /\ call'[c].pool = pool
    BY <1>3 DEF Close, GoTo
  <2>3. PoolNotLeaked'
    BY <2>1, <2>2
  <2>4. LifecycleInv'
    BY <2>1, <2>2
  <2>5. QED
    BY <2>3, <2>4
<1>4. ASSUME NEW c \in Calls, Created(c) PROVE LifecycleInv' /\ PoolNotLeaked'
  BY <1>4 DEF Created, Return, GoTo
<1>5. ASSUME NEW c \in Calls, NotCreated(c) PROVE LifecycleInv' /\ PoolNotLeaked'
  BY <1>5 DEF NotCreated, Return, GoTo
<1>6. ASSUME NEW c \in Calls, Closed(c) PROVE LifecycleInv' /\ PoolNotLeaked'
  BY <1>6 DEF Closed, Forget, Return, GoTo
<1>7. ASSUME NEW c \in Calls, Terminated(c) PROVE LifecycleInv' /\ PoolNotLeaked'
  BY <1>7 DEF Terminated, Return, GoTo
<1>8. ASSUME NEW c \in Calls, NEW label, NEW v, GoTo(c, label),
             label \notin {"create", "close"}, call' = [call EXCEPT ![c] = v],
             UNCHANGED <<pool, status, overlapped>>
      PROVE  LifecycleInv' /\ PoolNotLeaked'
  BY <1>1, <1>8 DEF GoTo
<1>9. ASSUME NEW c \in Calls, NEW method, NEW k, NEW arg, Ask(c, method, k, arg)
      PROVE  LifecycleInv' /\ PoolNotLeaked'
  BY <1>8, <1>9 DEF Ask, pools
<1>10. ASSUME NEW c \in Calls, NEW k \in Keys,
             \/ \E exp \in Expiries : Store(c, k, exp)
             \/ Load(c, k) \/ Delete(c, k) \/ Cleanup(c, k) \/ Count(c, k)
       PROVE LifecycleInv' /\ PoolNotLeaked'
  BY <1>9, <1>10 DEF Store, Load, Delete, Cleanup, Count
<1>11. ASSUME NEW c \in Calls, Refused(c) \/ Answer(c) \/ SweepRefused(c) \/ Cancel(c) \/ Fail(c)
       PROVE  LifecycleInv' /\ PoolNotLeaked'
  BY <1>8, <1>11 DEF Refused, Answer, SweepRefused, Cancel, Fail, Return, Deliver, pools
<1>12. ASSUME NEW c \in Calls, Acquire(c) \/ Release(c) PROVE LifecycleInv' /\ PoolNotLeaked'
  BY <1>1, <1>12 DEF Acquire, Release, Return, Deliver, GoTo
<1>13. ASSUME NEW c \in Calls, Statement(c) PROVE LifecycleInv' /\ PoolNotLeaked'
  BY <1>1, <1>13 DEF Statement, Upsert, Select, DeleteRow, DeleteExpired, SelectCount, Execute,
                     GoTo, pools
<1>14. CASE Tick
  BY <1>1, <1>14 DEF Tick, pools
<1>15. CASE UNCHANGED vars
  BY <1>1, <1>15 DEF vars, pools
<1>16. CASE \E c \in Calls : Raise(c)
  BY <1>15, <1>16 DEF Raise
<1>17. ASSUME NEW c \in Calls, Sweep(c) PROVE LifecycleInv' /\ PoolNotLeaked'
  BY <1>9, <1>17 DEF Sweep
<1> HIDE <1>0 DEF LifecycleInv, PoolNotLeaked
<1>18. QED
  BY <1>2, <1>3, <1>4, <1>5, <1>6, <1>7, <1>10, <1>11, <1>12, <1>13, <1>14, <1>15, <1>16, <1>17
     DEF Next, Begin

\* As long as no initialize() and close() get in each other's way, close() will find
\* whatever pool is open.
THEOREM PoolsNotLeaked == Spec => []PoolNotLeaked
<1>1. Init => LifecycleInv /\ PoolNotLeaked
  BY ConstantFacts DEF Init, LifecycleInv, PoolNotLeaked
<1>2. QED
  BY <1>1, Invariance, LifecycleStep, PTL DEF Spec

-----------------------------------------------------------------------------
\* The refinement.  A step of one call changes the task of that call only.
Alone(c) == \A d \in Calls \ {c} : pc'[d] = pc[d] /\ call'[d] = call[d]

LEMMA OneTaskChanges ==
        ASSUME NEW c \in Calls, NEW v, Alone(c), Task(c)' = v
        PROVE  Tasks' = [Tasks EXCEPT ![c] = v]
<1>1. \A d \in Calls \ {c} : Task(d)' = Task(d)
  BY DEF Alone, Task, Still
<1>2. QED
  BY <1>1 DEF Tasks

LEMMA Leaves ==
        ASSUME NEW c \in Calls, Alone(c), Task(c)' = NoCall, UNCHANGED <<clock, rows>>
        PROVE  Promise!Next
<1>1. Tasks' = [Tasks EXCEPT ![c] = NoCall]
  BY OneTaskChanges
<1>2. Promise!Leave(c)
  BY <1>1 DEF Promise!Leave, Promise!End
<1>3. QED
  BY <1>2 DEF Promise!Next

\* A call at one of its awaits has a task of the abstract storage.
LEMMA TaskOf ==
        ASSUME IInv, NEW c \in Calls, pc[c] \in OnPool
        PROVE  /\ call[c].key \in Keys /\ call[c].arg \in Int \cup {Absent}
               /\ Tasks[c] = Task(c)
               /\ pc[c] \in {"acquire", "execute"} =>
                     /\ Promise!Has(c, call[c].method)
                     /\ Task(c) = Still(c, call[c].method, call[c].arg)
               /\ pc[c] \in {"release", "judge"} /\ call[c].method = "load" =>
                     /\ Promise!Has(c, "answer")
                     /\ Task(c) = Still(c, "answer", call[c].arg)
               /\ pc[c] = "release" /\ call[c].method = "sweep" =>
                     /\ Promise!Has(c, "answer")
                     /\ Task(c) = Still(c, "answer", Absent)
<1>1. call[c] \in Call
  BY DEF IInv, TInv, CallInv
<1>2. Tasks[c] = Task(c)
  BY DEF Tasks
<1>3. call[c].key \in Keys /\ call[c].arg \in Int \cup {Absent} /\ call[c].method \in Statements
  BY <1>1 DEF Call, Rows
<1>4. ASSUME pc[c] \in {"acquire", "execute"}
      PROVE  Promise!Has(c, call[c].method) /\ Task(c) = Still(c, call[c].method, call[c].arg)
  BY <1>2, <1>3, <1>4 DEF Task, Still, Promise!Has, Promise!Task, Promise!Keys, Keys, Statements
<1>5. ASSUME pc[c] \in {"release", "judge"}, call[c].method = "load"
      PROVE  Promise!Has(c, "answer") /\ Task(c) = Still(c, "answer", call[c].arg)
  BY <1>2, <1>3, <1>5 DEF Task, Still, Promise!Has, Promise!Task, Promise!Keys, Keys
<1>6. ASSUME pc[c] = "release", call[c].method = "sweep"
      PROVE  Promise!Has(c, "answer") /\ Task(c) = Still(c, "answer", Absent)
  BY <1>2, <1>3, <1>6 DEF Task, Still, Promise!Has, Promise!Task, Promise!Keys, Keys
<1>7. QED
  BY <1>2, <1>3, <1>4, <1>5, <1>6

\* A method that asks for a connection.
LEMMA AskBegins ==
        ASSUME IInv, NEW c \in Calls, pc[c] = "idle", NEW k \in Keys, NEW method, NEW arg,
               Ask(c, method, k, arg),
               \/ method = "store" /\ arg \in Expiries
               \/ method = "cleanup" /\ arg = clock
               \/ method \in {"load", "delete", "count"} /\ arg = 0
        PROVE  Promise!Next
<1>1. Tasks[c] = call[c] /\ call[c] \in Answered \cup {NoCall}
  BY DEF Tasks, Task, IInv, TInv, CallInv
<1>2. Tasks[c] = NoCall \/ Promise!Has(c, "answered")
  BY <1>1 DEF Answered, Rows, Promise!Has, Promise!Task, Promise!Keys, Keys
<1>3. Alone(c) /\ Task(c)' = [method |-> method, key |-> k, arg |-> arg]
  BY DEF Ask, GoTo, Alone, Task, Still, IInv, TInv, TypeOK
<1>4. Promise!Become(c, method, k, arg)
  BY <1>3, OneTaskChanges DEF Promise!Become
<1>5. k \in Promise!Keys /\ UNCHANGED <<clock, rows>>
  BY DEF Ask, Keys, Promise!Keys
<1>6. Promise!Begin(c)
  BY <1>2, <1>4, <1>5 DEF Promise!Begin
<1>7. QED
  BY <1>6 DEF Promise!Next

\* Each statement is the effect of its method.
LEMMA StatementRefines ==
        ASSUME IInv, NEW c \in Calls, Statement(c)
        PROVE  Promise!Next
<1> USE DEF IInv, TInv, TypeOK
<1>0. pc[c] = "execute" /\ pc[c] \in OnPool /\ pc'[c] = "release" /\ clock' = clock
  BY DEF Statement, Upsert, Select, DeleteExpired, SelectCount, DeleteRow, Execute, GoTo, OnPool
<1>1. /\ call[c].key \in Keys /\ Promise!Has(c, call[c].method)
      /\ Tasks[c] = Still(c, call[c].method, call[c].arg)
  BY <1>0, TaskOf
<1>2. Tasks[c].key = call[c].key /\ Tasks[c].arg = call[c].arg
  BY <1>1 DEF Still
<1>3. ASSUME UNCHANGED call, call[c].method \notin {"load", "sweep"}
      PROVE  Alone(c) /\ Promise!End(c)
  <2>1. Alone(c) /\ Task(c)' = NoCall
    BY <1>0, <1>3 DEF Statement, Upsert, Select, DeleteExpired, SelectCount, DeleteRow, Execute, GoTo,
       Alone, Task
  <2>2. QED
    BY <2>1, OneTaskChanges DEF Promise!End
<1>4. CASE Upsert(c)
  <2>1. Promise!Store(c)
    BY <1>0, <1>1, <1>2, <1>3, <1>4 DEF Upsert, Execute, Promise!Store
  <2>2. QED
    BY <2>1 DEF Promise!Next
<1>5. CASE DeleteRow(c, "delete")
  <2>1. Promise!Delete(c)
    BY <1>0, <1>1, <1>2, <1>3, <1>5 DEF DeleteRow, Execute, Promise!Delete
  <2>2. QED
    BY <2>1 DEF Promise!Next
<1>6. CASE SelectCount(c)
  <2>1. Promise!Leave(c)
    BY <1>0, <1>3, <1>6 DEF SelectCount, Execute, Promise!Leave
  <2>2. QED
    BY <2>1 DEF Promise!Next
<1>7. CASE Select(c)
  <2>1. call[c] \in Call /\ call[c].method = "load"
    BY <1>0, <1>7 DEF CallInv, Select, Execute
  <2>2. Alone(c) /\ Task(c)' = [method |-> "answer", key |-> call[c].key, arg |-> rows[call[c].key]]
    BY <1>0, <1>7, <2>1 DEF Select, Execute, GoTo, Alone, Task, Still, Call
  <2>3. Promise!Read(c)
    BY <1>0, <1>1, <1>2, <1>7, <2>1, <2>2, OneTaskChanges DEF Select, Promise!Read, Promise!Become
  <2>4. QED
    BY <2>3 DEF Promise!Next
<1>8. CASE DeleteRow(c, "sweep")
  <2>1. call[c].method = "sweep" /\ UNCHANGED call
    BY <1>8 DEF DeleteRow, Execute
  <2>2. Alone(c) /\ Task(c)' = [method |-> "answer", key |-> call[c].key, arg |-> Absent]
    BY <1>0, <1>8, <2>1 DEF DeleteRow, Execute, GoTo, Alone, Task, Still
  <2>3. Promise!Sweep(c)
    BY <1>0, <1>1, <1>2, <1>8, <2>1, <2>2, OneTaskChanges DEF DeleteRow, Promise!Sweep, Promise!Become
  <2>4. QED
    BY <2>3 DEF Promise!Next
<1>9. CASE DeleteExpired(c)
  <2> DEFINE gone == {k \in Keys : k[1] = call[c].key[1] /\ Expired(rows[k], call[c].arg)}
  <2>1. call[c].method = "cleanup" /\ UNCHANGED call /\ call[c].arg \in Int /\ call[c].arg <= clock
    BY <1>0, <1>9 DEF DeleteExpired, Execute, CallInv
  <2>2. \A k \in gone : Promise!Expired(rows[k], clock)
    <3> SUFFICES ASSUME NEW k \in Keys, Expired(rows[k], call[c].arg)
                 PROVE  Promise!Expired(rows[k], clock)
      OBVIOUS
    <3>1. rows[k] \in Int /\ rows[k] # Absent /\ rows[k] < call[c].arg
      BY DEF Expired, Rows
    <3>2. QED
      BY <2>1, <3>1 DEF Promise!Expired
  <2>3. \A k \in Keys \ gone : k[1] = call[c].key[1] => ~Promise!Expired(rows[k], call[c].arg)
    BY DEF Expired, Promise!Expired
  <2>4. rows' = [k \in Keys |-> IF k \in gone THEN Absent ELSE rows[k]]
    BY <1>9 DEF DeleteExpired
  <2>5. Promise!Keys = Keys /\ gone \in SUBSET Keys
    BY DEF Keys, Promise!Keys
  <2> HIDE DEF gone
  <2>6. Promise!Cleanup(c, gone)
    BY <1>0, <1>1, <1>2, <1>3, <2>1, <2>2, <2>3, <2>4, <2>5 DEF Promise!Cleanup
  <2>7. QED
    BY <2>5, <2>6 DEF Promise!Next
<1>10. QED
  BY <1>4, <1>5, <1>6, <1>7, <1>8, <1>9 DEF Statement

LEMMA StepRefines == IInv /\ [Next]_vars => [Promise!Next]_(Promise!vars)
<1> SUFFICES ASSUME IInv, [Next]_vars PROVE [Promise!Next]_(Promise!vars)
  OBVIOUS
<1>0. pc \in [Calls -> {"idle", "acquire", "execute", "release", "judge", "create", "close"}] /\ DOMAIN call = Calls
  BY DEF IInv, TInv, TypeOK
<1>1. ASSUME NEW c \in Calls, NEW k \in Keys,
             \/ \E exp \in Expiries : Store(c, k, exp)
             \/ Load(c, k) \/ Delete(c, k) \/ Cleanup(c, k) \/ Count(c, k)
      PROVE  Promise!Next
  BY <1>1, AskBegins DEF Store, Load, Delete, Cleanup, Count
<1>2. ASSUME NEW c \in Calls, Refused(c) \/ SweepRefused(c) \/ Cancel(c) \/ Fail(c) PROVE Promise!Next
  <2>1. Alone(c) /\ Task(c)' = NoCall /\ UNCHANGED <<clock, rows>>
    BY <1>0, <1>2 DEF Refused, SweepRefused, Cancel, Fail, Return, GoTo, Alone, Task
  <2>2. QED
    BY <2>1, Leaves
<1>3. ASSUME NEW c \in Calls,
             \/ Close(c) \/ Created(c) \/ NotCreated(c) \/ Closed(c) \/ Terminated(c)
             \/ \E p \in Pools : Initialize(c, p)
      PROVE  Promise!Next
  <2>1. Alone(c) /\ Task(c)' = NoCall /\ UNCHANGED <<clock, rows>>
    BY <1>0, <1>3 DEF Close, Created, NotCreated, Closed, Terminated, Initialize, Return, GoTo, Alone, Task
  <2>2. QED
    BY <2>1, Leaves
<1>4. ASSUME NEW c \in Calls, Statement(c) PROVE Promise!Next
  BY <1>4, StatementRefines
<1>5. ASSUME UNCHANGED <<clock, rows, call>>, \A d \in Calls : Task(d)' = Task(d)
      PROVE  UNCHANGED Promise!vars
  BY <1>5 DEF Promise!vars, Tasks
<1>6. ASSUME NEW c \in Calls, Acquire(c) PROVE UNCHANGED Promise!vars
  <2>1. \A d \in Calls : Task(d)' = Task(d)
    BY <1>0, <1>6 DEF Acquire, GoTo, Task, Still
  <2>2. QED
    BY <1>5, <1>6, <2>1 DEF Acquire
<1>7. ASSUME NEW c \in Calls, NEW found \in Int \cup {Absent}, pc[c] \in OnPool,
             Tasks[c] = Still(c, "answer", found), Promise!Has(c, "answer"), Deliver(c, found),
             ~Expired(found, clock), UNCHANGED <<clock, rows>>
      PROVE  Promise!Next
  <2>1. Alone(c) /\ Task(c)' = [method |-> "answered", key |-> call[c].key, arg |-> found]
    BY <1>0, <1>7 DEF Deliver, GoTo, Alone, Task
  <2>2. Tasks[c].key = call[c].key /\ Tasks[c].arg = found
    BY <1>7 DEF Still
  <2>3. Promise!Answer(c)
    BY <1>7, <2>1, <2>2, OneTaskChanges DEF Promise!Answer, Promise!Become, Promise!Expired, Expired
  <2>4. QED
    BY <2>3 DEF Promise!Next
<1>8. ASSUME NEW c \in Calls, Answer(c) PROVE Promise!Next
  <2>1. /\ call[c].method = "load" /\ pc[c] = "judge" /\ pc[c] \in OnPool
        /\ ~Expired(call[c].arg, clock) /\ Deliver(c, call[c].arg) /\ UNCHANGED <<clock, rows>>
    BY <1>8 DEF Answer, IInv, TInv, CallInv, OnPool
  <2>2. QED
    BY <1>7, <2>1, TaskOf
<1>9. ASSUME NEW c \in Calls, Sweep(c) PROVE Promise!Next
  <2>1. /\ call[c].method = "load" /\ pc[c] = "judge" /\ pc[c] \in OnPool
        /\ Expired(call[c].arg, clock) /\ Ask(c, "sweep", call[c].key, call[c].arg)
        /\ UNCHANGED <<clock, rows>>
    BY <1>9 DEF Sweep, Ask, IInv, TInv, CallInv, OnPool
  <2>2. Promise!Has(c, "answer") /\ Tasks[c] = Still(c, "answer", call[c].arg)
    BY <2>1, TaskOf
  <2>3. Tasks[c].key = call[c].key /\ Tasks[c].arg = call[c].arg
    BY <2>2 DEF Still
  <2>4. Alone(c) /\ Task(c)' = [method |-> "sweep", key |-> call[c].key, arg |-> call[c].arg]
    BY <1>0, <2>1 DEF Ask, GoTo, Alone, Task, Still
  <2>5. Promise!Discover(c)
    BY <2>1, <2>2, <2>3, <2>4, OneTaskChanges DEF Promise!Discover, Promise!Become, Promise!Expired, Expired
  <2>6. QED
    BY <2>5 DEF Promise!Next
<1>10. ASSUME NEW c \in Calls, Release(c) PROVE [Promise!Next]_(Promise!vars)
  <2>1. pc[c] = "release" /\ pc[c] \in OnPool /\ UNCHANGED <<clock, rows>>
    BY <1>10 DEF Release, OnPool
  <2>2. CASE call[c].method = "load"
    <3>1. UNCHANGED call /\ GoTo(c, "judge")
      BY <1>10, <2>2 DEF Release
    <3>2. \A d \in Calls : Task(d)' = Task(d)
      BY <1>0, <2>1, <2>2, <3>1 DEF GoTo, Task, Still
    <3>3. QED
      BY <1>5, <2>1, <3>1, <3>2
  <2>3. CASE call[c].method = "sweep"
    <3>1. Deliver(c, Absent) /\ ~Expired(Absent, clock)
      BY <1>10, <2>3 DEF Release, Expired
    <3>2. QED
      BY <1>7, <2>1, <2>3, <3>1, TaskOf
  <2>4. CASE call[c].method \notin {"load", "sweep"}
    <3>1. Return(c)
      BY <1>10, <2>4 DEF Release
    <3>2. Alone(c) /\ Task(c)' = NoCall
      BY <1>0, <3>1 DEF Return, GoTo, Alone, Task
    <3>3. QED
      BY <2>1, <3>2, Leaves
  <2>5. QED
    BY <2>2, <2>3, <2>4
<1>11. CASE Tick
  <2>1. Tasks' = Tasks
    BY <1>11 DEF Tick, Tasks, Task, Still
  <2>2. QED
    BY <1>11, <2>1 DEF Tick, Promise!Next, Promise!Tick
<1>12. CASE UNCHANGED vars \/ \E c \in Calls : Raise(c)
  BY <1>12 DEF Raise, vars, Promise!vars, Tasks, Task, Still
<1>13. QED
  BY <1>1, <1>2, <1>3, <1>4, <1>6, <1>8, <1>9, <1>10, <1>11, <1>12 DEF Next, Begin

\* The storage in Postgres implements SharedTokenStorage: pools, connections and
\* failures change nothing of what a call does to the tables or answers.
THEOREM PostgresImplementsSharedStorage == Spec => ImplementsSharedStorage
<1>1. Init => Promise!Init
  BY DEF Init, Promise!Init, Tasks, Task, Keys, Promise!Keys
<1>2. QED
  BY <1>1, StepRefines, Invariance, PTL DEF Spec, ImplementsSharedStorage, Promise!Spec
=============================================================================
