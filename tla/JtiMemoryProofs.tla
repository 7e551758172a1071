-------------------------- MODULE JtiMemoryProofs --------------------------
(***************************************************************************)
(* Proofs about the in-memory replay cache, for any threads, assertions    *)
(* and durations.                                                          *)
(***************************************************************************)
EXTENDS JtiMemory, TLAPS

IInv == TypeOK /\ CacheInv

\* The durations are natural numbers, assertions are records of claims and the
\* null values are what they are taken for.
LEMMA ConstantFacts ==
        /\ NoThread \notin Threads /\ NoAssertion \notin Assertions
        /\ Absent \notin Int /\ Text \notin Int /\ Text # Absent
        /\ Assertions \subseteq Assertion
        /\ CleanupInterval \in Nat \ {0} /\ MaxRestarts \in Nat
  BY NoThreadAssumption, AssertionsAssumption, JtiAbsentAssumption, DurationsAssumption

LEMMA InitIInv == Init => IInv
  BY ConstantFacts DEF Init, IInv, TypeOK, CacheInv, LockHeld, InFlight, ProtectedIsCached,
     FoundFresh, Empty, Locked, Labels

-----------------------------------------------------------------------------
\* Every action keeps the types; the two halves of the lock protocol are proved
\* together with them.

\* A step of a call keeps the types.
LEMMA TypeOKStep == IInv /\ [Next]_vars => TypeOK'
<1> SUFFICES ASSUME IInv, [Next]_vars PROVE TypeOK'
  OBVIOUS
<1> USE ConstantFacts
<1>1. ASSUME NEW t \in Threads, NEW a \in Assertions, Authenticate(t, a) PROVE TypeOK'
  BY <1>1 DEF IInv, TypeOK, Authenticate, GoTo, cache, history, Labels
<1>2. ASSUME NEW t \in Threads, Decode(t) PROVE TypeOK'
  BY <1>2 DEF IInv, TypeOK, Decode, GoTo, Forget, cache, history, Labels
<1>3. ASSUME NEW t \in Threads, Reject(t) PROVE TypeOK'
  BY <1>3 DEF IInv, TypeOK, Reject, Return, GoTo, Forget, cache, history, Labels
<1>4. ASSUME NEW t \in Threads, CheckCleanup(t) PROVE TypeOK'
  BY <1>4 DEF IInv, TypeOK, CheckCleanup, GoTo, cache, history, Labels
<1>5. ASSUME NEW t \in Threads, LockForCleanup(t) PROVE TypeOK'
  BY <1>5 DEF IInv, TypeOK, LockForCleanup, Acquire, GoTo, cache, history, Labels, Locked
<1>6. ASSUME NEW t \in Threads, Purge(t) PROVE TypeOK'
  BY <1>6 DEF IInv, TypeOK, Purge, Cleaned, Release, GoTo, Forget, cache, history, Labels
<1>7. ASSUME NEW t \in Threads, LockForRecord(t) PROVE TypeOK'
  BY <1>7 DEF IInv, TypeOK, LockForRecord, Acquire, GoTo, cache, history, Labels, Locked
<1>8. ASSUME NEW t \in Threads, Replayed(t) PROVE TypeOK'
  BY <1>8 DEF IInv, TypeOK, Replayed, Release, Return, GoTo, Forget, cache, history, Labels
<1>9. ASSUME NEW t \in Threads, Fresh(t) PROVE TypeOK'
  BY <1>9 DEF IInv, TypeOK, Fresh, GoTo, cache, history, Labels, Locked
<1>10. ASSUME NEW t \in Threads, Store(t) PROVE TypeOK'
  <2>1. assertion[t] \in Assertion
    BY <1>10 DEF IInv, CacheInv, InFlight, Store
  <2>2. assertion[t].jti \in Jtis /\ assertion[t].exp \in Int
    BY <2>1 DEF Assertion
  <2>3. QED
    BY <1>10, <2>2 DEF IInv, TypeOK, Store, Raw, Release, Return, GoTo, Forget, Labels
<1>11. CASE Restart
  BY <1>11 DEF IInv, TypeOK, Restart, Empty, Labels
<1>12. CASE Tick
  BY <1>12 DEF IInv, TypeOK, Tick, cache, history
<1>13. CASE UNCHANGED vars
  BY <1>13 DEF IInv, TypeOK, vars, cache, history
<1>14. ASSUME NEW t \in Threads, PurgeRaises(t) PROVE TypeOK'
  BY <1>14 DEF IInv, TypeOK, PurgeRaises, Release, Return, GoTo, Forget, cache, history, Labels
<1>15. QED
  BY <1>1, <1>2, <1>3, <1>4, <1>5, <1>6, <1>7, <1>8, <1>9, <1>10, <1>11, <1>12, <1>13, <1>14
     DEF Next, Step

\* The lock protocol: only the holder is inside, and only it leaves.
LEMMA LockHeldStep == IInv /\ [Next]_vars => LockHeld'
<1> SUFFICES ASSUME IInv, [Next]_vars PROVE LockHeld'
  OBVIOUS
<1> USE ConstantFacts
<1>1. ASSUME NEW t \in Threads, NEW a \in Assertions, Authenticate(t, a) PROVE LockHeld'
  BY <1>1 DEF IInv, CacheInv, TypeOK, LockHeld, Locked, Labels, Authenticate, GoTo, cache, history
<1>2. ASSUME NEW t \in Threads, Decode(t) PROVE LockHeld'
  BY <1>2 DEF IInv, CacheInv, TypeOK, LockHeld, Locked, Labels, Decode, GoTo, Forget, cache, history
<1>3. ASSUME NEW t \in Threads, Reject(t) PROVE LockHeld'
  BY <1>3 DEF IInv, CacheInv, TypeOK, LockHeld, Locked, Labels, Reject, Return, GoTo, Forget, cache, history
<1>4. ASSUME NEW t \in Threads, CheckCleanup(t) PROVE LockHeld'
  BY <1>4 DEF IInv, CacheInv, TypeOK, LockHeld, Locked, Labels, CheckCleanup, GoTo, cache, history
<1>5. ASSUME NEW t \in Threads, LockForCleanup(t) PROVE LockHeld'
  BY <1>5 DEF IInv, CacheInv, TypeOK, LockHeld, Locked, Labels, LockForCleanup, Acquire, GoTo, cache, history
<1>6. ASSUME NEW t \in Threads, Purge(t) PROVE LockHeld'
  BY <1>6 DEF IInv, CacheInv, TypeOK, LockHeld, Locked, Labels, Purge, Incomparable, Cleaned, Expired, Release, GoTo, Forget, cache, history
<1>7. ASSUME NEW t \in Threads, LockForRecord(t) PROVE LockHeld'
  BY <1>7 DEF IInv, CacheInv, TypeOK, LockHeld, Locked, Labels, LockForRecord, Acquire, GoTo, cache, history
<1>8. ASSUME NEW t \in Threads, Replayed(t) PROVE LockHeld'
  BY <1>8 DEF IInv, CacheInv, TypeOK, LockHeld, Locked, Labels, Replayed, Release, Return, GoTo, Forget, cache, history
<1>9. ASSUME NEW t \in Threads, Fresh(t) PROVE LockHeld'
  BY <1>9 DEF IInv, CacheInv, TypeOK, LockHeld, Locked, Labels, Fresh, GoTo, cache, history
<1>10. ASSUME NEW t \in Threads, Store(t) PROVE LockHeld'
  BY <1>10 DEF IInv, CacheInv, TypeOK, LockHeld, Locked, Labels, Store, Release, Return, GoTo, Forget
<1>11. CASE Restart
  BY <1>11 DEF IInv, CacheInv, TypeOK, LockHeld, Locked, Labels, Restart, Empty
<1>12. CASE Tick
  BY <1>12 DEF IInv, CacheInv, TypeOK, LockHeld, Locked, Labels, Tick, cache, history
<1>13. CASE UNCHANGED vars
  BY <1>13 DEF IInv, CacheInv, TypeOK, LockHeld, Locked, Labels, vars, cache, history
<1>14. ASSUME NEW t \in Threads, PurgeRaises(t) PROVE LockHeld'
  BY <1>14 DEF IInv, CacheInv, TypeOK, LockHeld, Locked, Labels, PurgeRaises, Release, Return, GoTo, Forget, cache, history
<1>15. QED
  BY <1>1, <1>2, <1>3, <1>4, <1>5, <1>6, <1>7, <1>8, <1>9, <1>10, <1>11, <1>12, <1>13, <1>14 DEF Next, Step

\* A call keeps its assertion until it returns.
LEMMA InFlightStep == IInv /\ [Next]_vars => InFlight'
<1> SUFFICES ASSUME IInv, [Next]_vars PROVE InFlight'
  OBVIOUS
<1> USE ConstantFacts
<1>1. ASSUME NEW t \in Threads, NEW a \in Assertions, Authenticate(t, a) PROVE InFlight'
  BY <1>1 DEF IInv, CacheInv, TypeOK, InFlight, Labels, Authenticate, GoTo, cache, history
<1>2. ASSUME NEW t \in Threads, Decode(t) PROVE InFlight'
  BY <1>2 DEF IInv, CacheInv, TypeOK, InFlight, Labels, Decode, GoTo, Forget, cache, history
<1>3. ASSUME NEW t \in Threads, Reject(t) PROVE InFlight'
  BY <1>3 DEF IInv, CacheInv, TypeOK, InFlight, Labels, Reject, Return, GoTo, Forget, cache, history
<1>4. ASSUME NEW t \in Threads, CheckCleanup(t) PROVE InFlight'
  BY <1>4 DEF IInv, CacheInv, TypeOK, InFlight, Labels, CheckCleanup, GoTo, cache, history
<1>5. ASSUME NEW t \in Threads, LockForCleanup(t) PROVE InFlight'
  BY <1>5 DEF IInv, CacheInv, TypeOK, InFlight, Labels, LockForCleanup, Acquire, GoTo, cache, history
<1>6. ASSUME NEW t \in Threads, Purge(t) PROVE InFlight'
  BY <1>6 DEF IInv, CacheInv, TypeOK, InFlight, Labels, Purge, Incomparable, Cleaned, Expired, Release, GoTo, Forget, cache, history
<1>7. ASSUME NEW t \in Threads, LockForRecord(t) PROVE InFlight'
  BY <1>7 DEF IInv, CacheInv, TypeOK, InFlight, Labels, LockForRecord, Acquire, GoTo, cache, history
<1>8. ASSUME NEW t \in Threads, Replayed(t) PROVE InFlight'
  BY <1>8 DEF IInv, CacheInv, TypeOK, InFlight, Labels, Replayed, Release, Return, GoTo, Forget, cache, history
<1>9. ASSUME NEW t \in Threads, Fresh(t) PROVE InFlight'
  BY <1>9 DEF IInv, CacheInv, TypeOK, InFlight, Labels, Fresh, GoTo, cache, history
<1>10. ASSUME NEW t \in Threads, Store(t) PROVE InFlight'
  BY <1>10 DEF IInv, CacheInv, TypeOK, InFlight, Labels, Store, Release, Return, GoTo, Forget
<1>11. CASE Restart
  BY <1>11 DEF IInv, CacheInv, TypeOK, InFlight, Labels, Restart, Empty
<1>12. CASE Tick
  BY <1>12 DEF IInv, CacheInv, TypeOK, InFlight, Labels, Tick, cache, history
<1>13. CASE UNCHANGED vars
  BY <1>13 DEF IInv, CacheInv, TypeOK, InFlight, Labels, vars, cache, history
<1>14. ASSUME NEW t \in Threads, PurgeRaises(t) PROVE InFlight'
  BY <1>14 DEF IInv, CacheInv, TypeOK, InFlight, Labels, PurgeRaises, Release, Return, GoTo, Forget, cache, history
<1>15. QED
  BY <1>1, <1>2, <1>3, <1>4, <1>5, <1>6, <1>7, <1>8, <1>9, <1>10, <1>11, <1>12, <1>13, <1>14 DEF Next, Step

\* Only a purge drops an identifier, and only after its exp.
LEMMA ProtectedIsCachedStep == IInv /\ [Next]_vars => ProtectedIsCached'
<1> SUFFICES ASSUME IInv, [Next]_vars PROVE ProtectedIsCached'
  OBVIOUS
<1> USE ConstantFacts
<1>1. ASSUME NEW t \in Threads, NEW a \in Assertions, Authenticate(t, a) PROVE ProtectedIsCached'
  BY <1>1 DEF IInv, CacheInv, TypeOK, ProtectedIsCached, Authenticate, GoTo, cache, history
<1>2. ASSUME NEW t \in Threads, Decode(t) PROVE ProtectedIsCached'
  BY <1>2 DEF IInv, CacheInv, TypeOK, ProtectedIsCached, Decode, GoTo, Forget, cache, history
<1>3. ASSUME NEW t \in Threads, Reject(t) PROVE ProtectedIsCached'
  BY <1>3 DEF IInv, CacheInv, TypeOK, ProtectedIsCached, Reject, Return, GoTo, Forget, cache, history
<1>4. ASSUME NEW t \in Threads, CheckCleanup(t) PROVE ProtectedIsCached'
  BY <1>4 DEF IInv, CacheInv, TypeOK, ProtectedIsCached, CheckCleanup, GoTo, cache, history
<1>5. ASSUME NEW t \in Threads, LockForCleanup(t) PROVE ProtectedIsCached'
  BY <1>5 DEF IInv, CacheInv, TypeOK, ProtectedIsCached, LockForCleanup, Acquire, GoTo, cache, history
<1>6. ASSUME NEW t \in Threads, Purge(t) PROVE ProtectedIsCached'
  BY <1>6 DEF IInv, CacheInv, TypeOK, ProtectedIsCached, Purge, Incomparable, Cleaned, Expired, Release, GoTo, Forget, cache, history
<1>7. ASSUME NEW t \in Threads, LockForRecord(t) PROVE ProtectedIsCached'
  BY <1>7 DEF IInv, CacheInv, TypeOK, ProtectedIsCached, LockForRecord, Acquire, GoTo, cache, history
<1>8. ASSUME NEW t \in Threads, Replayed(t) PROVE ProtectedIsCached'
  BY <1>8 DEF IInv, CacheInv, TypeOK, ProtectedIsCached, Replayed, Release, Return, GoTo, Forget, cache, history
<1>9. ASSUME NEW t \in Threads, Fresh(t) PROVE ProtectedIsCached'
  BY <1>9 DEF IInv, CacheInv, TypeOK, ProtectedIsCached, Fresh, GoTo, cache, history
<1>10. ASSUME NEW t \in Threads, Store(t) PROVE ProtectedIsCached'
  BY <1>10 DEF IInv, CacheInv, TypeOK, ProtectedIsCached, Store, Raw, InFlight, Assertion, Release, Return, GoTo, Forget
<1>11. CASE Restart
  BY <1>11 DEF IInv, CacheInv, TypeOK, ProtectedIsCached, Restart, Empty
<1>12. CASE Tick
  BY <1>12 DEF IInv, CacheInv, TypeOK, ProtectedIsCached, Tick, cache, history
<1>13. CASE UNCHANGED vars
  BY <1>13 DEF IInv, CacheInv, TypeOK, ProtectedIsCached, vars, cache, history
<1>14. ASSUME NEW t \in Threads, PurgeRaises(t) PROVE ProtectedIsCached'
  BY <1>14 DEF IInv, CacheInv, TypeOK, ProtectedIsCached, PurgeRaises, Release, Return, GoTo, Forget, cache, history
<1>15. QED
  BY <1>1, <1>2, <1>3, <1>4, <1>5, <1>6, <1>7, <1>8, <1>9, <1>10, <1>11, <1>12, <1>13, <1>14 DEF Next, Step

\* No other thread can store between a look-up and its store.
LEMMA FoundFreshStep == IInv /\ [Next]_vars => FoundFresh'
<1> SUFFICES ASSUME IInv, [Next]_vars PROVE FoundFresh'
  OBVIOUS
<1> USE ConstantFacts
<1>1. ASSUME NEW t \in Threads, NEW a \in Assertions, Authenticate(t, a) PROVE FoundFresh'
  BY <1>1 DEF IInv, CacheInv, TypeOK, FoundFresh, LockHeld, Locked, Labels, Authenticate, GoTo, cache, history
<1>2. ASSUME NEW t \in Threads, Decode(t) PROVE FoundFresh'
  BY <1>2 DEF IInv, CacheInv, TypeOK, FoundFresh, LockHeld, Locked, Labels, Decode, GoTo, Forget, cache, history
<1>3. ASSUME NEW t \in Threads, Reject(t) PROVE FoundFresh'
  BY <1>3 DEF IInv, CacheInv, TypeOK, FoundFresh, LockHeld, Locked, Labels, Reject, Return, GoTo, Forget, cache, history
<1>4. ASSUME NEW t \in Threads, CheckCleanup(t) PROVE FoundFresh'
  BY <1>4 DEF IInv, CacheInv, TypeOK, FoundFresh, LockHeld, Locked, Labels, CheckCleanup, GoTo, cache, history
<1>5. ASSUME NEW t \in Threads, LockForCleanup(t) PROVE FoundFresh'
  BY <1>5 DEF IInv, CacheInv, TypeOK, FoundFresh, LockHeld, Locked, Labels, LockForCleanup, Acquire, GoTo, cache, history
<1>6. ASSUME NEW t \in Threads, Purge(t) PROVE FoundFresh'
  BY <1>6 DEF IInv, CacheInv, TypeOK, FoundFresh, LockHeld, Locked, Labels, Purge, Incomparable, Cleaned, Expired, Release, GoTo, Forget, cache, history
<1>7. ASSUME NEW t \in Threads, LockForRecord(t) PROVE FoundFresh'
  BY <1>7 DEF IInv, CacheInv, TypeOK, FoundFresh, LockHeld, Locked, Labels, LockForRecord, Acquire, GoTo, cache, history
<1>8. ASSUME NEW t \in Threads, Replayed(t) PROVE FoundFresh'
  BY <1>8 DEF IInv, CacheInv, TypeOK, FoundFresh, LockHeld, Locked, Labels, Replayed, Release, Return, GoTo, Forget, cache, history
<1>9. ASSUME NEW t \in Threads, Fresh(t) PROVE FoundFresh'
  BY <1>9 DEF IInv, CacheInv, TypeOK, FoundFresh, LockHeld, Locked, Labels, Fresh, GoTo, cache, history
<1>10. ASSUME NEW t \in Threads, Store(t) PROVE FoundFresh'
  BY <1>10 DEF IInv, CacheInv, TypeOK, FoundFresh, LockHeld, Locked, Labels, Store, Raw, Release, Return, GoTo, Forget
<1>11. CASE Restart
  BY <1>11 DEF IInv, CacheInv, TypeOK, FoundFresh, LockHeld, Locked, Labels, Restart, Empty
<1>12. CASE Tick
  BY <1>12 DEF IInv, CacheInv, TypeOK, FoundFresh, LockHeld, Locked, Labels, Tick, cache, history
<1>13. CASE UNCHANGED vars
  BY <1>13 DEF IInv, CacheInv, TypeOK, FoundFresh, LockHeld, Locked, Labels, vars, cache, history
<1>14. ASSUME NEW t \in Threads, PurgeRaises(t) PROVE FoundFresh'
  BY <1>14 DEF IInv, CacheInv, TypeOK, FoundFresh, LockHeld, Locked, Labels, PurgeRaises, Release, Return, GoTo, Forget, cache, history
<1>15. QED
  BY <1>1, <1>2, <1>3, <1>4, <1>5, <1>6, <1>7, <1>8, <1>9, <1>10, <1>11, <1>12, <1>13, <1>14 DEF Next, Step

LEMMA IInvStep == IInv /\ [Next]_vars => IInv'
  BY TypeOKStep, LockHeldStep, InFlightStep, ProtectedIsCachedStep, FoundFreshStep
     DEF IInv, CacheInv

LEMMA IInvHolds == Spec => []IInv
  BY InitIInv, IInvStep, PTL DEF Spec

\* The variables of the cache, the lock, the calls and the history keep their
\* types; _last_cleanup and every now a thread remembers lie in the past.
THEOREM TypeCorrect == Spec => []TypeOK
  BY IInvHolds, PTL DEF IInv

\* An identifier stays in the dictionary at least until the exp it was accepted
\* with has passed, and nobody stores between a thread's look-up and its store.
THEOREM CacheCorrect == Spec => []CacheInv
  BY IInvHolds, PTL DEF IInv

-----------------------------------------------------------------------------
\* The calls that leave the cache and the history alone.
Quiet(t) == \/ Decode(t) \/ Reject(t) \/ CheckCleanup(t) \/ LockForCleanup(t)
            \/ LockForRecord(t) \/ Replayed(t) \/ Fresh(t) \/ PurgeRaises(t)

LEMMA QuietSteps ==
        ASSUME NEW t \in Threads, Quiet(t)
        PROVE  UNCHANGED <<clock, used, lastCleanup, restarts, protectedUntil, recordedAt>>
  BY DEF Quiet, Decode, Reject, CheckCleanup, LockForCleanup, LockForRecord, Replayed, Fresh,
     PurgeRaises, cache, history

\* Next, with the quiet steps put together.
LEMMA StepCases ==
        ASSUME [Next]_vars
        PROVE  \/ UNCHANGED <<clock, used, lastCleanup, restarts, protectedUntil, recordedAt>>
               \/ \E t \in Threads : Purge(t) \/ Store(t)
               \/ Restart \/ Tick
<1>1. ASSUME NEW t \in Threads, NEW a \in Assertions, Authenticate(t, a)
      PROVE UNCHANGED <<clock, used, lastCleanup, restarts, protectedUntil, recordedAt>>
  BY <1>1 DEF Authenticate, cache, history
<1>2. ASSUME NEW t \in Threads, Step(t)
      PROVE Quiet(t) \/ Purge(t) \/ Store(t)
  BY <1>2 DEF Step, Quiet
<1>3. CASE UNCHANGED vars
  BY <1>3 DEF vars, cache, history
<1>4. QED
  BY <1>1, <1>2, <1>3, QuietSteps DEF Next

\* A purge leaves no identifier behind whose exp had passed when it began.
THEOREM PurgesComplete == Spec => []PurgeComplete
<1>1. Init => PurgeComplete
  BY DEF Init, PurgeComplete, Empty
<1>2. IInv /\ PurgeComplete /\ [Next]_vars => PurgeComplete'
  <2> SUFFICES ASSUME IInv, PurgeComplete, [Next]_vars PROVE PurgeComplete'
    OBVIOUS
  <2> USE ConstantFacts
  <2>1. ASSUME NEW t \in Threads, Purge(t) PROVE PurgeComplete'
    BY <2>1 DEF Purge, Incomparable, Cleaned, Expired, PurgeComplete, IInv, TypeOK, cache, history
  <2>2. ASSUME NEW t \in Threads, Store(t) PROVE PurgeComplete'
    BY <2>2 DEF Store, Raw, PurgeComplete, IInv, TypeOK
  <2>3. CASE Restart
    BY <2>3 DEF Restart, PurgeComplete, Empty
  <2>4. CASE Tick
    BY <2>4 DEF Tick, PurgeComplete, cache, history
  <2>5. QED
    BY <2>1, <2>2, <2>3, <2>4, StepCases DEF PurgeComplete
<1>3. QED
  BY <1>1, <1>2, IInvHolds, PTL DEF Spec

\* However long a thread waited for the lock with the now it read before, a
\* cleanup comes at least CleanupInterval after the last one.
THEOREM CleanupsAreSpaced == Spec => CleanupsSpaced
<1>1. IInv /\ [Next]_vars
        => [lastCleanup' # lastCleanup /\ restarts' = restarts
              => lastCleanup' >= lastCleanup + CleanupInterval]_vars
  <2> SUFFICES ASSUME IInv, [Next]_vars, lastCleanup' # lastCleanup, restarts' = restarts
               PROVE  lastCleanup' >= lastCleanup + CleanupInterval
    OBVIOUS
  <2> USE ConstantFacts
  <2>1. ASSUME NEW t \in Threads, Purge(t)
        PROVE  lastCleanup' >= lastCleanup + CleanupInterval
    BY <2>1 DEF Purge, StillDue, CleanupDue, Cleaned, cache, IInv, TypeOK
  <2>2. ASSUME NEW t \in Threads, Store(t) PROVE FALSE
    BY <2>2 DEF Store
  <2>3. CASE Restart
    BY <2>3 DEF Restart, IInv, TypeOK
  <2>4. CASE Tick
    BY <2>4 DEF Tick, cache
  <2>5. QED
    BY <2>1, <2>2, <2>3, <2>4, StepCases
<1>2. QED
  BY <1>1, IInvHolds, PTL DEF Spec, CleanupsSpaced

\* The cache keeps the promise of AcceptOnce, with exp for its horizon: however
\* the threads interleave, an identifier is accepted again only after the exp of
\* the assertion it was last accepted with, or by a new process.
THEOREM MemoryImplementsAcceptOnce == Spec => ImplementsAcceptOnce
<1>1. Init => Once!Init
  BY DEF Init, Once!Init, Empty
<1>2. IInv /\ [Next]_vars => [Once!Next]_(Once!vars)
  <2> SUFFICES ASSUME IInv, [Next]_vars PROVE [Once!Next]_(Once!vars)
    OBVIOUS
  <2> USE ConstantFacts
  <2>1. ASSUME NEW t \in Threads, Store(t) PROVE Once!Next
    <3> DEFINE j == assertion[t].jti
    <3>1. j \in Jtis /\ assertion[t].exp \in Int
      BY <2>1 DEF IInv, CacheInv, InFlight, Store, Assertion
    <3>2. used[j] = Absent
      BY <2>1 DEF IInv, CacheInv, FoundFresh, Store
    <3>3. Once!Acceptable(j)
      BY <3>1, <3>2 DEF IInv, CacheInv, ProtectedIsCached, TypeOK, Once!Acceptable
    <3>4. protectedUntil' = [protectedUntil EXCEPT ![j] = assertion[t].exp]
      BY <2>1 DEF Store
    <3>5. protectedUntil'[j] = assertion[t].exp
      BY <3>1, <3>4 DEF IInv, TypeOK
    <3>6. Once!Accept(j)
      BY <2>1, <3>1, <3>3, <3>4, <3>5 DEF Once!Accept, Store
    <3>7. QED
      BY <3>1, <3>6 DEF Once!Next
  <2>2. ASSUME NEW t \in Threads, Purge(t) PROVE UNCHANGED Once!vars
    BY <2>2 DEF Purge, Once!vars, history
  <2>3. CASE Restart
    BY <2>3 DEF Restart, Once!Next, Once!Forget, Empty
  <2>4. CASE Tick
    BY <2>4 DEF Tick, Once!Next, Once!Tick, history
  <2>5. QED
    BY <2>1, <2>2, <2>3, <2>4, StepCases DEF Once!vars
<1>3. QED
  BY <1>1, <1>2, IInvHolds, PTL DEF Spec, ImplementsAcceptOnce, Once!Spec

-----------------------------------------------------------------------------
NoText == \A j \in Jtis : used[j] # Text

\* Where no client writes its exp as a string, a call that has passed jwt.decode is
\* refused only for an identifier that is in the dictionary.
THEOREM RefusalsNeedReuse ==
        ASSUME \A a \in Assertions : ~a.text
        PROVE  Spec => RefusedOnlyIfSeen
<1> USE ConstantFacts
<1>1. Init => NoText
  BY DEF Init, NoText, Empty
<1>2. IInv /\ NoText /\ [Next]_vars => NoText'
  <2> SUFFICES ASSUME IInv, NoText, [Next]_vars PROVE NoText'
    OBVIOUS
  <2>1. ASSUME NEW t \in Threads, Store(t) PROVE NoText'
    <3>1. ~assertion[t].text /\ assertion[t].exp \in Int
      BY <2>1 DEF Store, IInv, CacheInv, InFlight, Assertion
    <3>2. QED
      BY <2>1, <3>1 DEF Store, Raw, NoText, IInv, TypeOK
  <2>2. ASSUME NEW t \in Threads, Purge(t) PROVE NoText'
    BY <2>2 DEF Purge, NoText, cache
  <2>3. CASE Restart
    BY <2>3 DEF Restart, NoText, Empty
  <2>4. CASE Tick
    BY <2>4 DEF Tick, NoText, cache
  <2>5. QED
    BY <2>1, <2>2, <2>3, <2>4, StepCases DEF NoText
<1>3. IInv /\ NoText /\ [Next]_vars
        => [\A t \in Threads : pc[t] \in {"check", "cleanup", "record"} \cup Locked /\ pc'[t] = "idle"
              /\ restarts' = restarts => used'[assertion[t].jti] # Absent]_vars
  <2> SUFFICES ASSUME IInv, NoText, [Next]_vars, NEW t \in Threads,
                      pc[t] \in {"check", "cleanup", "record"} \cup Locked, pc'[t] = "idle",
                      restarts' = restarts
               PROVE  used'[assertion[t].jti] # Absent
    OBVIOUS
  <2>0. TypeOK
    BY DEF IInv
  <2>1. assertion[t].jti \in Jtis /\ assertion[t].exp \in Int
    BY DEF IInv, CacheInv, InFlight, Assertion, Locked
  <2>2. CASE Replayed(t)
    BY <2>2 DEF Replayed, cache
  <2>3. CASE Store(t)
    BY <2>0, <2>1, <2>3 DEF Store, Raw, TypeOK
  <2>4. CASE PurgeRaises(t)
    BY <2>4 DEF PurgeRaises, Incomparable, NoText
  <2>5. ASSUME NEW d \in Threads, Step(d), d # t PROVE FALSE
    BY <2>0, <2>5 DEF Step, Decode, Reject, CheckCleanup, LockForCleanup, Purge, PurgeRaises, LockForRecord,
       Replayed, Fresh, Store, Return, GoTo, TypeOK, Locked
  <2>6. CASE Step(t)
    BY <2>0, <2>2, <2>3, <2>4, <2>6 DEF Step, Decode, Reject, CheckCleanup, LockForCleanup, Purge,
       LockForRecord, Fresh, GoTo, TypeOK, Locked
  <2>7. ASSUME NEW d \in Threads, NEW a \in Assertions, Authenticate(d, a) PROVE FALSE
    BY <2>0, <2>7 DEF Authenticate, GoTo, TypeOK, Locked
  <2>8. CASE Restart
    BY <2>0, <2>8 DEF Restart, TypeOK
  <2>9. CASE Tick \/ UNCHANGED vars
    BY <2>9 DEF Tick, vars, Locked
  <2>10. QED
    BY <2>5, <2>6, <2>7, <2>8, <2>9 DEF Next
<1>4. QED
  BY <1>1, <1>2, <1>3, IInvHolds, PTL DEF Spec, RefusedOnlyIfSeen
=============================================================================
