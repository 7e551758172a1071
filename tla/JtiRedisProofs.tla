--------------------------- MODULE JtiRedisProofs ---------------------------
(***************************************************************************)
(* Proofs about the Redis replay cache, for any calls, drifts of their     *)
(* hosts' clocks, assertions and durations.                                *)
(***************************************************************************)
EXTENDS JtiRedis, TLAPS

IInv == TypeOK /\ KeyInv

LEMMA ConstantFacts ==
        /\ Drift \in [Calls -> Int] /\ Absent \notin Int
        /\ Assertions \subseteq Assertion /\ NoAssertion \notin Assertions
        /\ Skew \in Nat
  BY DriftAssumption, AssertionsAssumption, JtiAbsentAssumption, DurationsAssumption

LEMMA HorizonType ==
        ASSUME NEW a \in Assertions, NEW c \in Calls
        PROVE  /\ a.jti \in Jtis /\ a.exp \in Int /\ Drift[c] \in Int
               /\ Horizon(a, c) \in Int
  BY ConstantFacts DEF Assertion, Horizon

\* The TTL is a natural number, and a key written at the time it was computed at
\* would last until the horizon.
LEMMA TtlReachesHorizon ==
        ASSUME NEW a \in Assertions, NEW c \in Calls, clock \in Nat
        PROVE  Ttl(c, a.exp) \in Nat /\ clock + Ttl(c, a.exp) >= Horizon(a, c)
  BY ConstantFacts, HorizonType DEF Ttl, Time, Horizon

LEMMA InitIInv == Init => IInv
  BY ConstantFacts DEF Init, IInv, TypeOK, KeyInv, PendingCovers, KeyCovers, LastCovers

-----------------------------------------------------------------------------
LEMMA TypeOKStep == IInv /\ [Next]_vars => TypeOK'
<1> SUFFICES ASSUME IInv, [Next]_vars PROVE TypeOK'
  OBVIOUS
<1> USE ConstantFacts DEF IInv, TypeOK
<1>1. ASSUME NEW c \in Calls, NEW a \in Assertions, Authenticate(c, a) PROVE TypeOK'
  BY <1>1 DEF Authenticate, GoTo, Time, history
<1>2. ASSUME NEW c \in Calls, Decode(c) PROVE TypeOK'
  BY <1>2 DEF Decode, GoTo, history
<1>3. ASSUME NEW c \in Calls, Prepare(c) PROVE TypeOK'
  <2>1. Ttl(c, assertion[c].exp) \in Nat
    BY <1>3, TtlReachesHorizon DEF Prepare
  <2>2. QED
    BY <1>3, <2>1 DEF Prepare, GoTo, history
<1>4. ASSUME NEW c \in Calls, SetNx(c) PROVE TypeOK'
  <2>1. assertion[c] \in Assertions
    BY <1>4 DEF SetNx
  <2>2. assertion[c].jti \in Jtis /\ Horizon(assertion[c], c) \in Int
    BY <2>1, HorizonType
  <2>3. QED
    BY <1>4, <2>1, <2>2 DEF SetNx, SetKey, Return, GoTo
<1>5. ASSUME NEW c \in Calls, SetUnheard(c) PROVE TypeOK'
  <2>1. assertion[c].jti \in Jtis
    BY <1>5, HorizonType DEF SetUnheard
  <2>2. QED
    BY <1>5, <2>1 DEF SetUnheard, SetKey, Return, GoTo, history
<1>6. ASSUME NEW c \in Calls, GiveUp(c) PROVE TypeOK'
  BY <1>6 DEF GiveUp, Return, GoTo, history
<1>7. CASE Tick
  BY <1>7 DEF Tick, history
<1>8. CASE UNCHANGED vars
  BY <1>8 DEF vars, history
<1>9. QED
  BY <1>1, <1>2, <1>3, <1>4, <1>5, <1>6, <1>7, <1>8 DEF Next

\* The TTL was computed before the SET executes: time that passes in between
\* only moves the expiry of the key further out.
LEMMA PendingCoversStep == IInv /\ [Next]_vars => PendingCovers'
<1> SUFFICES ASSUME IInv, [Next]_vars PROVE PendingCovers'
  OBVIOUS
<1> USE ConstantFacts DEF IInv, TypeOK, KeyInv, PendingCovers
<1>1. ASSUME NEW c \in Calls, NEW a \in Assertions, Authenticate(c, a) PROVE PendingCovers'
  BY <1>1 DEF Authenticate, GoTo, Horizon
<1>2. ASSUME NEW c \in Calls, Decode(c) PROVE PendingCovers'
  BY <1>2 DEF Decode, GoTo, Horizon
<1>3. ASSUME NEW c \in Calls, Prepare(c) PROVE PendingCovers'
  <2>1. clock + Ttl(c, assertion[c].exp) >= Horizon(assertion[c], c)
    BY <1>3, TtlReachesHorizon DEF Prepare
  <2>2. QED
    BY <1>3, <2>1 DEF Prepare, GoTo, Horizon
<1>4. ASSUME NEW c \in Calls, SetNx(c) \/ SetUnheard(c) \/ GiveUp(c) PROVE PendingCovers'
  BY <1>4 DEF SetNx, SetUnheard, GiveUp, Return, GoTo, Horizon
<1>5. CASE Tick
  <2> SUFFICES ASSUME NEW c \in Calls, pc[c] = "set"
               PROVE  clock' + ttl[c] >= Horizon(assertion[c], c)
    BY <1>5 DEF Tick, Horizon
  <2>1. Horizon(assertion[c], c) \in Int
    BY HorizonType
  <2>2. QED
    BY <1>5, <2>1 DEF Tick
<1>6. CASE UNCHANGED vars
  BY <1>6 DEF vars, Horizon
<1>7. QED
  BY <1>1, <1>2, <1>3, <1>4, <1>5, <1>6 DEF Next

\* What a SET that was executed does to the keys.
LEMMA SetKeyEffect ==
        ASSUME IInv, NEW c \in Calls, pc[c] = "set", SetKey(c)
        PROVE  /\ assertion[c] \in Assertions /\ assertion[c].jti \in Jtis
               /\ expireAt' = [expireAt EXCEPT ![assertion[c].jti] = clock + ttl[c]]
               /\ expireAt'[assertion[c].jti] \in Int
               /\ expireAt'[assertion[c].jti] >= clock
               /\ expireAt'[assertion[c].jti] >= Horizon(assertion[c], c)
               /\ expireAt[assertion[c].jti] # Absent => expireAt[assertion[c].jti] < clock
  BY HorizonType DEF IInv, TypeOK, KeyInv, PendingCovers, SetKey, Present

LEMMA KeyCoversStep == IInv /\ [Next]_vars => KeyCovers'
<1> SUFFICES ASSUME IInv, [Next]_vars, NEW h \in accepted', clock' <= Horizon(h[1], h[2])
             PROVE  expireAt'[h[1].jti] # Absent /\ expireAt'[h[1].jti] >= Horizon(h[1], h[2])
  BY DEF KeyCovers, Horizon
<1> DEFINE a == h[1]
           g == h[2]
<1> USE ConstantFacts
<1>1. TypeOK'
  BY TypeOKStep
<1>2. a \in Assertions /\ g \in Calls
  BY <1>1 DEF TypeOK
<1>3. a.jti \in Jtis /\ Horizon(a, g) \in Int
  BY <1>2, HorizonType
<1>4. ASSUME h \in accepted, clock <= Horizon(a, g)
      PROVE  expireAt[a.jti] # Absent /\ expireAt[a.jti] >= Horizon(a, g)
  BY <1>4 DEF IInv, KeyInv, KeyCovers
<1>5. ASSUME NEW c \in Calls, pc[c] = "set", SetKey(c), clock' = clock,
             h \in accepted \/ h = <<assertion[c], c>>
      PROVE  expireAt'[a.jti] # Absent /\ expireAt'[a.jti] >= Horizon(a, g)
  <2>1. CASE h \in accepted
    BY <1>3, <1>4, <1>5, <2>1, SetKeyEffect DEF IInv, TypeOK
  <2>2. CASE h = <<assertion[c], c>>
    BY <1>3, <1>5, <2>2, SetKeyEffect
  <2>3. QED
    BY <1>5, <2>1, <2>2
<1>6. ASSUME NEW c \in Calls, SetNx(c) \/ SetUnheard(c)
      PROVE  expireAt'[a.jti] # Absent /\ expireAt'[a.jti] >= Horizon(a, g)
  BY <1>5, <1>6 DEF SetNx, SetUnheard, history
<1>7. ASSUME UNCHANGED <<expireAt, accepted>>, clock' = clock \/ Tick
      PROVE  expireAt'[a.jti] # Absent /\ expireAt'[a.jti] >= Horizon(a, g)
  BY <1>3, <1>4, <1>7 DEF Tick, IInv, TypeOK
<1>8. QED
  BY <1>6, <1>7 DEF Next, Authenticate, Decode, Prepare, GiveUp, Tick, vars, history

LEMMA LastCoversStep == IInv /\ [Next]_vars => LastCovers'
<1> SUFFICES ASSUME IInv, [Next]_vars, NEW j \in Jtis, protectedUntil'[j] # Absent
             PROVE  expireAt'[j] # Absent /\ expireAt'[j] >= protectedUntil'[j]
  BY DEF LastCovers
<1> USE ConstantFacts
<1>1. ASSUME NEW c \in Calls, SetNx(c)
      PROVE  expireAt'[j] # Absent /\ expireAt'[j] >= protectedUntil'[j]
  <2>1. CASE j = assertion[c].jti
    BY <1>1, <2>1, SetKeyEffect DEF SetNx, IInv, TypeOK
  <2>2. CASE j # assertion[c].jti
    BY <1>1, <2>2, SetKeyEffect DEF SetNx, IInv, TypeOK, KeyInv, LastCovers
  <2>3. QED
    BY <2>1, <2>2
<1>2. ASSUME NEW c \in Calls, SetUnheard(c)
      PROVE  expireAt'[j] # Absent /\ expireAt'[j] >= protectedUntil'[j]
  <2>1. CASE j = assertion[c].jti
    BY <1>2, <2>1, SetKeyEffect DEF SetUnheard, history, IInv, TypeOK, KeyInv, LastCovers
  <2>2. CASE j # assertion[c].jti
    BY <1>2, <2>2, SetKeyEffect DEF SetUnheard, history, IInv, TypeOK, KeyInv, LastCovers
  <2>3. QED
    BY <2>1, <2>2
<1>3. ASSUME UNCHANGED <<expireAt, protectedUntil>>
      PROVE  expireAt'[j] # Absent /\ expireAt'[j] >= protectedUntil'[j]
  BY <1>3 DEF IInv, KeyInv, LastCovers
<1>4. QED
  BY <1>1, <1>2, <1>3 DEF Next, Authenticate, Decode, Prepare, GiveUp, Tick, vars, history

LEMMA IInvHolds == Spec => []IInv
<1>1. IInv /\ [Next]_vars => IInv'
  BY TypeOKStep, PendingCoversStep, KeyCoversStep, LastCoversStep DEF IInv, KeyInv
<1>2. QED
  BY <1>1, InitIInv, PTL DEF Spec

-----------------------------------------------------------------------------
\* Every variable keeps its type; the PX sent to Redis is never negative.
THEOREM TypeCorrect == Spec => []TypeOK
  BY IInvHolds, PTL DEF IInv

\* The key of an accepted assertion is in Redis until the horizon has passed.
THEOREM KeysCover == Spec => []KeyInv
  BY IInvHolds, PTL DEF IInv

\* Whenever jwt.decode would let an accepted assertion pass again on a host whose
\* clock is not behind the first one's, its key is there to betray the replay.
THEOREM ReplaysAreBetrayed == Spec => []ReplayIsBetrayed
<1>1. IInv => ReplayIsBetrayed
  <2> SUFFICES ASSUME IInv, NEW h \in accepted, NEW c \in Calls,
                      Drift[c] >= Drift[h[2]], Decodable(c, h[1])
               PROVE  Present(h[1].jti)
    BY DEF ReplayIsBetrayed
  <2>1. h[1] \in Assertions /\ h[2] \in Calls
    BY DEF IInv, TypeOK
  <2>2. clock <= Horizon(h[1], h[2])
    BY <2>1, ConstantFacts, HorizonType DEF Decodable, Time, Horizon, IInv, TypeOK
  <2>3. expireAt[h[1].jti] # Absent /\ expireAt[h[1].jti] >= Horizon(h[1], h[2])
    BY <2>2 DEF IInv, KeyInv, KeyCovers
  <2>4. QED
    BY <2>1, <2>2, <2>3, HorizonType DEF Present, IInv, TypeOK
<1>2. QED
  BY <1>1, IInvHolds, PTL

\* Across processes, crashes and lost replies the cache keeps the promise of
\* AcceptOnce, and it outlives every process: the horizon is the moment the
\* accepting host's clock shows exp + Skew.
THEOREM RedisImplementsAcceptOnce == Spec => ImplementsAcceptOnce
<1>1. Init => Once!Init
  BY DEF Init, Once!Init
<1>2. IInv /\ [Next]_vars => [Once!Next]_(Once!vars)
  <2> SUFFICES ASSUME IInv, [Next]_vars PROVE [Once!Next]_(Once!vars)
    OBVIOUS
  <2> USE ConstantFacts
  <2>1. ASSUME NEW c \in Calls, SetNx(c) PROVE Once!Next
    <3> DEFINE j == assertion[c].jti
               horizon == Horizon(assertion[c], c)
    <3>1. j \in Jtis /\ horizon \in Int
      BY <2>1, HorizonType DEF IInv, TypeOK, SetNx
    <3>2. ~Present(j)
      BY <2>1 DEF SetNx, SetKey
    <3>3. Once!Acceptable(j)
      BY <3>1, <3>2 DEF IInv, TypeOK, KeyInv, LastCovers, Present, Once!Acceptable
    <3>4. protectedUntil' = [protectedUntil EXCEPT ![j] = horizon]
      BY <2>1 DEF SetNx
    <3>5. protectedUntil'[j] = horizon
      BY <3>1, <3>4 DEF IInv, TypeOK
    <3>6. Once!Accept(j)
      BY <2>1, <3>1, <3>3, <3>4, <3>5 DEF Once!Accept, SetNx
    <3>7. QED
      BY <3>1, <3>6 DEF Once!Next
  <2>2. CASE Tick
    BY <2>2 DEF Tick, Once!Next, Once!Tick, history
  <2>3. QED
    BY <2>1, <2>2 DEF Next, Authenticate, Decode, Prepare, SetUnheard, GiveUp, vars, history,
       Once!vars
<1>3. QED
  BY <1>1, <1>2, IInvHolds, PTL DEF Spec, ImplementsAcceptOnce, Once!Spec
=============================================================================
