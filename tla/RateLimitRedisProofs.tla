------------------------ MODULE RateLimitRedisProofs ------------------------
(***************************************************************************)
(* Proofs about the sliding-window limiter over Redis, for any finite set  *)
(* of concurrent calls and any limit and window.                           *)
(***************************************************************************)
EXTENDS RateLimitRedis, FiniteSetTheorems, TLAPS

Holding == {"add", "expire"}

\* Calls between their check and their answer hold different members, and one
\* that is not in the set yet was never used.
MemberInv ==
    /\ \A c \in Callers : pc[c] \in Holding => member[c] \in Members
    /\ \A c \in Callers : pc[c] = "add" => member[c] \notin zset \cup settled \cup admitted
    /\ \A c, d \in Callers : pc[c] \in Holding /\ pc[d] \in Holding /\ c # d
                               => member[c] # member[d]

\* A live member whose EXPIRE found it is in the set, under a TTL that outlasts
\* its window.
SettledInv == \A m \in settled : Live(m) =>
    m \in zset /\ expireAt # Absent /\ expireAt >= score[m] + Window

IInv == TypeOK /\ MemberInv /\ IsFiniteSet(zset) /\ SetBound /\ SettledInv

LEMMA ConstantFacts ==
        /\ Limit \in Nat \ {0} /\ Second \in Nat \ {0} /\ Window \in Nat
        /\ IsFiniteSet(Callers) /\ NoMember \notin Members /\ Absent \notin Int
  BY LimiterAssumption

LEMMA InitIInv == Init => IInv
<1> SUFFICES ASSUME Init PROVE IInv
  OBVIOUS
<1> USE ConstantFacts DEF Init
<1>1. TypeOK
  <2>1. 0 \in 0..clock /\ clock \in Nat
    OBVIOUS
  <2>2. overfull \in BOOLEAN /\ prompt \in BOOLEAN
    OBVIOUS
  <2>3. QED
    BY <2>1, <2>2 DEF TypeOK, Labels
<1>2. MemberInv /\ SettledInv
  BY DEF MemberInv, Holding, SettledInv
<1>3. IsFiniteSet(zset) /\ SetBound
  <2>1. Adding = {}
    BY DEF Adding
  <2>2. QED
    BY <2>1, FS_EmptySet, FS_CardinalityType DEF SetBound
<1>4. QED
  BY <1>1, <1>2, <1>3 DEF IInv

-----------------------------------------------------------------------------
LEMMA SecondsType == ASSUME NEW ticks \in Int PROVE Seconds(ticks) \in Int
  BY ConstantFacts DEF Seconds

\* Once lost, promptness stays lost.
LEMMA PromptStep == TypeOK /\ [Next]_vars => prompt' \in BOOLEAN /\ (prompt' => prompt)
<1> SUFFICES ASSUME prompt \in BOOLEAN, [Next]_vars
             PROVE  prompt' \in BOOLEAN /\ (prompt' => prompt)
  BY DEF TypeOK
<1>1. CASE prompt' = prompt
  BY <1>1, Zenon
<1>2. ASSUME NEW c \in Callers, Add(c) \/ Abort(c)
      PROVE  prompt' \in BOOLEAN /\ (prompt' => prompt)
  BY <1>2, Zenon DEF Add, Abort
<1>3. CASE Tick
  BY <1>3, Zenon DEF Tick
<1>4. QED
  BY <1>1, <1>2, <1>3 DEF Next, IsAllowed, GetRetryAfter, Start, Trim, RetryTrim, TrimAs, Deny, Pass,
     Expire, RetryNone, RetryAfter, Answer, vars, redis, history, outcome

LEMMA TypeOKStep == IInv /\ [Next]_vars => TypeOK'
<1> SUFFICES ASSUME IInv, [Next]_vars PROVE TypeOK'
  OBVIOUS
<1>0. prompt' \in BOOLEAN
  BY PromptStep DEF IInv
<1> USE <1>0, ConstantFacts DEF IInv, TypeOK, Labels
<1>1. ASSUME NEW c \in Callers, IsAllowed(c) \/ GetRetryAfter(c) PROVE TypeOK'
  BY <1>1 DEF IsAllowed, GetRetryAfter, Start, Time, GoTo, redis, history, outcome
<1>2. ASSUME NEW c \in Callers, Trim(c) \/ RetryTrim(c) PROVE TypeOK'
  BY <1>2 DEF Trim, RetryTrim, TrimAs, Trimmed, Keep, GoTo, history, outcome
<1>3. ASSUME NEW c \in Callers, Deny(c) \/ Abort(c) PROVE TypeOK'
  BY <1>3 DEF Deny, Abort, Return, GoTo, redis, history, outcome
<1>4. ASSUME NEW c \in Callers, NEW m \in Members, Pass(c, m) PROVE TypeOK'
  BY <1>4 DEF Pass, GoTo, redis, history, outcome
<1>5. ASSUME NEW c \in Callers, Add(c) PROVE TypeOK'
  <2>1. addedAt' \in [Members -> (0..clock) \cup {Absent}] /\ clock' = clock
    <3>1. /\ clock' = clock /\ addedAt' = [addedAt EXCEPT ![member[c]] = clock]
          /\ clock \in (0..clock) \cup {Absent}
      BY <1>5 DEF Add
    <3>2. addedAt \in [Members -> (0..clock) \cup {Absent}]
      OBVIOUS
    <3> HIDE DEF IInv, TypeOK
    <3>3. QED
      BY <3>1, <3>2, Zenon
  <2>2. zset' \subseteq Members /\ score' \in [Members -> 0..clock] /\ pc' \in [Callers -> Labels]
    BY <1>5 DEF Add, GoTo, MemberInv, Holding
  <2>3. QED
    BY <1>5, <2>1, <2>2 DEF Add
<1>6. ASSUME NEW c \in Callers, Expire(c) PROVE TypeOK'
  BY <1>6 DEF Expire, Ttl, Return, GoTo, MemberInv, Holding
<1>7. ASSUME NEW c \in Callers, NEW r \in Int, Answer(c, r) PROVE TypeOK'
  <2>1. clock + r * Second \in Int
    OBVIOUS
  <2>2. QED
    BY <1>7, <2>1 DEF Answer, Return, GoTo, redis
<1>8. ASSUME NEW c \in Callers, RetryNone(c) PROVE TypeOK'
  BY <1>7, <1>8 DEF RetryNone
<1>9. ASSUME NEW c \in Callers, NEW m \in Members, RetryAfter(c, m) PROVE TypeOK'
  <2>1. Window - (now[c] - score[m]) \in Int
    OBVIOUS
  <2>2. QED
    BY <1>7, <1>9, <2>1, SecondsType DEF RetryAfter
<1>10. CASE Tick
  BY <1>10 DEF Tick, Keep, history, outcome
<1>11. CASE UNCHANGED vars
  BY <1>11 DEF vars, redis, history, outcome
<1>12. QED
  BY <1>1, <1>2, <1>3, <1>4, <1>5, <1>6, <1>8, <1>9, <1>10, <1>11 DEF Next

LEMMA MemberInvStep == IInv /\ [Next]_vars => MemberInv'
<1> SUFFICES ASSUME IInv, [Next]_vars PROVE MemberInv'
  OBVIOUS
<1> USE DEF IInv, TypeOK, Labels, MemberInv, Holding
<1>1. ASSUME NEW c \in Callers, IsAllowed(c) \/ GetRetryAfter(c) PROVE MemberInv'
  BY <1>1 DEF IsAllowed, GetRetryAfter, Start, Time, GoTo, redis, history, outcome
<1>2. ASSUME NEW c \in Callers, Trim(c) \/ RetryTrim(c) PROVE MemberInv'
  BY <1>2 DEF Trim, RetryTrim, TrimAs, Trimmed, Keep, GoTo, history, outcome
<1>3. ASSUME NEW c \in Callers, Deny(c) \/ Abort(c) PROVE MemberInv'
  BY <1>3 DEF Deny, Abort, Return, GoTo, redis, history, outcome
<1>4. ASSUME NEW c \in Callers, NEW m \in Members, Pass(c, m) PROVE MemberInv'
  BY <1>4 DEF Pass, Fresh, GoTo, redis, history, outcome
<1>5. ASSUME NEW c \in Callers, Add(c) PROVE MemberInv'
  BY <1>5 DEF Add, GoTo
<1>6. ASSUME NEW c \in Callers, Expire(c) PROVE MemberInv'
  BY <1>6 DEF Expire, Return, GoTo
<1>7. ASSUME NEW c \in Callers, NEW r, Answer(c, r) PROVE MemberInv'
  BY <1>7 DEF Answer, Return, GoTo, redis
<1>8. CASE Tick
  BY <1>8 DEF Tick, Keep, history, outcome
<1>9. CASE UNCHANGED vars
  BY <1>9 DEF vars, redis, history, outcome
<1>10. QED
  BY <1>1, <1>2, <1>3, <1>4, <1>5, <1>6, <1>7, <1>8, <1>9 DEF Next, RetryNone, RetryAfter

LEMMA FiniteStep == IInv /\ [Next]_vars => IsFiniteSet(zset)'
<1> SUFFICES ASSUME IInv, [Next]_vars PROVE IsFiniteSet(zset')
  OBVIOUS
<1>1. IsFiniteSet(zset) /\ IsFiniteSet({})
  BY FS_EmptySet DEF IInv
<1>2. \A T \in SUBSET zset : IsFiniteSet(T)
  BY <1>1, FS_Subset
<1>3. \A x : IsFiniteSet(zset \cup {x})
  BY <1>1, FS_AddElement
<1>4. zset' \subseteq zset \/ \E x : zset' = zset \cup {x}
  BY DEF Next, IsAllowed, GetRetryAfter, Start, Time, Trim, RetryTrim, TrimAs, Trimmed, Keep, Deny, Abort,
     Pass, Add, Expire, RetryNone, RetryAfter, Answer, Tick, Keep, vars, redis, history, outcome
<1>5. QED
  BY <1>1, <1>2, <1>3, <1>4

\* Calls that are past the check count before their member does; a call passes
\* only below the limit.
LEMMA SetBoundStep == IInv /\ [Next]_vars => SetBound'
<1> SUFFICES ASSUME IInv, [Next]_vars PROVE SetBound'
  OBVIOUS
<1> DEFINE n == Cardinality(zset)
           k == Cardinality(Adding)
           all == Cardinality(Callers)
<1>1. IsFiniteSet(zset) /\ IsFiniteSet(Callers) /\ Adding \subseteq Callers
  BY ConstantFacts DEF IInv, Adding
<1>2. IsFiniteSet(Adding) /\ n \in Nat /\ k \in Nat /\ all \in Nat
  BY <1>1, FS_Subset, FS_CardinalityType
<1>3. n + k <= Limit - 1 + all /\ Limit \in Nat \ {0}
  BY ConstantFacts DEF IInv, SetBound
<1>4. ASSUME zset' \subseteq zset, Adding' \subseteq Adding PROVE SetBound'
  <2>1. /\ IsFiniteSet(zset') /\ Cardinality(zset') <= n
        /\ IsFiniteSet(Adding') /\ Cardinality(Adding') <= k
    BY <1>1, <1>2, <1>4, FS_Subset
  <2>2. Cardinality(zset') \in Nat /\ Cardinality(Adding') \in Nat
    BY <2>1, FS_CardinalityType
  <2>3. QED
    BY <1>2, <1>3, <2>1, <2>2 DEF SetBound
<1>5. ASSUME NEW c \in Callers, NEW m \in Members, Pass(c, m) PROVE SetBound'
  <2>1. n < Limit /\ zset' = zset
    BY <1>2, <1>3, <1>5 DEF Pass, Full, redis
  <2>2. Adding' \subseteq Callers
    BY DEF Adding
  <2>3. Cardinality(Adding') \in Nat /\ Cardinality(Adding') <= all
    BY <1>1, <2>2, FS_Subset, FS_CardinalityType
  <2>4. QED
    BY <1>2, <1>3, <2>1, <2>3 DEF SetBound
<1>6. ASSUME NEW c \in Callers, Add(c) PROVE SetBound'
  <2>1. zset' = zset \cup {member[c]} /\ c \in Adding /\ Adding' = Adding \ {c}
    BY <1>6 DEF Add, GoTo, Adding, IInv, TypeOK
  <2>2. Cardinality(zset') <= n + 1 /\ Cardinality(zset') \in Nat
    <3>1. /\ IsFiniteSet(zset')
          /\ Cardinality(zset') = IF member[c] \in zset THEN n ELSE n + 1
      BY <1>1, <2>1, FS_AddElement
    <3>2. QED
      BY <1>2, <3>1
  <2>3. Cardinality(Adding') = k - 1
    BY <1>2, <2>1, FS_RemoveElement
  <2>4. QED
    BY <1>2, <1>3, <2>2, <2>3 DEF SetBound
<1>7. ASSUME NEW c \in Callers,
             \/ IsAllowed(c) \/ GetRetryAfter(c) \/ Trim(c) \/ RetryTrim(c) \/ Deny(c)
             \/ Abort(c) \/ Expire(c) \/ RetryNone(c) \/ \E m \in Members : RetryAfter(c, m)
      PROVE  zset' \subseteq zset /\ Adding' \subseteq Adding
  BY <1>7 DEF IsAllowed, GetRetryAfter, Start, Time, Trim, RetryTrim, TrimAs, Trimmed, Keep, Deny, Abort,
     Expire, RetryNone, RetryAfter, Answer, Return, GoTo, redis, history, outcome, Adding, IInv, TypeOK
<1>8. CASE Tick \/ UNCHANGED vars
  BY <1>4, <1>8 DEF Tick, Keep, vars, redis, history, outcome, Adding
<1>9. QED
  BY <1>4, <1>5, <1>6, <1>7, <1>8 DEF Next

\* A settled member that is still live was live when the step began.
LEMMA SettledInvStep == IInv /\ [Next]_vars => SettledInv'
<1> SUFFICES ASSUME IInv, [Next]_vars, NEW m \in settled', Live(m)'
             PROVE  m \in zset' /\ expireAt' # Absent /\ expireAt' >= score'[m] + Window
  BY DEF SettledInv
<1> DEFINE Goal == m \in zset' /\ expireAt' # Absent /\ expireAt' >= score'[m] + Window
<1> USE ConstantFacts DEF Live
<1>0. TypeOK /\ TypeOK'
  BY TypeOKStep DEF IInv
<1>1. m \in Members
  BY <1>0 DEF TypeOK
<1>2. ASSUME m \in settled, Live(m)
      PROVE  m \in zset /\ expireAt # Absent /\ expireAt >= score[m] + Window
  BY <1>2 DEF IInv, SettledInv
<1>3. ASSUME NEW c \in Callers, Trim(c) \/ RetryTrim(c) PROVE Goal
  <2>1. m \in settled /\ UNCHANGED <<clock, score>> /\ zset' = Trimmed(now[c])
    BY <1>3 DEF Trim, RetryTrim, TrimAs, Keep, history, outcome
  <2>2. m \in zset'
    BY <1>0, <1>1, <1>2, <2>1 DEF Trimmed, TypeOK
  <2>3. expireAt' = expireAt
    BY <1>3, <2>1, <2>2 DEF Trim, RetryTrim, TrimAs
  <2>4. QED
    BY <1>2, <2>1, <2>2, <2>3
<1>4. ASSUME NEW c \in Callers, Add(c) PROVE Goal
  <2>1. m \in settled /\ clock' = clock /\ expireAt' = expireAt /\ zset \subseteq zset'
    BY <1>4 DEF Add
  <2>2. score'[m] = score[m]
    BY <1>0, <1>1, <1>4, <2>1 DEF Add, IInv, MemberInv, TypeOK
  <2>3. QED
    BY <1>2, <2>1, <2>2
<1>5. ASSUME NEW c \in Callers, Expire(c) PROVE Goal
  <2>1. UNCHANGED <<clock, score, zset>>
    BY <1>5 DEF Expire
  <2>2. m \in zset
    BY <1>2, <1>5, <2>1 DEF Expire
  <2>3. expireAt' = clock + Window + Second
    BY <1>0, <1>5, <2>2 DEF Expire, Ttl, TypeOK
  <2>4. QED
    BY <1>0, <1>1, <2>1, <2>2, <2>3 DEF TypeOK
<1>6. CASE Tick
  <2>1. m \in settled /\ score' = score /\ clock' = clock + 1
    BY <1>6 DEF Tick, Keep, history, outcome
  <2>2. Live(m)
    BY <1>0, <1>1, <2>1 DEF TypeOK
  <2>3. ~(expireAt # Absent /\ clock + 1 > expireAt)
    BY <1>0, <1>1, <1>2, <2>1, <2>2 DEF TypeOK
  <2>4. QED
    BY <1>2, <1>6, <2>1, <2>2, <2>3 DEF Tick, Keep
<1>7. ASSUME UNCHANGED <<clock, zset, score, expireAt, settled>> PROVE Goal
  BY <1>2, <1>7
<1>8. QED
  BY <1>3, <1>4, <1>5, <1>6, <1>7 DEF Next, IsAllowed, GetRetryAfter, Start, Time, Deny, Abort, Pass,
     RetryNone, RetryAfter, Answer, vars, redis, history, outcome

LEMMA IInvHolds == Spec => []IInv
<1>1. IInv /\ [Next]_vars => IInv'
  BY TypeOKStep, MemberInvStep, FiniteStep, SetBoundStep, SettledInvStep DEF IInv
<1>2. QED
  BY <1>1, InitIInv, PTL DEF Spec

-----------------------------------------------------------------------------
\* Every variable keeps its type; no score and no now lies in the future.
THEOREM TypeCorrect == Spec => []TypeOK
  BY IInvHolds, PTL DEF IInv

\* The set never outgrows the limit by more than the number of concurrent calls
\* less one, and a member whose EXPIRE found it counts for its whole window.
THEOREM SetIsBounded == Spec => []SetInv
<1>1. IInv => SetInv
  BY DEF IInv, SetInv, SettledInv, CountedForWindow
<1>2. QED
  BY <1>1, IInvHolds, PTL

-----------------------------------------------------------------------------
\* When EXPIRE last found the key, if the key has a TTL.
Renewed == expireAt - Ttl

\* The calls that have added and are about to send EXPIRE.
Pending == {c \in Callers : pc[c] = "expire"}

\* A prompt call sends EXPIRE within a second, and finds its member in the set as
\* long as that counts.
PendingInv == \A c \in Pending :
    /\ score[member[c]] = now[c] /\ clock - now[c] <= Second
    /\ clock - now[c] < Window => member[c] \in zset

\* Who is in the set is settled or about to be.
HeldInv == \A m \in zset : m \in settled \/ \E c \in Pending : member[c] = m

\* What is settled was added before the key was last renewed, and has left the
\* window of a call that starts a window after that.  Such a call is never the
\* first to renew the key: whoever kept the set from being empty started before.
KeyInv == expireAt # Absent =>
    /\ zset # {} /\ Renewed <= clock
    /\ \A m \in zset \cap settled : score[m] <= Renewed
    /\ \A c \in Callers : pc[c] \in {"count", "add"} /\ now[c] >= Renewed + Window
                            => zset \cap settled = {}
    /\ \A c \in Pending : member[c] \in zset /\ now[c] >= Renewed + Window
                            => \E d \in Pending : now[d] < Renewed + Window

\* So whoever is admitted and counts is settled.
AdmittedInv == \A m \in admitted : Live(m) => m \in settled

PromptBody == PendingInv /\ HeldInv /\ KeyInv /\ AdmittedInv

PromptInv == Window > 0 /\ prompt => PromptBody

LEMMA InitPromptInv == Init => PromptInv
  BY DEF Init, PromptInv, PromptBody, Pending, PendingInv, HeldInv, KeyInv, AdmittedInv

\* Steps that leave the set, the key and the calls that have added as they are.
LEMMA FrameKeepsPrompt ==
        ASSUME IInv, PromptBody,
               UNCHANGED <<clock, zset, score, expireAt, admitted, settled>>,
               Pending' = Pending,
               \A c \in Pending : now'[c] = now[c] /\ member'[c] = member[c],
               \A c \in Callers : pc'[c] \in {"count", "add"}
                                    => pc[c] \in {"count", "add"} /\ now'[c] = now[c]
        PROVE  PromptBody'
  BY DEF PromptBody, PendingInv, HeldInv, KeyInv, AdmittedInv, Renewed, Live, Ttl

\* A call drops only what has left its own window, and that no longer counts.
LEMMA TrimKeepsPrompt ==
        ASSUME IInv, PromptBody, Window > 0, NEW c \in Callers, Trim(c) \/ RetryTrim(c)
        PROVE  PromptBody'
<1> USE ConstantFacts
<1>0. TypeOK
  BY DEF IInv
<1>1. /\ UNCHANGED <<clock, score, now, member, admitted, settled>>
      /\ zset' = {m \in zset : score[m] > now[c] - Window}
      /\ expireAt' = IF zset' = {} THEN Absent ELSE expireAt
      /\ pc[c] \in {"trim", "retry_trim"} /\ pc'[c] \in {"count", "retry_read"}
      /\ \A d \in Callers \ {c} : pc'[d] = pc[d]
  BY <1>0 DEF Trim, RetryTrim, TrimAs, Trimmed, Keep, GoTo, history, outcome, TypeOK
<1>2. Pending' = Pending
  BY <1>1 DEF Pending
<1>3. now[c] \in Int /\ now[c] <= clock /\ clock \in Int
  BY <1>0 DEF TypeOK
<1>4. PendingInv'
  <2> SUFFICES ASSUME NEW d \in Pending, clock - now[d] < Window PROVE member[d] \in zset'
    BY <1>1, <1>2 DEF PromptBody, PendingInv
  <2>1. member[d] \in zset /\ score[member[d]] = now[d] /\ now[d] \in Int
    BY <1>0 DEF PromptBody, PendingInv, Pending, TypeOK
  <2>2. QED
    BY <1>1, <1>3, <2>1
<1>5. HeldInv' /\ AdmittedInv'
  BY <1>1, <1>2 DEF PromptBody, HeldInv, AdmittedInv, Live
<1>6. ASSUME expireAt' # Absent PROVE KeyInv'
  <2>1. expireAt' = expireAt /\ zset' # {} /\ zset' \subseteq zset /\ Renewed' = Renewed
    BY <1>1, <1>6 DEF Renewed, Ttl
  <2>2. KeyInv /\ expireAt # Absent
    BY <1>6, <2>1 DEF PromptBody
  <2>3. ASSUME now[c] >= Renewed + Window PROVE zset' \cap settled = {}
    <3> SUFFICES ASSUME NEW m \in zset', m \in settled PROVE FALSE
      OBVIOUS
    <3>1. score[m] <= Renewed /\ score[m] > now[c] - Window
      BY <1>1, <2>1, <2>2 DEF KeyInv
    <3>2. score[m] \in Int /\ Renewed \in Int
      BY <1>0, <2>1, <2>2 DEF TypeOK, Renewed, Ttl
    <3>3. QED
      BY <1>3, <2>3, <3>1, <3>2
  <2>4. QED
    BY <1>1, <1>2, <2>1, <2>2, <2>3 DEF KeyInv
<1>7. QED
  BY <1>4, <1>5, <1>6 DEF PromptBody, KeyInv

\* A call adds under the TTL of others only if one of them keeps the set from
\* being empty.
LEMMA AddKeepsPrompt ==
        ASSUME IInv, PromptBody, Window > 0, NEW c \in Callers, Add(c), prompt'
        PROVE  PromptBody'
<1> USE ConstantFacts
<1>0. TypeOK
  BY DEF IInv
<1>1. /\ UNCHANGED <<clock, expireAt, now, member, admitted, settled>>
      /\ pc[c] = "add" /\ clock - now[c] <= Second
      /\ zset' = zset \cup {member[c]} /\ Pending' = Pending \cup {c}
      /\ \A d \in Callers : pc'[d] \in {"count", "add"} => pc[d] \in {"count", "add"}
  BY <1>0 DEF Add, GoTo, Pending, TypeOK
<1>2. /\ member[c] \in Members /\ member[c] \notin zset \cup settled \cup admitted
      /\ \A d \in Pending : member[d] \in Members /\ member[d] # member[c]
  BY <1>1 DEF IInv, MemberInv, Holding, Pending
<1>3. /\ score'[member[c]] = now[c]
      /\ \A m \in Members \ {member[c]} : score'[m] = score[m]
  BY <1>0, <1>2 DEF Add, TypeOK
<1>4. PendingInv'
  BY <1>1, <1>2, <1>3 DEF PromptBody, PendingInv
<1>5. HeldInv'
  BY <1>1 DEF PromptBody, HeldInv
<1>6. AdmittedInv'
  <2>1. \A m \in admitted : score'[m] = score[m]
    BY <1>0, <1>2, <1>3 DEF TypeOK
  <2>2. QED
    BY <1>1, <2>1 DEF PromptBody, AdmittedInv, Live
<1>7. ASSUME expireAt # Absent PROVE KeyInv'
  <2>1. Renewed' = Renewed /\ Renewed \in Int /\ KeyInv
    BY <1>0, <1>1, <1>7 DEF Renewed, Ttl, TypeOK, PromptBody
  <2>2. zset' # {} /\ Renewed' <= clock'
    BY <1>1, <1>7, <2>1 DEF KeyInv
  <2>3. /\ zset' \cap settled = zset \cap settled
        /\ \A m \in zset \cap settled : score'[m] = score[m]
    BY <1>0, <1>1, <1>2, <1>3 DEF TypeOK
  <2>4. ASSUME now[c] >= Renewed + Window PROVE \E d \in Pending : now[d] < Renewed + Window
    <3>1. zset \cap settled = {} /\ zset # {}
      BY <1>1, <1>7, <2>1, <2>4 DEF KeyInv
    <3>2. PICK d \in Pending : member[d] \in zset
      BY <3>1 DEF PromptBody, HeldInv
    <3>3. now[d] \in Int
      BY <1>0 DEF Pending, TypeOK
    <3>4. QED
      BY <1>7, <2>1, <3>2, <3>3 DEF KeyInv
  <2>5. \A d \in Pending : member[d] \in zset' => member[d] \in zset
    BY <1>1, <1>2
  <2>6. QED
    BY <1>1, <1>7, <2>1, <2>2, <2>3, <2>4, <2>5 DEF KeyInv
<1>8. QED
  BY <1>1, <1>4, <1>5, <1>6, <1>7 DEF PromptBody, KeyInv

\* EXPIRE renews the key for all who are in the set.
LEMMA ExpireKeepsPrompt ==
        ASSUME IInv, PromptBody, Window > 0, NEW c \in Callers, Expire(c)
        PROVE  PromptBody'
<1> USE ConstantFacts
<1>0. TypeOK
  BY DEF IInv
<1>1. /\ UNCHANGED <<clock, zset, score>>
      /\ expireAt' = IF zset = {} THEN expireAt ELSE clock + Ttl
      /\ admitted' = admitted \cup {member[c]}
      /\ settled' = settled \cup ({member[c]} \cap zset)
      /\ c \in Pending /\ Pending' = Pending \ {c}
      /\ \A d \in Callers : d # c => now'[d] = now[d] /\ member'[d] = member[d]
      /\ \A d \in Callers : pc'[d] \in {"count", "add"} => d # c
  BY <1>0 DEF Expire, Return, GoTo, Pending, TypeOK
<1>2. PendingInv' /\ HeldInv'
  BY <1>1 DEF PromptBody, PendingInv, HeldInv, Pending
<1>3. AdmittedInv'
  <2> SUFFICES ASSUME Live(member[c]) PROVE member[c] \in zset
    BY <1>1 DEF PromptBody, AdmittedInv, Live
  <2>1. QED
    BY <1>1 DEF PromptBody, PendingInv, Live
<1>4. ASSUME zset = {} PROVE KeyInv'
  BY <1>1, <1>4 DEF PromptBody, KeyInv
<1>5. ASSUME zset # {} PROVE KeyInv'
  <2>1. Renewed' = clock /\ clock \in Int
    BY <1>0, <1>1, <1>5 DEF Renewed, Ttl, TypeOK
  <2>2. \A m \in Members : score[m] <= clock
    BY <1>0 DEF TypeOK
  <2>3. \A d \in Callers \ {c} : now'[d] \in Int /\ now'[d] <= clock
    BY <1>0, <1>1 DEF TypeOK
  <2>4. \A m \in zset' \cap settled' : score'[m] <= Renewed'
    BY <1>0, <1>1, <2>1, <2>2 DEF TypeOK
  <2>5. \A d \in Callers \ {c} : ~(now'[d] >= Renewed' + Window)
    BY <2>1, <2>3
  <2>6. Pending' \subseteq Callers \ {c}
    BY <1>1 DEF Pending
  <2>7. zset' # {} /\ Renewed' <= clock'
    BY <1>1, <1>5, <2>1
  <2>8. QED
    BY <1>1, <2>4, <2>5, <2>6, <2>7 DEF KeyInv
<1>6. QED
  BY <1>2, <1>3, <1>4, <1>5 DEF PromptBody

\* A key that expires takes no member along whose call still sends its EXPIRE in
\* time: that call started more than a window after the key was renewed, and so
\* did all others that are pending.
LEMMA TickKeepsPrompt ==
        ASSUME IInv, PromptBody, Window > 0, Tick, prompt'
        PROVE  PromptBody'
<1> USE ConstantFacts
<1>0. TypeOK
  BY DEF IInv
<1>1. /\ clock' = clock + 1 /\ UNCHANGED <<score, pc, now, member, admitted, settled>>
      /\ \A c \in Pending : clock + 1 - now[c] <= Second
      /\ Pending' = Pending
  <2>1. clock' = clock + 1 /\ UNCHANGED <<score, pc, now, member, admitted, settled>>
    BY DEF Tick
  <2>2. prompt' = (prompt /\ \A c \in Callers : pc[c] = "expire" => clock' - now[c] <= Second)
    BY DEF Tick
  <2>3. \A c \in Callers : pc[c] = "expire" => clock' - now[c] <= Second
    BY <2>2, Zenon
  <2>4. \A c \in Pending : clock + 1 - now[c] <= Second
    BY <1>0, <2>1, <2>3 DEF Pending, TypeOK
  <2>5. Pending' = Pending
    BY <2>1 DEF Pending
  <2>6. QED
    BY <2>1, <2>4, <2>5
<1>2. /\ clock \in Nat
      /\ \A c \in Pending : now[c] \in Int /\ member[c] \in Members
      /\ \A m \in Members : score[m] \in Int
  BY <1>0 DEF TypeOK, Pending, IInv, MemberInv, Holding
<1>3. AdmittedInv'
  <2>1. \A m \in admitted : Live(m)' => Live(m)
    BY <1>0, <1>1, <1>2 DEF Live, TypeOK
  <2>2. QED
    BY <1>1, <2>1 DEF PromptBody, AdmittedInv
<1>4. CASE expireAt # Absent /\ clock + 1 > expireAt
  <2>1. zset' = {} /\ expireAt' = Absent
    BY <1>4 DEF Tick, Keep
  <2>2. expireAt \in Int /\ Renewed \in Int /\ clock + 1 > Renewed + Window + Second
    BY <1>0, <1>2, <1>4 DEF Renewed, Ttl, TypeOK
  <2>3. \A c \in Pending : now[c] >= Renewed + Window
    BY <1>1, <1>2, <2>2
  <2>4. \A c \in Pending : member[c] \notin zset
    BY <1>2, <1>4, <2>2, <2>3 DEF PromptBody, KeyInv
  <2>5. PendingInv'
    BY <1>1, <1>2, <2>4 DEF PromptBody, PendingInv
  <2>6. QED
    BY <1>3, <2>1, <2>5 DEF PromptBody, HeldInv, KeyInv
<1>5. CASE ~(expireAt # Absent /\ clock + 1 > expireAt)
  <2>1. UNCHANGED <<zset, expireAt>> /\ Renewed' = Renewed
    BY <1>5 DEF Tick, Renewed, Ttl
  <2>2. PendingInv'
    BY <1>1, <1>2, <2>1 DEF PromptBody, PendingInv
  <2>3. HeldInv'
    BY <1>1, <2>1 DEF PromptBody, HeldInv
  <2>4. KeyInv'
    <3>1. expireAt # Absent => Renewed \in Int
      BY <1>0 DEF Renewed, Ttl, TypeOK
    <3>2. QED
      BY <1>1, <1>2, <2>1, <3>1 DEF PromptBody, KeyInv
  <2>5. QED
    BY <1>3, <2>2, <2>3, <2>4 DEF PromptBody
<1>6. QED
  BY <1>4, <1>5

LEMMA PromptInvStep == IInv /\ PromptInv /\ [Next]_vars => PromptInv'
<1> SUFFICES ASSUME IInv, PromptInv, [Next]_vars, Window > 0, prompt' PROVE PromptBody'
  BY DEF PromptInv
<1>0. TypeOK
  BY DEF IInv
<1>1. prompt
  BY <1>0, PromptStep
<1>2. PromptBody
  BY <1>1 DEF PromptInv
<1>3. ASSUME NEW c \in Callers,
             \/ IsAllowed(c) \/ GetRetryAfter(c) \/ Deny(c) \/ Abort(c) \/ RetryNone(c)
             \/ \E m \in Members : Pass(c, m) \/ RetryAfter(c, m)
      PROVE  PromptBody'
  <2>1. UNCHANGED <<clock, zset, score, expireAt, admitted, settled>>
    BY <1>3 DEF IsAllowed, GetRetryAfter, Start, Deny, Abort, RetryNone, Pass, RetryAfter, Answer,
       redis, history, outcome
  <2>2. /\ pc[c] # "expire" /\ pc'[c] # "expire"
        /\ \A d \in Callers \ {c} : /\ pc'[d] = pc[d] /\ now'[d] = now[d]
                                    /\ member'[d] = member[d]
        /\ pc'[c] \in {"count", "add"} => pc[c] \in {"count", "add"} /\ now'[c] = now[c]
    BY <1>0, <1>1, <1>3 DEF IsAllowed, GetRetryAfter, Start, Deny, Abort, RetryNone, Pass, RetryAfter,
       Answer, Return, GoTo, TypeOK
  <2>3. Pending' = Pending /\ c \notin Pending
    BY <2>2 DEF Pending
  <2>4. \A d \in Pending : d \in Callers \ {c}
    BY <2>3 DEF Pending
  <2>5. QED
    BY <1>2, <2>1, <2>2, <2>3, <2>4, FrameKeepsPrompt
<1>4. CASE UNCHANGED vars
  BY <1>2, <1>4, FrameKeepsPrompt DEF vars, redis, history, outcome, Pending
<1>5. QED
  BY <1>2, <1>3, <1>4, TrimKeepsPrompt, AddKeepsPrompt, ExpireKeepsPrompt, TickKeepsPrompt DEF Next

\* At most Limit - 1 + the number of concurrent calls are admitted within a
\* window, as long as every call gets from its time.time() to its EXPIRE within a
\* second and none ends between its ZADD and its EXPIRE.
THEOREM OverAdmissionBounded == Spec => []OverAdmission
<1>1. IInv /\ PromptInv => OverAdmission
  <2> SUFFICES ASSUME IInv, PromptInv, prompt
               PROVE  Admissions <= Limit - 1 + Cardinality(Callers)
    BY DEF OverAdmission
  <2> DEFINE live == {m \in admitted : Live(m)}
  <2>1. live \subseteq zset /\ IsFiniteSet(zset)
    <3>1. CASE Window > 0
      BY <3>1 DEF PromptInv, PromptBody, AdmittedInv, IInv, SettledInv
    <3>2. CASE Window = 0
      <4>1. live = {}
        BY <3>2 DEF IInv, TypeOK, Live
      <4>2. QED
        BY <4>1 DEF IInv
    <3>3. QED
      BY <3>1, <3>2, ConstantFacts
  <2>2. IsFiniteSet(live) /\ Cardinality(live) <= Cardinality(zset)
    BY <2>1, FS_Subset
  <2>3. IsFiniteSet(Adding)
    BY ConstantFacts, FS_Subset DEF Adding
  <2>4. /\ Cardinality(live) \in Nat /\ Cardinality(zset) \in Nat
        /\ Cardinality(Adding) \in Nat /\ Cardinality(Callers) \in Nat
    BY <2>1, <2>2, <2>3, ConstantFacts, FS_CardinalityType
  <2>5. QED
    BY <2>2, <2>4, ConstantFacts DEF IInv, SetBound, Admissions
<1>2. QED
  BY <1>1, InitPromptInv, PromptInvStep, IInvHolds, PTL DEF Spec

-----------------------------------------------------------------------------
\* int(x) + 1 seconds are more than x.
LEMMA SecondsSuffice ==
        ASSUME NEW ticks \in Int
        PROVE  Seconds(ticks) \in Nat \ {0} /\ Seconds(ticks) * Second > ticks
<1>1. CASE ticks < 0
  BY <1>1, ConstantFacts DEF Seconds
<1>2. CASE ticks >= 0
  <2> DEFINE q == ticks \div Second
  <2>1. q \in Nat /\ ticks = Second * q + (ticks % Second) /\ (ticks % Second) < Second
    BY <1>2, ConstantFacts
  <2>2. (q + 1) * Second = Second * q + Second
    BY <2>1, ConstantFacts
  <2>3. QED
    BY <1>2, <2>1, <2>2, ConstantFacts DEF Seconds
<1>3. QED
  BY <1>1, <1>2

\* The members that would still count at the time the client was told.
Late == {m \in zset : score[m] > advice - Window}

\* They leave room for one; and a call that read its clock at that time or later
\* has trimmed the others.
RetryInv == advice # Absent =>
    /\ ~overfull => Cardinality(Late) < Limit
    /\ \A c \in Callers : pc[c] = "count" /\ now[c] >= advice
                            => \A m \in zset : score[m] > now[c] - Window

\* Whoever gets an answer other than 0 has the oldest member gone by then.
LEMMA AnswerLeavesRoom ==
        ASSUME IInv, NEW c \in Callers, NEW m \in Members, RetryAfter(c, m)
        PROVE  /\ advice' \in Int /\ advice' > clock
               /\ ~overfull' => Cardinality(Late') < Limit
<1> DEFINE ticks == Window - (now[c] - score[m])
           room == zset \ {m}
<1>1. ticks \in Int /\ now[c] \in 0..clock /\ score[m] \in Int /\ clock \in Nat
  BY ConstantFacts DEF IInv, TypeOK
<1>2. Seconds(ticks) \in Nat \ {0} /\ Seconds(ticks) * Second > ticks
  BY <1>1, SecondsSuffice
<1>3. Seconds(ticks) * Second \in Int /\ Seconds(ticks) * Second > 0
  BY <1>2, ConstantFacts
<1>4. /\ advice' = clock + Seconds(ticks) * Second
      /\ zset' = zset /\ score' = score
      /\ overfull' = (Cardinality(zset) > Limit)
      /\ m \in zset
  BY DEF RetryAfter, Answer, redis
<1>5. advice' \in Int /\ advice' > clock /\ score[m] <= advice' - Window
  BY <1>1, <1>2, <1>3, <1>4, ConstantFacts
<1>6. Late' \subseteq room
  BY <1>1, <1>4, <1>5, ConstantFacts DEF Late
<1>7. IsFiniteSet(room) /\ Cardinality(room) = Cardinality(zset) - 1
  BY <1>4, FS_RemoveElement DEF IInv
<1>8. Cardinality(Late') <= Cardinality(room) /\ Cardinality(Late') \in Nat
  BY <1>6, <1>7, FS_Subset, FS_CardinalityType
<1>9. Cardinality(zset) \in Nat
  BY FS_CardinalityType DEF IInv
<1>10. ~overfull' => ~(Cardinality(zset) > Limit)
  BY <1>4, Zenon
<1>11. ASSUME ~(Cardinality(zset) > Limit) PROVE Cardinality(Late') < Limit
  BY <1>7, <1>8, <1>9, <1>11, ConstantFacts
<1>12. QED
  BY <1>5, <1>10, <1>11

LEMMA RetryInvStep == IInv /\ RetryInv /\ [Next]_vars => RetryInv'
<1> SUFFICES ASSUME IInv, RetryInv, [Next]_vars, advice' # Absent
             PROVE  /\ ~overfull' => Cardinality(Late') < Limit
                    /\ \A c \in Callers : pc'[c] = "count" /\ now'[c] >= advice'
                         => \A m \in zset' : score'[m] > now'[c] - Window
  BY DEF RetryInv
<1> DEFINE Room == ~overfull' => Cardinality(Late') < Limit
           Clean == \A c \in Callers : pc'[c] = "count" /\ now'[c] >= advice'
                      => \A m \in zset' : score'[m] > now'[c] - Window
<1> USE ConstantFacts
<1>0. TypeOK
  BY DEF IInv
<1>1. ASSUME UNCHANGED <<advice, overfull, score>>, zset' \subseteq zset PROVE Room
  <2>1. Late' \subseteq Late /\ Late \subseteq zset
    BY <1>1 DEF Late
  <2>2. IsFiniteSet(Late)
    BY <2>1, FS_Subset DEF IInv
  <2>3. /\ Cardinality(Late') <= Cardinality(Late)
        /\ Cardinality(Late') \in Nat /\ Cardinality(Late) \in Nat
    BY <2>1, <2>2, FS_Subset, FS_CardinalityType
  <2>4. QED
    BY <1>1, <2>3 DEF RetryInv
<1>2. ASSUME NEW c \in Callers, NEW m \in Members, RetryAfter(c, m) PROVE Room /\ Clean
  <2>1. advice' \in Int /\ advice' > clock /\ Room
    BY <1>2, AnswerLeavesRoom
  <2>2. \A d \in Callers : now'[d] \in 0..clock
    BY <1>0, <1>2 DEF RetryAfter, Answer, Return, TypeOK
  <2>3. clock \in Nat
    BY <1>0 DEF TypeOK
  <2>4. QED
    BY <2>1, <2>2, <2>3
<1>3. ASSUME NEW c \in Callers, RetryNone(c) PROVE Room /\ Clean
  <2>1. zset' = {}
    BY <1>3 DEF RetryNone, Answer, redis
  <2>2. Late' = {}
    BY <2>1 DEF Late
  <2>3. QED
    BY <2>1, <2>2, FS_EmptySet
<1>4. ASSUME NEW c \in Callers, Add(c) PROVE FALSE
  BY <1>4 DEF Add
<1>5. ASSUME NEW c \in Callers, Trim(c) \/ RetryTrim(c) PROVE Room /\ Clean
  <2>1. UNCHANGED <<advice, overfull, score>> /\ zset' \subseteq zset
    BY <1>5 DEF Trim, RetryTrim, TrimAs, Trimmed, Keep, history, outcome
  <2>2. Clean
    BY <1>0, <1>5 DEF Trim, RetryTrim, TrimAs, Trimmed, Keep, GoTo, history, outcome, RetryInv, TypeOK
  <2>3. QED
    BY <1>1, <2>1, <2>2
<1>6. ASSUME NEW c \in Callers,
             \/ IsAllowed(c) \/ GetRetryAfter(c) \/ Deny(c) \/ Abort(c) \/ Expire(c)
             \/ \E m \in Members : Pass(c, m)
      PROVE  Room /\ Clean
  <2>1. UNCHANGED <<advice, overfull, score>> /\ zset' = zset
    BY <1>6 DEF IsAllowed, GetRetryAfter, Start, Time, Deny, Abort, Expire, Pass, redis, history, outcome
  <2>2. Clean
    BY <1>0, <1>6, <2>1 DEF IsAllowed, GetRetryAfter, Start, Time, Deny, Abort, Expire, Pass, Return,
       GoTo, RetryInv, TypeOK, Labels
  <2>3. QED
    BY <1>1, <2>1, <2>2
<1>7. CASE Tick \/ UNCHANGED vars
  <2>1. UNCHANGED <<advice, overfull, score, pc, now>> /\ zset' \subseteq zset
    BY <1>7 DEF Tick, Keep, vars, redis, history, outcome
  <2>2. Clean
    BY <2>1 DEF RetryInv
  <2>3. QED
    BY <1>1, <2>1, <2>2
<1>8. QED
  BY <1>2, <1>3, <1>4, <1>5, <1>6, <1>7 DEF Next

\* A client that waits as long as it was told, by an answer from a set that was not
\* over-full, is not denied unless a member was added in the meantime.
THEOREM RetriesAreHonest == Spec => RetryHonest
<1>1. Init => RetryInv
  BY DEF Init, RetryInv
<1>2. IInv /\ RetryInv /\ [Next]_vars
        => [\A c \in Callers : Denied(c) => advice = Absent \/ overfull \/ now[c] < advice]_vars
  <2> SUFFICES ASSUME IInv, RetryInv, NEW c \in Callers, Denied(c),
                      advice # Absent, ~overfull, ~(now[c] < advice)
               PROVE  FALSE
    OBVIOUS
  <2> USE ConstantFacts
  <2>1. advice \in Int /\ now[c] \in Int /\ now[c] >= advice
    BY DEF IInv, TypeOK
  <2>2. \A m \in zset : score[m] \in Int /\ score[m] > now[c] - Window
    BY <2>1 DEF IInv, TypeOK, RetryInv, Denied
  <2>3. Late = zset
    BY <2>1, <2>2 DEF Late
  <2>4. Cardinality(zset) \in Nat
    BY FS_CardinalityType DEF IInv
  <2>5. QED
    BY <2>3, <2>4 DEF RetryInv, Denied, Full
<1>3. QED
  BY <1>1, <1>2, RetryInvStep, IInvHolds, PTL DEF Spec, RetryHonest

-----------------------------------------------------------------------------
\* A member is added when its call's clock was read, or later; and to a call that
\* has trimmed, the members it finds are of its window, or were added after that.
JudgeInv ==
    /\ \A m \in zset : addedAt[m] \in Nat /\ score[m] <= addedAt[m]
    /\ \A c \in Callers : pc[c] = "count" => \A m \in zset : now[c] - addedAt[m] < Window

LEMMA JudgeInvStep == ASSUME Window > 0 PROVE IInv /\ JudgeInv /\ [Next]_vars => JudgeInv'
<1> SUFFICES ASSUME IInv, JudgeInv, [Next]_vars PROVE JudgeInv'
  OBVIOUS
<1> USE ConstantFacts
<1>0. TypeOK
  BY DEF IInv
<1>1. ASSUME NEW c \in Callers, Trim(c) \/ RetryTrim(c) PROVE JudgeInv'
  <2>1. /\ UNCHANGED <<score, now>>
        /\ \A m \in zset' : /\ m \in zset /\ m \in Members /\ addedAt'[m] = addedAt[m]
                            /\ score[m] > now[c] - Window
    BY <1>0, <1>1 DEF Trim, RetryTrim, TrimAs, Trimmed, Keep, TypeOK
  <2>2. \A d \in Callers : pc'[d] = "count" => pc[d] = "count" \/ d = c
    BY <1>0, <1>1 DEF Trim, RetryTrim, TrimAs, GoTo, TypeOK
  <2>3. ASSUME NEW m \in zset' PROVE now[c] - addedAt[m] < Window
    <3>1. m \in Members /\ score[m] \in Nat /\ now[c] \in Nat
      BY <1>0, <2>1 DEF TypeOK
    <3>2. addedAt[m] \in Nat /\ score[m] <= addedAt[m] /\ score[m] > now[c] - Window
      BY <2>1 DEF JudgeInv
    <3>3. QED
      BY <3>1, <3>2
  <2>4. QED
    BY <2>1, <2>2, <2>3 DEF JudgeInv
<1>2. ASSUME NEW c \in Callers, Add(c) PROVE JudgeInv'
  <2>1. member[c] \in Members /\ clock \in Nat /\ now[c] <= clock
    BY <1>0, <1>2 DEF Add, IInv, MemberInv, Holding, TypeOK
  <2>2. /\ now' = now /\ zset' = zset \cup {member[c]}
        /\ addedAt'[member[c]] = clock /\ score'[member[c]] = now[c]
        /\ \A m \in Members \ {member[c]} : addedAt'[m] = addedAt[m] /\ score'[m] = score[m]
    BY <1>0, <1>2, <2>1 DEF Add, TypeOK
  <2>3. \A d \in Callers : pc'[d] = "count" => pc[d] = "count"
    BY <1>0, <1>2 DEF Add, GoTo, TypeOK
  <2>4. \A d \in Callers : now[d] - clock < Window
    BY <1>0 DEF TypeOK
  <2>5. ASSUME NEW m \in zset'
        PROVE  /\ addedAt'[m] \in Nat /\ score'[m] <= addedAt'[m]
               /\ \A d \in Callers : pc'[d] = "count" => now'[d] - addedAt'[m] < Window
    <3>1. CASE m = member[c]
      BY <2>1, <2>2, <2>4, <3>1
    <3>2. CASE m \in zset /\ m # member[c]
      <4>1. addedAt'[m] = addedAt[m] /\ score'[m] = score[m]
        BY <1>0, <2>2, <3>2 DEF TypeOK
      <4>2. QED
        BY <2>2, <2>3, <3>2, <4>1 DEF JudgeInv
    <3>3. QED
      BY <2>2, <3>1, <3>2
  <2>6. QED
    BY <2>5 DEF JudgeInv
<1>3. ASSUME NEW c \in Callers,
             \/ IsAllowed(c) \/ GetRetryAfter(c) \/ Deny(c) \/ Abort(c) \/ Expire(c)
             \/ RetryNone(c) \/ \E m \in Members : Pass(c, m) \/ RetryAfter(c, m)
      PROVE  JudgeInv'
  <2>1. UNCHANGED <<zset, score, addedAt>>
    BY <1>3 DEF IsAllowed, GetRetryAfter, Start, Deny, Abort, Expire, RetryNone, Pass, RetryAfter,
       Answer, redis, history
  <2>2. \A d \in Callers : pc'[d] = "count" => pc[d] = "count" /\ now'[d] = now[d]
    BY <1>0, <1>3 DEF IsAllowed, GetRetryAfter, Start, Deny, Abort, Expire, RetryNone, Pass,
       RetryAfter, Answer, Return, GoTo, TypeOK
  <2>3. QED
    BY <2>1, <2>2 DEF JudgeInv
<1>4. CASE Tick \/ UNCHANGED vars
  <2>1. UNCHANGED <<score, pc, now>> /\ (zset' = {} \/ UNCHANGED <<zset, addedAt>>)
    BY <1>4 DEF Tick, Keep, vars, redis, history
  <2>2. QED
    BY <2>1 DEF JudgeInv
<1>5. QED
  BY <1>1, <1>2, <1>3, <1>4 DEF Next

\* A client is turned away only by Limit members that were added within the
\* window, or while its call was under way, for any window that is not empty.
THEOREM DenialsAreJustified == ASSUME Window > 0 PROVE Spec => DenialsJustified
<1>1. Init => JudgeInv
  BY DEF Init, JudgeInv
<1>2. IInv /\ JudgeInv /\ [Next]_vars
        => [\A c \in Callers : Denied(c) =>
              Cardinality({m \in zset : now[c] - addedAt[m] < Window}) >= Limit]_vars
  <2> SUFFICES ASSUME IInv, JudgeInv, NEW c \in Callers, Denied(c)
               PROVE  Cardinality({m \in zset : now[c] - addedAt[m] < Window}) >= Limit
    OBVIOUS
  <2>1. {m \in zset : now[c] - addedAt[m] < Window} = zset
    BY DEF JudgeInv, Denied
  <2>2. QED
    BY <2>1 DEF Denied, Full
<1>3. IInv /\ JudgeInv /\ [Next]_vars => JudgeInv'
  BY JudgeInvStep
<1>4. QED
  BY <1>1, <1>2, <1>3, IInvHolds, PTL DEF Spec, DenialsJustified
=============================================================================
