--------------------------- MODULE RateLimitRedis ---------------------------
(***************************************************************************)
(* SlidingWindowRateLimiter over Redis (rate_limiting.py): one client's    *)
(* sorted set, used by the concurrent calls of any number of processes.    *)
(* Every Redis command is a step of its own; between two of them other     *)
(* calls run, time passes and the key may expire, and a call may end at    *)
(* any await.  All processes and Redis share one clock.                    *)
(***************************************************************************)
EXTENDS Integers, FiniteSets

CONSTANTS Callers,            \* concurrent calls
          Members,            \* sorted-set members, told apart by secrets.token_hex
          NoMember, Absent,   \* Absent: no TTL; no advice is outstanding
          Limit,              \* requests_per_window
          Second,             \* ticks per second
          Window,             \* window_seconds, in ticks
          MaxTime             \* bound of the exploration

ASSUME LimiterAssumption == /\ Limit \in Nat \ {0} /\ Second \in Nat \ {0}
                            /\ Window \in Nat /\ Window % Second = 0 /\ MaxTime \in Nat
                            /\ IsFiniteSet(Callers) /\ NoMember \notin Members
                            /\ Absent \notin Int

VARIABLES clock,
          zset,      \* the members of the sorted set ...
          score,     \* ... and the score every member was added with
          expireAt,  \* when the key expires, or Absent
          pc, now, member,  \* per call: its position and its locals
          \* History, read by no action but to keep members apart: those whose
          \* call returned True, those whose EXPIRE found them in the set; the
          \* time get_retry_after last told the client to come back, if nothing
          \* was added since; whether it answered from an over-full set; whether
          \* every call so far got from its time.time() to its EXPIRE within a
          \* second and none ended between ZADD and EXPIRE; and when the ZADD of
          \* each member in the set ran.
          admitted, settled, advice, overfull, prompt, addedAt

redis == <<zset, score, expireAt>>
outcome == <<admitted, settled, advice, overfull, prompt>>
history == <<outcome, addedAt>>
vars == <<clock, redis, pc, now, member, history>>

Labels == {"idle", "trim", "count", "add", "expire", "retry_trim", "retry_read"}

TypeOK == /\ clock \in Nat
          /\ zset \subseteq Members
          /\ score \in [Members -> 0..clock]
          /\ expireAt \in Int \cup {Absent}
          /\ pc \in [Callers -> Labels]
          /\ now \in [Callers -> 0..clock]
          /\ member \in [Callers -> Members \cup {NoMember}]
          /\ admitted \subseteq Members /\ settled \subseteq Members
          /\ advice \in Int \cup {Absent}
          /\ overfull \in BOOLEAN /\ prompt \in BOOLEAN
          /\ addedAt \in [Members -> (0..clock) \cup {Absent}]

Init == /\ clock = 0
        /\ zset = {}
        /\ score = [m \in Members |-> 0]
        /\ expireAt = Absent
        /\ pc = [c \in Callers |-> "idle"]
        /\ now = [c \in Callers |-> 0]
        /\ member = [c \in Callers |-> NoMember]
        /\ admitted = {}
        /\ settled = {}
        /\ advice = Absent
        /\ overfull = FALSE
        /\ prompt = TRUE
        /\ addedAt = [m \in Members |-> Absent]

-----------------------------------------------------------------------------
GoTo(c, label) == pc' = [pc EXCEPT ![c] = label]

Return(c) == /\ GoTo(c, "idle")
             /\ now' = [now EXCEPT ![c] = 0]
             /\ member' = [member EXCEPT ![c] = NoMember]

\* Mutant of Time: rounded up to a whole second.
Time_Rounded == ((clock + Second - 1) \div Second) * Second

Time == clock

\* is_allowed or get_retry_after: now = time.time()
Start(c, label) == /\ pc[c] = "idle"
                   /\ GoTo(c, label)
                   /\ now' = [now EXCEPT ![c] = Time]
                   /\ UNCHANGED <<clock, redis, member, history>>

IsAllowed(c) == Start(c, "trim")
GetRetryAfter(c) == Start(c, "retry_trim")

\* Mutant of Trimmed: the range is open, "(now-window".
Trimmed_Open(time) == {m \in zset : score[m] >= time - Window}

\* ZREMRANGEBYSCORE key -inf now-window: both bounds belong to the range, and
\* Redis deletes the key, its TTL with it, when the last member goes.
Trimmed(time) == {m \in zset : score[m] > time - Window}

Keep(part) == /\ zset' = part
              /\ addedAt' = [m \in Members |-> IF m \in part THEN addedAt[m] ELSE Absent]

TrimAs(c, label, next) == /\ pc[c] = label
                          /\ GoTo(c, next)
                          /\ Keep(Trimmed(now[c]))
                          /\ expireAt' = IF Trimmed(now[c]) = {} THEN Absent ELSE expireAt
                          /\ UNCHANGED <<clock, score, now, member, outcome>>

Trim(c) == TrimAs(c, "trim", "count")
RetryTrim(c) == TrimAs(c, "retry_trim", "retry_read")

\* Mutant of Full: one more fits in.
Full_Over == Cardinality(zset) > Limit

\* ZCARD key >= requests_per_window
Full == Cardinality(zset) >= Limit

Deny(c) == /\ pc[c] = "count"
           /\ Full
           /\ Return(c)
           /\ UNCHANGED <<clock, redis, history>>

\* The member is named before ZADD is sent: "{now}:{secrets.token_hex(4)}".
Fresh(m) == m \notin zset \cup admitted \cup settled \cup {member[c] : c \in Callers}

Pass(c, m) == /\ pc[c] = "count"
              /\ ~Full
              /\ Fresh(m)
              /\ GoTo(c, "add")
              /\ member' = [member EXCEPT ![c] = m]
              /\ UNCHANGED <<clock, redis, now, history>>

\* ZADD key now member; a key that it creates has no TTL.
Add(c) == /\ pc[c] = "add"
          /\ GoTo(c, "expire")
          /\ zset' = zset \cup {member[c]}
          /\ score' = [score EXCEPT ![member[c]] = now[c]]
          /\ advice' = Absent
          /\ overfull' = FALSE
          /\ prompt' = (prompt /\ clock - now[c] <= Second)
          /\ addedAt' = [addedAt EXCEPT ![member[c]] = clock]
          /\ UNCHANGED <<clock, expireAt, now, member, admitted, settled>>

\* Mutant of Ttl: the window is forgotten.
Ttl_Short == Second

\* window_seconds + 1
Ttl == Window + Second

\* EXPIRE key ttl; it does nothing to a key that is not there.  The call returns True.
Expire(c) == /\ pc[c] = "expire"
             /\ expireAt' = IF zset = {} THEN expireAt ELSE clock + Ttl
             /\ admitted' = admitted \cup {member[c]}
             /\ settled' = settled \cup ({member[c]} \cap zset)
             /\ Return(c)
             /\ UNCHANGED <<clock, zset, score, advice, overfull, prompt, addedAt>>

\* Mutant of Seconds: truncated, nothing added.
Seconds_Truncated(ticks) == IF ticks < Second THEN 1 ELSE ticks \div Second

\* max(int(ticks) + 1, 1): \div rounds down where int() cuts off, but below zero
\* max has the last word.
Seconds(ticks) == IF ticks < 0 THEN 1 ELSE (ticks \div Second) + 1

Answer(c, seconds) == /\ advice' = clock + seconds * Second
                      /\ overfull' = (Cardinality(zset) > Limit)
                      /\ Return(c)
                      /\ UNCHANGED <<clock, redis, admitted, settled, prompt, addedAt>>

\* ZRANGE key 0 0 WITHSCORES finds nothing, or a member of the least score.
RetryNone(c) == /\ pc[c] = "retry_read"
                /\ zset = {}
                /\ Answer(c, 0)

RetryAfter(c, m) == /\ pc[c] = "retry_read"
                    /\ m \in zset /\ \A x \in zset : score[m] <= score[x]
                    /\ Answer(c, Seconds(Window - (now[c] - score[m])))

\* At any await the client library may raise, the task be cancelled or the
\* process die.
Abort(c) == /\ pc[c] # "idle"
            /\ Return(c)
            /\ prompt' = (prompt /\ pc[c] # "expire")
            /\ UNCHANGED <<clock, redis, admitted, settled, advice, overfull, addedAt>>

\* Time passes; a key is gone when its time is over.
Tick == /\ clock < MaxTime
        /\ clock' = clock + 1
        /\ IF expireAt # Absent /\ clock + 1 > expireAt
             THEN Keep({}) /\ expireAt' = Absent
             ELSE UNCHANGED <<zset, expireAt, addedAt>>
        /\ prompt' = (prompt /\ \A c \in Callers : pc[c] = "expire" => clock' - now[c] <= Second)
        /\ UNCHANGED <<score, pc, now, member, admitted, settled, advice, overfull>>

Next == \/ \E c \in Callers : \/ IsAllowed(c) \/ Trim(c) \/ Deny(c)
                              \/ \E m \in Members : Pass(c, m) \/ RetryAfter(c, m)
                              \/ Add(c) \/ Expire(c)
                              \/ GetRetryAfter(c) \/ RetryTrim(c) \/ RetryNone(c)
                              \/ Abort(c)
        \/ Tick

Spec == Init /\ [][Next]_vars

-----------------------------------------------------------------------------
\* The properties.

Live(m) == clock - score[m] < Window

\* The calls that have passed the check and will add a member.
Adding == {c \in Callers : pc[c] = "add"}

\* The members in the set and those on their way to it are fewer than Limit and
\* one for every concurrent call.
SetBound == Cardinality(zset) + Cardinality(Adding) <= Limit - 1 + Cardinality(Callers)

\* A member whose EXPIRE found it counts against the client for its window: no
\* trimming with an old now and no expiry of the key drops it earlier.
CountedForWindow == \A m \in settled : Live(m) => m \in zset

\* What bounds over-admission (the inductive invariant of the proof adds the
\* TTL that CountedForWindow rests on).
SetInv == SetBound /\ CountedForWindow

Admissions == Cardinality({m \in admitted : Live(m)})

\* At most Limit - 1 + the number of concurrent calls are admitted within a
\* window, as long as every call gets from its time.time() to its EXPIRE within
\* the second that the TTL adds to the window: then no key expires under a call
\* that has added to it.
OverAdmission == prompt => Admissions <= Limit - 1 + Cardinality(Callers)

\* What the docstring of _is_allowed_redis says (lines 113-115), "over-counted by
\* at most the number of concurrent callers", with no such proviso.
OverAdmissionAsDocumented == Admissions <= Limit + Cardinality(Callers)

Denied(c) == pc[c] = "count" /\ pc'[c] = "idle" /\ Full

\* A client is turned away only by Limit members that were all added within the
\* window before its call or while it was under way: although others trim with
\* clocks of their own and add late, no member that has left the window counts.
DenialsJustified ==
    [][\A c \in Callers : Denied(c) =>
          Cardinality({m \in zset : now[c] - addedAt[m] < Window}) >= Limit]_vars

\* A client that waits as long as get_retry_after told it to is not denied unless
\* a member was added in the meantime, provided the set was not over-full: then it
\* takes more than the oldest member to go.
RetryHonest ==
    [][\A c \in Callers : Denied(c) => advice = Absent \/ overfull \/ now[c] < advice]_vars
=============================================================================
