------------------------------ MODULE JtiMemory ------------------------------
(***************************************************************************)
(* JWTClientAuthenticator with its in-memory replay cache                  *)
(* (client_auth/jwt.py, redis=None): threads authenticate client           *)
(* assertions against one dictionary of used identifiers, which they also  *)
(* purge, under one threading.Lock.  Time is in whole ticks; time.time()   *)
(* never goes backwards.                                                   *)
(***************************************************************************)
EXTENDS Integers

CONSTANTS Threads, NoThread,        \* callers of authenticate()
          Jtis, Absent,             \* jti claims; Absent: not in the dictionary
          Text,                     \* an exp that the dictionary holds as a str
          Assertions, NoAssertion,  \* the assertions clients may send
          Skew,                     \* JWT_MAX_CLOCK_SKEW_SECONDS
          MaxLifetime,              \* JWT_MAX_LIFETIME_SECONDS
          CleanupInterval,          \* JWT_REPLAY_CACHE_CLEANUP_INTERVAL
          MaxTime, MaxRestarts      \* bounds of the exploration

\* The claims the cache and the clock have a say in.  text: exp is a JSON string
\* of digits.  PyJWT judges it by int(exp), and _verify_jwt passes it on as it is.
Assertion == [jti : Jtis, iat : Int, exp : Int, text : BOOLEAN]

ASSUME NoThreadAssumption == NoThread \notin Threads
ASSUME AssertionsAssumption == /\ Assertions \subseteq Assertion
                               /\ NoAssertion \notin Assertions
ASSUME JtiAbsentAssumption == Absent \notin Int /\ Text \notin Int /\ Text # Absent
ASSUME DurationsAssumption == /\ Skew \in Nat /\ MaxLifetime \in Nat
                              /\ CleanupInterval \in Nat \ {0}
                              /\ MaxTime \in Nat /\ MaxRestarts \in Nat

VARIABLES clock,       \* time.time()
          used,        \* _used_jtis: jti -> exp, Text or Absent
          lastCleanup, \* _last_cleanup
          lock,        \* _jti_lock: the thread holding it, or NoThread
          pc,          \* where each thread is in authenticate()
          assertion,   \* the assertion it verifies
          now,         \* its local "now"
          restarts,
          \* History, read by no action: the exp each identifier was last
          \* accepted with by this process, and the time it was recorded.
          protectedUntil, recordedAt

cache == <<used, lastCleanup>>
history == <<protectedUntil, recordedAt>>
vars == <<clock, cache, lock, pc, assertion, now, restarts, history>>

Locked == {"purge", "lookup", "store"}
Labels == {"idle", "decode", "check", "cleanup", "record"} \cup Locked

TypeOK ==
    /\ clock \in Nat
    /\ used \in [Jtis -> Int \cup {Absent, Text}]
    /\ lastCleanup \in 0..clock
    /\ lock \in Threads \cup {NoThread}
    /\ pc \in [Threads -> Labels]
    /\ assertion \in [Threads -> Assertions \cup {NoAssertion}]
    /\ now \in [Threads -> 0..clock]
    /\ restarts \in 0..MaxRestarts
    /\ protectedUntil \in [Jtis -> Int \cup {Absent}]
    /\ recordedAt \in [Jtis -> Nat]

Empty == [j \in Jtis |-> Absent]

Init == /\ clock = 0
        /\ used = Empty
        /\ lastCleanup = 0
        /\ lock = NoThread
        /\ pc = [t \in Threads |-> "idle"]
        /\ assertion = [t \in Threads |-> NoAssertion]
        /\ now = [t \in Threads |-> 0]
        /\ restarts = 0
        /\ protectedUntil = Empty
        /\ recordedAt = [j \in Jtis |-> 0]

-----------------------------------------------------------------------------
GoTo(t, label) == pc' = [pc EXCEPT ![t] = label]

\* The local now has had its last use.
Forget(t) == now' = [now EXCEPT ![t] = 0]

\* authenticate() returns True or raises.
Return(t) == /\ GoTo(t, "idle")
             /\ assertion' = [assertion EXCEPT ![t] = NoAssertion]
             /\ Forget(t)

Acquire(t) == lock = NoThread /\ lock' = t
Release == lock' = NoThread

\* authenticate() up to the point where _verify_jwt reads the clock for the age
\* check.  Nothing shared is read before it, so the wait for the JWKS is no
\* state; a call with a wrong type, without JWKS or without a key ends there.
Authenticate(t, a) == /\ pc[t] = "idle"
                      /\ GoTo(t, "decode")
                      /\ assertion' = [assertion EXCEPT ![t] = a]
                      /\ now' = [now EXCEPT ![t] = clock]
                      /\ UNCHANGED <<clock, cache, lock, restarts, history>>

\* jwt.decode reads the clock again; the age of iat is taken at the first reading.
Timely(a, readAt) == /\ a.exp > clock - Skew
                     /\ a.iat <= clock + Skew
                     /\ readAt - a.iat <= MaxLifetime + Skew

Decode(t) == /\ pc[t] = "decode"
             /\ Timely(assertion[t], now[t])
             /\ GoTo(t, "check")
             /\ Forget(t)
             /\ UNCHANGED <<clock, cache, lock, assertion, restarts, history>>

\* Untimely, or the signature, the audience, the issuer or the subject is wrong.
Reject(t) == /\ pc[t] = "decode"
             /\ Return(t)
             /\ UNCHANGED <<clock, cache, lock, restarts, history>>

\* _cleanup_expired_jtis: the first look at _last_cleanup takes no lock.
CleanupDue(readAt) == readAt - lastCleanup >= CleanupInterval

CheckCleanup(t) == /\ pc[t] = "check"
                   /\ IF CleanupDue(clock)
                        THEN GoTo(t, "cleanup") /\ now' = [now EXCEPT ![t] = clock]
                        ELSE GoTo(t, "record") /\ UNCHANGED now
                   /\ UNCHANGED <<clock, cache, lock, assertion, restarts, history>>

LockForCleanup(t) == /\ pc[t] = "cleanup"
                     /\ Acquire(t)
                     /\ GoTo(t, "purge")
                     /\ UNCHANGED <<clock, cache, assertion, now, restarts, history>>

\* Mutants of Expired: at exp already, and an interval after it.
Expired_AtExp(j, readAt) == used[j] # Absent /\ readAt >= used[j]
Expired_Later(j, readAt) == used[j] # Absent /\ readAt > used[j] + CleanupInterval

Expired(j, readAt) == used[j] # Absent /\ readAt > used[j]

\* Mutant of StillDue: no second look.
StillDue_Skipped(t) == TRUE

\* Under the lock: look again, with the now read before the lock was taken.
StillDue(t) == CleanupDue(now[t])

\* Mutant of Cleaned: _last_cleanup taken for the time the next one is due.
Cleaned_NextDue(readAt) == lastCleanup' = readAt + CleanupInterval

Cleaned(readAt) == lastCleanup' = readAt

\* Some exp in the dictionary is a str, which "now > exp" does not compare with a float.
Incomparable == \E j \in Jtis : used[j] = Text

Purge(t) ==
    /\ pc[t] = "purge"
    /\ StillDue(t) => ~Incomparable
    /\ IF StillDue(t)
         THEN /\ used' = [j \in Jtis |-> IF Expired(j, now[t]) THEN Absent ELSE used[j]]
              /\ Cleaned(now[t])
         ELSE UNCHANGED cache
    /\ Release
    /\ GoTo(t, "record")
    /\ Forget(t)
    /\ UNCHANGED <<clock, assertion, restarts, history>>

\* The comparison raises before anything is deleted; the with statement gives the
\* lock back, _last_cleanup stays, and authenticate() raises in the end.
PurgeRaises(t) == /\ pc[t] = "purge"
                  /\ StillDue(t) /\ Incomparable
                  /\ Release
                  /\ Return(t)
                  /\ UNCHANGED <<clock, cache, restarts, history>>

\* Mutant of LockForRecord: the look-up does not wait for the lock.
LockForRecord_NoWait(t) == /\ pc[t] = "record"
                           /\ lock' = t
                           /\ GoTo(t, "lookup")
                           /\ UNCHANGED <<clock, cache, assertion, now, restarts, history>>

\* _check_and_record_jti, after the cleanup.
LockForRecord(t) == /\ pc[t] = "record"
                    /\ Acquire(t)
                    /\ GoTo(t, "lookup")
                    /\ UNCHANGED <<clock, cache, assertion, now, restarts, history>>

\* Mutant of Replayed: the replay is reported with the lock still held.
Replayed_Locked(t) == /\ pc[t] = "lookup"
                      /\ used[assertion[t].jti] # Absent
                      /\ Return(t)
                      /\ UNCHANGED <<clock, cache, lock, restarts, history>>

Replayed(t) == /\ pc[t] = "lookup"
               /\ used[assertion[t].jti] # Absent
               /\ Release
               /\ Return(t)
               /\ UNCHANGED <<clock, cache, restarts, history>>

Fresh(t) == /\ pc[t] = "lookup"
            /\ used[assertion[t].jti] = Absent
            /\ GoTo(t, "store")
            /\ UNCHANGED <<clock, cache, lock, assertion, now, restarts, history>>

\* payload.get("exp")
Raw(a) == IF a.text THEN Text ELSE a.exp

Store(t) ==
    LET a == assertion[t] IN
    /\ pc[t] = "store"
    /\ used' = [used EXCEPT ![a.jti] = Raw(a)]
    /\ Release
    /\ Return(t)
    /\ protectedUntil' = [protectedUntil EXCEPT ![a.jti] = a.exp]
    /\ recordedAt' = [recordedAt EXCEPT ![a.jti] = clock]
    /\ UNCHANGED <<clock, lastCleanup, restarts>>

Step(t) == \/ Decode(t) \/ Reject(t)
           \/ CheckCleanup(t) \/ LockForCleanup(t) \/ Purge(t) \/ PurgeRaises(t)
           \/ LockForRecord(t) \/ Replayed(t) \/ Fresh(t) \/ Store(t)

\* A new process: __init__ with an empty dictionary.
Restart == /\ restarts < MaxRestarts
           /\ restarts' = restarts + 1
           /\ used' = Empty
           /\ lastCleanup' = clock
           /\ lock' = NoThread
           /\ pc' = [t \in Threads |-> "idle"]
           /\ assertion' = [t \in Threads |-> NoAssertion]
           /\ now' = [t \in Threads |-> 0]
           /\ protectedUntil' = Empty
           /\ recordedAt' = [j \in Jtis |-> 0]
           /\ UNCHANGED clock

Tick == /\ clock < MaxTime
        /\ clock' = clock + 1
        /\ UNCHANGED <<cache, lock, pc, assertion, now, restarts, history>>

Next == \/ \E t \in Threads : (\E a \in Assertions : Authenticate(t, a)) \/ Step(t)
        \/ Restart
        \/ Tick

\* The scheduler runs every thread, and a thread that
\* keeps waiting for the lock gets it in the end.  Nothing is assumed of the
\* clients or of time.
Fairness == \A t \in Threads :
    /\ WF_vars(Decode(t) \/ Reject(t) \/ CheckCleanup(t) \/ Purge(t) \/ PurgeRaises(t)
                 \/ Replayed(t) \/ Fresh(t) \/ Store(t))
    /\ SF_vars(LockForCleanup(t))
    /\ SF_vars(LockForRecord(t))

Spec == Init /\ [][Next]_vars
FairSpec == Spec /\ Fairness

-----------------------------------------------------------------------------
\* The properties.

Once == INSTANCE AcceptOnce WITH Durable <- FALSE

\* Replay protection as this cache gives it: however the threads interleave,
\* an identifier is accepted again only once the exp of the assertion it was
\* last accepted with has passed, or in a new process (_check_and_record_jti
\* and the purge of _cleanup_expired_jtis, lines 131-133 and 144-148).
ImplementsAcceptOnce == Once!Spec

\* The lock is held exactly inside the "with self._jti_lock" blocks.
LockHeld == \A t \in Threads : pc[t] \in Locked <=> lock = t

\* A thread in flight verifies some assertion.
InFlight == \A t \in Threads : pc[t] # "idle" => assertion[t] \in Assertions

\* An identifier is still in the dictionary, with its exp or as Text, at least
\* until that exp has passed.
ProtectedIsCached ==
    \A j \in Jtis : /\ used[j] # Absent => used[j] \in {protectedUntil[j], Text}
                    /\ protectedUntil[j] # Absent /\ clock <= protectedUntil[j]
                         => used[j] # Absent

\* Between its look-up and its store a thread holds the lock, so that the
\* identifier it found unused still is.
FoundFresh == \A t \in Threads : pc[t] = "store" => used[assertion[t].jti] = Absent

\* Why the cache keeps its promise (the inductive invariant of the proof).
CacheInv == LockHeld /\ InFlight /\ ProtectedIsCached /\ FoundFresh

\* A purge leaves nothing behind: an identifier whose exp had passed at the
\* last cleanup is in the dictionary only if it was recorded after it (as it
\* may be within the leeway of jwt.decode).
PurgeComplete ==
    \A j \in Jtis : used[j] \notin {Absent, Text} /\ used[j] < lastCleanup
                      => recordedAt[j] >= lastCleanup

\* Cleanups of one process are at least CleanupInterval apart and
\* _last_cleanup never moves backwards, although a thread may wait for the lock
\* with a now it read long before (the second check, line 128).
CleanupsSpaced ==
    [][lastCleanup' # lastCleanup /\ restarts' = restarts
         => lastCleanup' >= lastCleanup + CleanupInterval]_vars

\* Every call that has its keys returns or raises: no path through the cleanup
\* and the record keeps the lock.
VerificationEnds == \A t \in Threads : pc[t] # "idle" ~> pc[t] = "idle"

\* What the module docstring says (lines 13-15), read plainly: an assertion that
\* this process has accepted is not accepted by it again.
NoReplay ==
    [][\A t \in Threads : pc[t] = "store" /\ pc'[t] = "idle" /\ restarts' = restarts
         => protectedUntil[assertion[t].jti] # assertion[t].exp]_vars

\* What the docstring of _check_and_record_jti says (line 141), "Returns False if
\* seen before": an assertion that has passed jwt.decode is refused only for an
\* identifier that is in the dictionary.
RefusedOnlyIfSeen ==
    [][\A t \in Threads : pc[t] \in {"check", "cleanup", "record"} \cup Locked /\ pc'[t] = "idle"
                          /\ restarts' = restarts => used'[assertion[t].jti] # Absent]_vars
=============================================================================
