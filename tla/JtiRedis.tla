------------------------------ MODULE JtiRedis ------------------------------
(***************************************************************************)
(* JWTClientAuthenticator with its replay cache in Redis (client_auth/     *)
(* jwt.py, redis given): calls of any number of processes, on hosts whose  *)
(* clocks drift from the Redis server's, record identifiers with SET NX    *)
(* PX.  Calls are abandoned, and replies lost, at any await.               *)
(***************************************************************************)
EXTENDS Integers

CONSTANTS Calls,                    \* concurrent calls of authenticate()
          Drift,                    \* clock of a call's host minus the Redis clock
          Jtis, Absent,             \* jti claims; Absent: no such key
          Assertions, NoAssertion,  \* the assertions clients may send
          Skew,                     \* JWT_MAX_CLOCK_SKEW_SECONDS
          MaxLifetime,              \* JWT_MAX_LIFETIME_SECONDS
          MaxTime                   \* bound of the exploration

\* The claims the cache and the clock have a say in.  With an exp that is a string
\* the computation of the TTL raises, before Redis is asked: such a call gives up.
Assertion == [jti : Jtis, iat : Int, exp : Int]

ASSUME DriftAssumption == Drift \in [Calls -> Int]
ASSUME AssertionsAssumption == /\ Assertions \subseteq Assertion
                               /\ NoAssertion \notin Assertions
ASSUME JtiAbsentAssumption == Absent \notin Int
ASSUME DurationsAssumption == Skew \in Nat /\ MaxLifetime \in Nat /\ MaxTime \in Nat

VARIABLES clock,      \* the Redis server's clock
          expireAt,   \* when the key of each jti expires, or Absent
          pc,         \* where each call is
          assertion,  \* the assertion it verifies
          now,        \* the clock of its host, as _verify_jwt read it
          ttl,        \* the PX it sends
          \* History, read by no action: which call accepted which assertion,
          \* and the horizon of each identifier's last acceptance.
          accepted, protectedUntil

history == <<accepted, protectedUntil>>
vars == <<clock, expireAt, pc, assertion, now, ttl, history>>

TypeOK == /\ clock \in Nat
          /\ expireAt \in [Jtis -> Int \cup {Absent}]
          /\ pc \in [Calls -> {"idle", "decode", "decoded", "set"}]
          /\ assertion \in [Calls -> Assertions \cup {NoAssertion}]
          /\ \A c \in Calls : pc[c] # "idle" => assertion[c] \in Assertions
          /\ now \in [Calls -> Int]
          /\ ttl \in [Calls -> Nat]
          /\ accepted \subseteq Assertions \X Calls
          /\ protectedUntil \in [Jtis -> Int \cup {Absent}]

Init == /\ clock = 0
        /\ expireAt = [j \in Jtis |-> Absent]
        /\ pc = [c \in Calls |-> "idle"]
        /\ assertion = [c \in Calls |-> NoAssertion]
        /\ now = [c \in Calls |-> 0]
        /\ ttl = [c \in Calls |-> 0]
        /\ accepted = {}
        /\ protectedUntil = [j \in Jtis |-> Absent]

-----------------------------------------------------------------------------
Time(c) == clock + Drift[c]

GoTo(c, label) == pc' = [pc EXCEPT ![c] = label]

\* The call returns True or raises.
Return(c) == /\ GoTo(c, "idle")
             /\ assertion' = [assertion EXCEPT ![c] = NoAssertion]
             /\ now' = [now EXCEPT ![c] = 0]
             /\ ttl' = [ttl EXCEPT ![c] = 0]

\* A key is there up to and including the instant it expires at.
Present(j) == expireAt[j] # Absent /\ clock <= expireAt[j]

\* authenticate() up to the point where _verify_jwt reads the clock.
Authenticate(c, a) == /\ pc[c] = "idle"
                      /\ GoTo(c, "decode")
                      /\ assertion' = [assertion EXCEPT ![c] = a]
                      /\ now' = [now EXCEPT ![c] = Time(c)]
                      /\ UNCHANGED <<clock, expireAt, ttl, history>>

\* jwt.decode reads the clock again; the age of iat is taken at the first reading.
Decodable(c, a) == a.exp > Time(c) - Skew /\ a.iat <= Time(c) + Skew

Decode(c) == /\ pc[c] = "decode"
             /\ Decodable(c, assertion[c])
             /\ now[c] - assertion[c].iat <= MaxLifetime + Skew
             /\ GoTo(c, "decoded")
             /\ now' = [now EXCEPT ![c] = 0]
             /\ UNCHANGED <<clock, expireAt, assertion, ttl, history>>

\* Mutants of Ttl: no leeway in it, and a lifetime that may already be over.
Ttl_NoLeeway(c, exp) == IF exp > Time(c) THEN exp - Time(c) ELSE 0
Ttl_Negative(c, exp) == exp - Time(c) + Skew

\* max(0.0, exp - now) + JWT_MAX_CLOCK_SKEW_SECONDS
Ttl(c, exp) == (IF exp > Time(c) THEN exp - Time(c) ELSE 0) + Skew

\* _check_and_record_jti_redis up to its await.
Prepare(c) == /\ pc[c] = "decoded"
              /\ GoTo(c, "set")
              /\ ttl' = [ttl EXCEPT ![c] = Ttl(c, assertion[c].exp)]
              /\ UNCHANGED <<clock, expireAt, assertion, now, history>>

\* When the clock of the call's host shows exp + Skew.
Horizon(a, c) == a.exp + Skew - Drift[c]

\* Mutant of SetKey: PX without NX.
SetKey_Always(c) == LET j == assertion[c].jti IN
    expireAt' = [expireAt EXCEPT ![j] = clock + ttl[c]]

\* SET key "1" NX PX ttl, of a key that is not there.
SetKey(c) == LET j == assertion[c].jti IN
    ~Present(j) /\ expireAt' = [expireAt EXCEPT ![j] = clock + ttl[c]]

SetNx(c) == LET a == assertion[c] IN
    /\ pc[c] = "set"
    /\ SetKey(c)
    /\ accepted' = accepted \cup {<<a, c>>}
    /\ protectedUntil' = [protectedUntil EXCEPT ![a.jti] = Horizon(a, c)]
    /\ Return(c)
    /\ UNCHANGED clock

\* Redis executes the SET but the caller never learns: the connection broke, the
\* task was cancelled or the process died.  The caller, if alive, raises.
SetUnheard(c) == /\ pc[c] = "set"
                 /\ SetKey(c)
                 /\ Return(c)
                 /\ UNCHANGED <<clock, history>>

\* The call ends without a word to Redis, or Redis says the key is there: a
\* failed check, a replay, an error of the client library, a crash.
GiveUp(c) == /\ pc[c] # "idle"
             /\ Return(c)
             /\ UNCHANGED <<clock, expireAt, history>>

Tick == /\ clock < MaxTime
        /\ clock' = clock + 1
        /\ UNCHANGED <<expireAt, pc, assertion, now, ttl, history>>

Next == \/ \E c \in Calls : \/ \E a \in Assertions : Authenticate(c, a)
                            \/ Decode(c) \/ Prepare(c)
                            \/ SetNx(c) \/ SetUnheard(c) \/ GiveUp(c)
        \/ Tick

Spec == Init /\ [][Next]_vars

-----------------------------------------------------------------------------
\* The properties.

Once == INSTANCE AcceptOnce WITH Durable <- TRUE

\* Replay protection as this cache gives it, across processes, crashes and lost
\* replies: an identifier is accepted again only when the clock of the host that
\* accepted it shows more than exp + Skew (_check_and_record_jti_redis).
ImplementsAcceptOnce == Once!Spec

\* A SET under way will keep its key up to the horizon.
PendingCovers == \A c \in Calls : pc[c] = "set" => clock + ttl[c] >= Horizon(assertion[c], c)

\* Until its horizon has passed, the key of an accepted assertion is there, and
\* it is the key of the identifier's last acceptance that says so.
KeyCovers == \A h \in accepted :
    LET a == h[1] c == h[2] IN
    clock <= Horizon(a, c) => expireAt[a.jti] # Absent /\ expireAt[a.jti] >= Horizon(a, c)

LastCovers == \A j \in Jtis :
    protectedUntil[j] # Absent => expireAt[j] # Absent /\ expireAt[j] >= protectedUntil[j]

\* Why the cache keeps its promise (the inductive invariant of the proof).
KeyInv == PendingCovers /\ KeyCovers /\ LastCovers

\* As long as jwt.decode lets an accepted assertion pass again, in its leeway
\* too, the key that betrays the replay is there: the TTL of line 156 outlasts
\* the leeway of line 244, wherever the clock is not behind the first host's.
ReplayIsBetrayed == \A h \in accepted, c \in Calls :
    LET a == h[1] IN
    Drift[c] >= Drift[h[2]] /\ Decodable(c, a) => Present(a.jti)
=============================================================================
