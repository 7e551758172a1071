-------------------------- MODULE RateLimitMemory --------------------------
(***************************************************************************)
(* SlidingWindowRateLimiter without Redis (rate_limiting.py): the list of  *)
(* admission times of each client, read and written without a lock.  Under *)
(* one event loop (Threads is a singleton) a call is never interrupted by  *)
(* another; with more threads, calls interleave between statements.  Time  *)
(* is in ticks, several to the second, so that int() has something to cut  *)
(* off.                                                                    *)
(***************************************************************************)
EXTENDS Integers, FiniteSets

CONSTANTS Threads, Clients, NoClient,
          Limit,              \* requests_per_window
          Second,             \* ticks per second
          Window,             \* window_seconds, in ticks
          Absent,             \* no advice is outstanding
          MaxTime, MaxAdmitted  \* bounds of the exploration: ticks, and admissions in all

ASSUME LimiterAssumption == /\ Limit \in Nat \ {0} /\ Second \in Nat \ {0}
                            /\ Window \in Nat /\ Window % Second = 0
                            /\ MaxTime \in Nat /\ MaxAdmitted \in Nat
                            /\ NoClient \notin Clients /\ Absent \notin Int

VARIABLES clock,
          requests,  \* _clients[c], as a set: equal times differ in their id
          pc, client, now, kept,  \* per thread: the call's position and its locals
          \* History, read by no action: every admission of a client, and the
          \* time get_retry_after last told it to come back, if it was not
          \* admitted since.
          admitted, advice

locals == <<client, now, kept>>
vars == <<clock, requests, pc, locals, admitted, advice>>

Entry == [at : Nat, id : Nat]

TypeOK == /\ clock \in Nat
          /\ requests \in [Clients -> SUBSET Entry]
          /\ pc \in [Threads -> {"idle", "filter", "assign", "check", "append"}]
          /\ client \in [Threads -> Clients \cup {NoClient}]
          /\ \A t \in Threads : pc[t] # "idle" => client[t] \in Clients
          /\ now \in [Threads -> 0..clock]
          /\ kept \in [Threads -> SUBSET Entry]
          /\ admitted \in [Clients -> SUBSET Entry]
          /\ advice \in [Clients -> Int \cup {Absent}]

Init == /\ clock = 0
        /\ requests = [c \in Clients |-> {}]
        /\ pc = [t \in Threads |-> "idle"]
        /\ client = [t \in Threads |-> NoClient]
        /\ now = [t \in Threads |-> 0]
        /\ kept = [t \in Threads |-> {}]
        /\ admitted = [c \in Clients |-> {}]
        /\ advice = [c \in Clients |-> Absent]

-----------------------------------------------------------------------------
GoTo(t, label) == pc' = [pc EXCEPT ![t] = label]

Return(t) == /\ GoTo(t, "idle")
             /\ client' = [client EXCEPT ![t] = NoClient]
             /\ now' = [now EXCEPT ![t] = 0]
             /\ kept' = [kept EXCEPT ![t] = {}]

\* Mutant of Time: rounded up to a whole second.
Time_Rounded == ((clock + Second - 1) \div Second) * Second

Time == clock

\* is_allowed(c): now = time.time()
Call(t, c) == /\ pc[t] = "idle"
              /\ Cardinality(UNION {{<<d, e>> : e \in admitted[d]} : d \in Clients}) < MaxAdmitted
              /\ GoTo(t, "filter")
              /\ client' = [client EXCEPT ![t] = c]
              /\ now' = [now EXCEPT ![t] = Time]
              /\ UNCHANGED <<clock, requests, kept, admitted, advice>>

\* Mutants of InWindow: the window ends a tick early, or never.
InWindow_Short(time, e) == time - e.at < Window - 1
InWindow_Closed(time, e) == time - e.at <= Window

InWindow(time, e) == time - e.at < Window

\* The list comprehension over the list as it is now ...
Filter(t) == /\ pc[t] = "filter"
             /\ GoTo(t, "assign")
             /\ kept' = [kept EXCEPT ![t] = {e \in requests[client[t]] : InWindow(now[t], e)}]
             /\ UNCHANGED <<clock, requests, client, now, admitted, advice>>

\* ... replaces whatever list is there when it is done.
Assign(t) == /\ pc[t] = "assign"
             /\ GoTo(t, "check")
             /\ requests' = [requests EXCEPT ![client[t]] = kept[t]]
             /\ kept' = [kept EXCEPT ![t] = {}]
             /\ UNCHANGED <<clock, client, now, admitted, advice>>

\* Mutant of Full: one more.
Full_Over(c) == Cardinality(requests[c]) > Limit

Full(c) == Cardinality(requests[c]) >= Limit

Deny(t) == /\ pc[t] = "check"
           /\ Full(client[t])
           /\ Return(t)
           /\ UNCHANGED <<clock, requests, admitted, advice>>

Admit(t) == /\ pc[t] = "check"
            /\ ~Full(client[t])
            /\ GoTo(t, "append")
            /\ UNCHANGED <<clock, requests, locals, admitted, advice>>

Record(t) ==
    LET c == client[t]
        e == [at |-> now[t], id |-> Cardinality(admitted[c])]
    IN /\ pc[t] = "append"
       /\ requests' = [requests EXCEPT ![c] = @ \cup {e}]
       /\ admitted' = [admitted EXCEPT ![c] = @ \cup {e}]
       /\ advice' = [advice EXCEPT ![c] = Absent]
       /\ Return(t)
       /\ UNCHANGED clock

\* Mutant of Seconds: truncated, nothing added.
Seconds_Truncated(ticks) == IF ticks < Second THEN 1 ELSE ticks \div Second

\* Mutant of Seconds: truncated, and not even a second at least.
Seconds_Zero(ticks) == IF ticks < 0 THEN 0 ELSE ticks \div Second

\* max(int(ticks) + 1, 1): \div rounds down where int() cuts off, but below zero
\* max has the last word.
Seconds(ticks) == IF ticks < 0 THEN 1 ELSE (ticks \div Second) + 1

\* get_retry_after(c): nothing is filtered; 0 if nothing is recorded.
Answer(t, c, seconds) == /\ pc[t] = "idle"
                         /\ advice' = [advice EXCEPT ![c] = clock + seconds * Second]
                         /\ UNCHANGED <<clock, requests, pc, locals, admitted>>

RetryNone(t, c) == requests[c] = {} /\ Answer(t, c, 0)

RetryAfter(t, c) == \E oldest \in requests[c] :
    /\ \A e \in requests[c] : oldest.at <= e.at
    /\ Answer(t, c, Seconds(Window - (clock - oldest.at)))

Tick == /\ clock < MaxTime
        /\ clock' = clock + 1
        /\ UNCHANGED <<requests, pc, locals, admitted, advice>>

Next == \/ \E t \in Threads : \/ \E c \in Clients : \/ Call(t, c)
                                                    \/ RetryNone(t, c)
                                                    \/ RetryAfter(t, c)
                              \/ Filter(t) \/ Assign(t)
                              \/ Deny(t) \/ Admit(t) \/ Record(t)
        \/ Tick

Spec == Init /\ [][Next]_vars

-----------------------------------------------------------------------------
\* The properties.  All but TypeOK are about one event loop.

\* No interval as long as the window holds more than Limit admissions of one
\* client, although the list forgets them.
WindowBound ==
    \A c \in Clients : \A s \in 0..clock :
        Cardinality({e \in admitted[c] : s <= e.at /\ e.at < s + Window}) <= Limit

Denied(t) == pc[t] = "check" /\ pc'[t] = "idle"

\* A client is turned away only if Limit of its own requests were admitted
\* within the window: neither old entries nor other clients count.
DenialsJustified ==
    [][\A t \in Threads : Denied(t) =>
          Cardinality({e \in admitted[client[t]] : now[t] - e.at < Window}) >= Limit]_vars

\* A client that waits as long as get_retry_after told it to is admitted, unless
\* another request in its name was admitted in the meantime.
RetryHonest ==
    [][\A t \in Threads : Denied(t) =>
          advice[client[t]] = Absent \/ now[t] < advice[client[t]]]_vars

\* The calls under way.
Waiting == {[caller |-> t, client |-> client[t], at |-> now[t]] : t \in {t \in Threads : pc[t] # "idle"}}

Promise == INSTANCE SlidingWindow WITH Callers <- Threads, Patience <- Window + Second,
                                       waiting <- Waiting

\* Although the list forgets what has left the window, every call is judged as if
\* nothing were forgotten, and no advice is for later than a window and a second.
ImplementsSlidingWindow == Promise!Spec
=============================================================================
