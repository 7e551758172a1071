---------------------------- MODULE Registration ----------------------------
(***************************************************************************)
(* The registration endpoint (registration/handler.py) with its rate       *)
(* limiter in memory, on one event loop: requests of many callers, each    *)
(* admitted or turned away by the limiter of RateLimitMemory, which other  *)
(* endpoints of the server may use too; then a client is created in a      *)
(* registry, the hooks run, and the client's credentials are answered.     *)
(* The coroutines of the limiter never suspend; from there on a request    *)
(* may be overtaken by others, and end, at every await.                    *)
(***************************************************************************)
EXTENDS RateLimitMemory

CONSTANTS Requests, NoRequest, NoEntry,
          Hooks  \* the number of post_register_hooks

ASSUME HandlerAssumption == NoRequest \notin Requests /\ NoEntry \notin Entry /\ Hooks \in Nat

VARIABLES turn,      \* the request that is in its limiter calls
          stage,     \* where each request is
          request,   \* its caller_ip, the admission it got, its client's id and the
                     \* hooks that are left
          registry,  \* the clients that were created, with the admission they
                     \* were created under (history)
          settled    \* history, read by no action: the ids whose credentials were
                     \* answered, or could not be for a failure that is not the handler's

handler == <<turn, stage, request, registry, settled>>

Request == [ip : Clients \cup {NoClient}, entry : Entry \cup {NoEntry}, id : Nat, left : 0..Hooks]
RegisteredClient == [id : Nat, ip : Clients, entry : Entry]

\* The handler's variables have their types; a request that got past the limiter
\* has an admission, and one that got past the registry a client in it.
HandlerTypeOK ==
    /\ turn \in Requests \cup {NoRequest}
    /\ stage \in [Requests -> {"idle", "limit", "denied", "body", "hooks"}]
    /\ request \in [Requests -> Request]
    /\ registry \subseteq RegisteredClient
    /\ settled \subseteq {k.id : k \in registry}
    /\ \A r \in Requests :
          /\ stage[r] # "idle" => request[r].ip \in Clients
          /\ stage[r] \in {"body", "hooks"} => request[r].entry \in Entry
          /\ stage[r] = "hooks" => request[r].id \in {k.id : k \in registry}

Blank == [ip |-> NoClient, entry |-> NoEntry, id |-> 0, left |-> 0]

HandlerInit == /\ Init
               /\ turn = NoRequest
               /\ stage = [r \in Requests |-> "idle"]
               /\ request = [r \in Requests |-> Blank]
               /\ registry = {}
               /\ settled = {}

-----------------------------------------------------------------------------
\* Nobody is in a call of the limiter, so that other coroutines may run.
LoopFree == turn = NoRequest /\ \A t \in Threads : pc[t] = "idle"

At(r, label) == stage[r] = label /\ LoopFree

Goto(r, label) == stage' = [stage EXCEPT ![r] = label]

End(r) == /\ Goto(r, "idle")
          /\ request' = [request EXCEPT ![r] = Blank]

\* rate_limiter.is_allowed(caller_ip) is called ...
Receive(r, c) == /\ At(r, "idle")
                 /\ \E t \in Threads : Call(t, c)
                 /\ turn' = r
                 /\ Goto(r, "limit")
                 /\ request' = [request EXCEPT ![r].ip = c]
                 /\ UNCHANGED <<registry, settled>>

\* ... and answers True: the handler waits for the body ...
Admitted(r) == /\ turn = r
               /\ \E t \in Threads : Record(t)
               /\ turn' = NoRequest
               /\ Goto(r, "body")
               /\ \E e \in admitted'[request[r].ip] \ admitted[request[r].ip] :
                     request' = [request EXCEPT ![r].entry = e]
               /\ UNCHANGED <<registry, settled>>

\* ... or False ...
Denial(r) == /\ turn = r
             /\ \E t \in Threads : Deny(t)
             /\ Goto(r, "denied")
             /\ UNCHANGED <<turn, request, registry, settled>>

\* Mutant of TurnAway: no "return" after the refusal.
TurnAway_GoOn(r) == /\ stage[r] = "denied"
                    /\ \E t \in Threads : \E e \in admitted[request[r].ip] :
                          /\ RetryAfter(t, request[r].ip)
                          /\ request' = [request EXCEPT ![r].entry = e]
                    /\ turn' = NoRequest
                    /\ Goto(r, "body")
                    /\ UNCHANGED <<registry, settled>>

\* ... and get_retry_after says what the 429 tells the caller: a Retry-After
\* header unless it is 0 (rate_limit_exceeded in responses.py).
TurnAway(r) == /\ stage[r] = "denied"
               /\ \E t \in Threads : LET c == request[r].ip IN
                     RetryNone(t, c) \/ RetryAfter(t, c)
               /\ turn' = NoRequest
               /\ End(r)
               /\ UNCHANGED <<registry, settled>>

-----------------------------------------------------------------------------
\* The body is no JSON object (400), or something raises or is cancelled: the
\* disconnected caller, a rewriter, the registry (500).
Fail(r) == /\ At(r, "body")
           /\ End(r)
           /\ UNCHANGED <<vars, turn, registry, settled>>

NewClient(r) == [id |-> Cardinality(registry), ip |-> request[r].ip, entry |-> request[r].entry]

\* Mutant of Create: the registry answers without storing the client.
Create_Unstored(r) == /\ At(r, "body")
                      /\ Goto(r, "hooks")
                      /\ request' = [request EXCEPT ![r].id = NewClient(r).id, ![r].left = Hooks]
                      /\ UNCHANGED <<vars, turn, registry, settled>>

\* The body is a JSON object, the host's rewriters and name factory accept it and
\* registry.create_client makes a client with an id of its own: between the body's
\* arrival and the call of the registry nothing suspends.
Create(r) == /\ At(r, "body")
             /\ registry' = registry \cup {NewClient(r)}
             /\ Goto(r, "hooks")
             /\ request' = [request EXCEPT ![r].id = NewClient(r).id, ![r].left = Hooks]
             /\ UNCHANGED <<vars, turn, settled>>

\* A registry elsewhere has created the client, but raises, or the request is
\* cancelled before it hears of it.
CreateUnheard(r) == /\ At(r, "body")
                    /\ registry' = registry \cup {NewClient(r)}
                    /\ settled' = settled \cup {NewClient(r).id}
                    /\ End(r)
                    /\ UNCHANGED <<vars, turn>>

\* Mutant of RunHook: what a hook raises ends the request.
RunHook_Fatal(r) == /\ At(r, "hooks")
                    /\ request[r].left > 0
                    /\ End(r)
                    /\ UNCHANGED <<vars, turn, registry, settled>>

\* A hook returns, or raises what the handler only logs.
RunHook(r) == /\ At(r, "hooks")
              /\ request[r].left > 0
              /\ request' = [request EXCEPT ![r].left = @ - 1]
              /\ UNCHANGED <<vars, turn, stage, registry, settled>>

\* 201, with the credentials.
Respond(r) == /\ At(r, "hooks")
              /\ request[r].left = 0
              /\ settled' = settled \cup {request[r].id}
              /\ End(r)
              /\ UNCHANGED <<vars, turn, registry>>

\* Cancelled in a hook: CancelledError is no Exception.
Abandon(r) == /\ At(r, "hooks")
              /\ request[r].left > 0
              /\ settled' = settled \cup {request[r].id}
              /\ End(r)
              /\ UNCHANGED <<vars, turn, registry>>

Handle(r) == \/ \E c \in Clients : Receive(r, c)
             \/ Admitted(r) \/ Denial(r) \/ TurnAway(r)
             \/ Fail(r) \/ Create(r) \/ CreateUnheard(r)
             \/ RunHook(r) \/ Respond(r) \/ Abandon(r)

\* Another endpoint's calls of the limiter.
Elsewhere(t) == /\ turn = NoRequest
                /\ \/ \E c \in Clients : Call(t, c) \/ RetryNone(t, c) \/ RetryAfter(t, c)
                   \/ Deny(t) \/ Record(t)
                /\ UNCHANGED handler

\* Steps of the limiter that are the same for every caller.
Within(t) == (Filter(t) \/ Assign(t) \/ Admit(t)) /\ UNCHANGED handler

HandlerNext == \/ \E r \in Requests : Handle(r)
               \/ \E t \in Threads : Elsewhere(t) \/ Within(t)
               \/ Tick /\ UNCHANGED handler

HandlerSpec == HandlerInit /\ [][HandlerNext]_<<vars, handler>>

-----------------------------------------------------------------------------
\* The properties, besides those of the limiter.

\* However requests overlap, fail and wait, no window holds more admissions that
\* led to a client of one caller than the limit: no admission is used twice, and no
\* client is created without one.
RegistrationsLimited ==
    \A c \in Clients : \A s \in 0..clock :
        Cardinality({k \in registry : k.ip = c /\ s <= k.entry.at /\ k.entry.at < s + Window})
            <= Limit

\* Whatever the hooks do, a client that was created is answered to its caller or
\* will be, unless the registry raised after it had created it or the request
\* was cancelled.
CredentialsDelivered ==
    \A k \in registry : \/ k.id \in settled
                        \/ \E r \in Requests : stage[r] = "hooks" /\ request[r].id = k.id

\* A 429 always says when to come back: between is_allowed and get_retry_after
\* the list cannot become empty, and the answer is never 0, which would leave
\* the header out.
RetryAfterGiven ==
    [][\A r \in Requests : stage[r] = "denied" /\ stage'[r] = "idle"
          => advice'[request[r].ip] > clock]_<<vars, handler>>
=============================================================================
