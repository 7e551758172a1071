----------------------------- MODULE DeviceFlow -----------------------------
(***************************************************************************)
(* Polling for one device code (device.py).  The module decides, and the   *)
(* host keeps the record: for each poll it loads the record, asks          *)
(* evaluate_device_poll, updates last_poll_at as the docstrings tell it to *)
(* and answers, so that the polls of a device that retries overlap.        *)
(* Meanwhile the user decides, the code expires, and strangers present it  *)
(* with another client_id, or a code of their own.                         *)
(***************************************************************************)
EXTENDS Integers, FiniteSets

CONSTANTS Polls,               \* the polls that may be in flight
          Interval, ExpiresAt, \* of the record
          Never,               \* last_poll_at is None
          MaxTime              \* bound of the exploration

ASSUME FlowAssumption == /\ IsFiniteSet(Polls)
                         /\ Interval \in Nat \ {0} /\ ExpiresAt \in Nat
                         /\ Never \notin Int
                         /\ MaxTime \in Nat

VARIABLES clock,
          savesSlowed,     \* which docstring the host follows, see Save
          status, lastPoll, \* the record
          \* Per poll: position, whether it is the device's and not a stranger's,
          \* the record it loaded, the outcome, its "now".
          step, own, seen, decision, at,
          over,            \* the device was given a final answer
          \* History, read by no action: since when the device may poll
          \* politely, whether a poll is polite, and the polls that passed the
          \* interval check and were recorded, by the time of their decision
          \* and, as several may have the same, a number.
          told, polite, passes

record == <<status, lastPoll>>
calls == <<step, own, seen, decision, at, polite>>
vars == <<clock, savesSlowed, record, calls, over, told, passes>>

DeviceCodeStatus == {"pending", "approved", "denied"}
\* The record's status is a str; "other" is any the library does not know.
Statuses == DeviceCodeStatus \cup {"other"}
DevicePollDecisionKind == {"approved", "authorization_pending", "access_denied",
                           "slow_down", "expired_token", "invalid_grant"}
DeviceCodeRecord == [status : Statuses, lastPoll : Nat \cup {Never}]

\* No poll is recorded later than it was, nor a decision before its time.
TypeOK == /\ clock \in 0..MaxTime /\ savesSlowed \in BOOLEAN
          /\ status \in Statuses
          /\ lastPoll \in 0..clock \cup {Never}
          /\ step \in [Polls -> {"idle", "loaded", "decided"}]
          /\ own \in [Polls -> BOOLEAN]
          /\ seen \in [Polls -> DeviceCodeRecord]
          /\ decision \in [Polls -> DevicePollDecisionKind]
          /\ at \in [Polls -> 0..clock]
          /\ over \in BOOLEAN
          /\ told \in Nat /\ polite \in [Polls -> BOOLEAN]
          /\ passes \subseteq [at : 0..clock, nth : Nat]

NewRecord == [status |-> "pending", lastPoll |-> Never]

Init == /\ clock = 0
        /\ savesSlowed \in BOOLEAN
        /\ status = NewRecord.status /\ lastPoll = NewRecord.lastPoll
        /\ step = [p \in Polls |-> "idle"]
        /\ own = [p \in Polls |-> FALSE]
        /\ seen = [p \in Polls |-> NewRecord]
        /\ decision = [p \in Polls |-> "invalid_grant"]
        /\ at = [p \in Polls |-> 0]
        /\ over = FALSE
        /\ told = 0
        /\ polite = [p \in Polls |-> FALSE]
        /\ passes = {}

-----------------------------------------------------------------------------
\* evaluate_device_poll

\* Mutant of TooSoon: the interval ends a tick early.
TooSoon_Short(r, now) == r.lastPoll # Never /\ now - r.lastPoll < Interval - 1

TooSoon(r, now) == r.lastPoll # Never /\ now - r.lastPoll < Interval

Outcome(r) == CASE r.status = "pending" -> "authorization_pending"
                [] r.status = "denied" -> "access_denied"
                [] r.status = "approved" -> "approved"
                [] OTHER -> "invalid_grant"

\* Mutants of Decision: the interval is checked before the expiry, or before the
\* client.
Decision_LateExpiry(mine, r, now) ==
    IF ~mine THEN "invalid_grant"
    ELSE IF TooSoon(r, now) THEN "slow_down"
    ELSE IF ExpiresAt < now THEN "expired_token"
    ELSE Outcome(r)
Decision_LateClient(mine, r, now) ==
    IF ExpiresAt < now THEN "expired_token"
    ELSE IF TooSoon(r, now) THEN "slow_down"
    ELSE IF ~mine THEN "invalid_grant"
    ELSE Outcome(r)

\* The first test that fails decides; a stranger's device_code or client_id is
\* not the record's.
Decision(mine, r, now) ==
    IF ~mine THEN "invalid_grant"
    ELSE IF ExpiresAt < now THEN "expired_token"
    ELSE IF TooSoon(r, now) THEN "slow_down"
    ELSE Outcome(r)

-----------------------------------------------------------------------------
\* The host's token endpoint

Goto(p, label) == step' = [step EXCEPT ![p] = label]

Load(p, mine) ==
           /\ step[p] = "idle"
           /\ mine => ~over
           /\ Goto(p, "loaded")
           /\ own' = [own EXCEPT ![p] = mine]
           /\ seen' = [seen EXCEPT ![p] = [status |-> status, lastPoll |-> lastPoll]]
           /\ polite' = [polite EXCEPT ![p] = mine /\ told <= clock]
           /\ UNCHANGED <<clock, savesSlowed, record, decision, at, over, told, passes>>

\* What the poll loaded is not used any more.
Forget(p) == /\ seen' = [seen EXCEPT ![p] = NewRecord]
             /\ polite' = [polite EXCEPT ![p] = FALSE]

Evaluate(p) == /\ step[p] = "loaded"
               /\ Goto(p, "decided")
               /\ decision' = [decision EXCEPT ![p] = Decision(own[p], seen[p], clock)]
               /\ at' = [at EXCEPT ![p] = clock]
               /\ Forget(p)
               /\ UNCHANGED <<clock, savesSlowed, record, own, over, told, passes>>

\* The poll is over and leaves nothing but the device's duty to wait.
End(p) == /\ Goto(p, "idle")
          /\ Forget(p)
          /\ own' = [own EXCEPT ![p] = FALSE]
          /\ decision' = [decision EXCEPT ![p] = "invalid_grant"]
          /\ at' = [at EXCEPT ![p] = 0]
          /\ told' = IF own[p] THEN clock + Interval ELSE told

\* last_poll_at = now, unless the decision was INVALID_GRANT; the docstring of
\* DeviceCodeRecord excepts SLOW_DOWN too, that of evaluate_device_poll does not.
Moves(p) == \/ decision[p] \notin {"invalid_grant", "slow_down"}
            \/ decision[p] = "slow_down" /\ savesSlowed

Passed(p) == decision[p] \in {"authorization_pending", "approved", "access_denied"}

CountPass(p) == passes' = IF ~Passed(p) THEN passes ELSE passes \cup
    {[at |-> at[p], nth |-> Cardinality({e \in passes : e.at = at[p]})]}

\* Mutant of Save: last_poll_at taken for the time of the next poll.
Save_Next(p) == /\ step[p] = "decided"
                /\ lastPoll' = IF Moves(p) THEN at[p] + Interval ELSE lastPoll
                /\ CountPass(p)

Save(p) == /\ step[p] = "decided"
           /\ lastPoll' = IF Moves(p) THEN at[p] ELSE lastPoll
           /\ CountPass(p)

\* The record is saved and the answer sent ...
Answer(p) == /\ Save(p) /\ End(p)
             /\ over' = (over \/ (own[p] /\ decision[p] \notin {"authorization_pending", "slow_down"}))
             /\ UNCHANGED <<clock, savesSlowed, status>>

\* ... or the answer is lost, or the host fails before it.
Lose(p) == /\ Save(p) \/ (step[p] # "idle" /\ UNCHANGED <<lastPoll, passes>>)
           /\ End(p)
           /\ UNCHANGED <<clock, savesSlowed, status, over>>

\* The user approves or denies.
Decide(verdict) == /\ status = "pending" /\ clock <= ExpiresAt
                   /\ status' = verdict
                   /\ UNCHANGED <<clock, savesSlowed, lastPoll, calls, over, told, passes>>

\* The host gives the record a status of its own, say, that its code was redeemed.
Retire == /\ status # "other"
          /\ status' = "other"
          /\ UNCHANGED <<clock, savesSlowed, lastPoll, calls, over, told, passes>>

Tick == /\ clock < MaxTime
        /\ clock' = clock + 1
        /\ UNCHANGED <<savesSlowed, record, calls, over, told, passes>>

Next == \/ \E p \in Polls : (\E mine \in BOOLEAN : Load(p, mine)) \/ Evaluate(p) \/ Answer(p) \/ Lose(p)
        \/ \E verdict \in {"approved", "denied"} : Decide(verdict)
        \/ Retire
        \/ Tick

Spec == Init /\ [][Next]_vars

\* Time passes, the host's calls return, the device polls until it is told to stop,
\* and not all of its polls are lost.
FairSpec == /\ Spec /\ WF_vars(Tick)
            /\ \A p \in Polls : WF_vars(Evaluate(p) \/ Answer(p) \/ Lose(p))
            /\ SF_vars(\E p \in Polls : Load(p, TRUE))
            /\ SF_vars(\E p \in Polls : own[p] /\ Evaluate(p))
            /\ SF_vars(\E p \in Polls : own[p] /\ Answer(p))

-----------------------------------------------------------------------------
\* The properties.

\* A device that polls Interval or more after its last answer gets through,
\* whichever docstring the host follows, whatever retries, lost answers and
\* strangers' polls came before or come meanwhile, and even if polls it has had no
\* answer to are still in flight.  INVALID_GRANT it hears only of a status that is
\* the host's own.
PoliteServed ==
    [][\A p \in Polls : step[p] = "loaded" /\ step'[p] = "decided" /\ polite[p]
          => /\ decision'[p] # "slow_down"
             /\ decision'[p] = "invalid_grant" => seen[p].status \notin DeviceCodeStatus]_vars

\* Polls that overlap pass the interval check on the same record, and each that
\* saves late turns last_poll_at back and lets the others through once more: one,
\* two, up to all that may be in flight.  More never pass in an interval.
PassesBounded ==
    \A s \in 0..clock :
        Cardinality({e \in passes : s <= e.at /\ e.at < s + Interval})
            <= (Cardinality(Polls) * (Cardinality(Polls) + 1)) \div 2

\* However fast it polls, and although every poll may move last_poll_at, so that it
\* never gets through, a device is told in the end that its code was approved,
\* denied, has expired or is not valid: the expiry is checked before the interval.
PollingEnds == <>over
=============================================================================
