-------------------------- MODULE DeviceFlowProofs --------------------------
(***************************************************************************)
(* Proofs about polling for a device code, for any number of polls in      *)
(* flight, any interval and expiry, and hosts that follow either           *)
(* docstring: types, the service of a device that keeps to the interval,   *)
(* and how many polls an interval lets through.                            *)
(***************************************************************************)
EXTENDS DeviceFlow, FiniteSetTheorems, TLAPS

LEMMA ConstantFacts ==
        /\ IsFiniteSet(Polls) /\ Interval \in Nat \ {0} /\ ExpiresAt \in Nat
        /\ Never \notin Int /\ MaxTime \in Nat
  BY FlowAssumption

-----------------------------------------------------------------------------
\* Types.

LEMMA DecisionType ==
        ASSUME NEW mine \in BOOLEAN, NEW r \in DeviceCodeRecord, NEW now \in Nat
        PROVE  Decision(mine, r, now) \in DevicePollDecisionKind
<1>1. Outcome(r) \in DevicePollDecisionKind
  BY DEF Outcome, DeviceCodeRecord, Statuses, DeviceCodeStatus, DevicePollDecisionKind
<1>2. QED
  BY <1>1 DEF Decision, DevicePollDecisionKind

\* What a poll passes on is numbered with a natural number.
Base == TypeOK /\ IsFiniteSet(passes)

NewPass(p) == [at |-> at[p], nth |-> Cardinality({e \in passes : e.at = at[p]})]

LEMMA PassType ==
        ASSUME Base, NEW p \in Polls
        PROVE  /\ NewPass(p) \in [at : 0..clock, nth : Nat] /\ NewPass(p).at = at[p]
               /\ IsFiniteSet(passes \cup {NewPass(p)})
<1>1. IsFiniteSet({e \in passes : e.at = at[p]})
  BY FS_Subset DEF Base
<1>2. Cardinality({e \in passes : e.at = at[p]}) \in Nat
  BY <1>1, FS_CardinalityType
<1>3. IsFiniteSet(passes \cup {NewPass(p)})
  BY FS_AddElement DEF Base
<1>4. at[p] \in 0..clock
  BY DEF Base, TypeOK
<1>5. QED
  BY <1>2, <1>3, <1>4 DEF NewPass

\* The poll that ends is Answer's or Lose's; its record may be saved.
Saved(p) == Save(p) \/ (step[p] # "idle" /\ UNCHANGED <<lastPoll, passes>>)
Ends(p) == Saved(p) /\ End(p) /\ UNCHANGED <<clock, savesSlowed, status>> /\ over' \in BOOLEAN

LEMMA PollEnds ==
        ASSUME Base, NEW p \in Polls, Answer(p) \/ Lose(p)
        PROVE  Ends(p)
  BY DEF Answer, Lose, Ends, Saved, Base, TypeOK

LEMMA SaveTypes ==
        ASSUME Base, NEW p \in Polls, Saved(p)
        PROVE  /\ lastPoll' \in 0..clock \cup {Never}
               /\ passes' \subseteq [at : 0..clock, nth : Nat] /\ IsFiniteSet(passes')
<1>1. CASE Save(p)
  <2>1. passes' = passes \/ passes' = passes \cup {NewPass(p)}
    BY <1>1 DEF Save, CountPass, NewPass
  <2>2. lastPoll' = lastPoll \/ lastPoll' = at[p]
    BY <1>1 DEF Save
  <2>3. lastPoll' \in 0..clock \cup {Never}
    BY <2>2 DEF Base, TypeOK
  <2>4. QED
    BY <2>1, <2>3, PassType DEF Base, TypeOK
<1>2. CASE UNCHANGED <<lastPoll, passes>>
  BY <1>2 DEF Base, TypeOK
<1>3. QED
  BY <1>1, <1>2 DEF Saved

LEMMA BaseStep == Base /\ [Next]_vars => Base'
<1> SUFFICES ASSUME Base, [Next]_vars PROVE Base'
  OBVIOUS
<1> USE ConstantFacts
<1>1. ASSUME NEW p \in Polls, NEW mine \in BOOLEAN, Load(p, mine) PROVE Base'
  <2>1. [status |-> status, lastPoll |-> lastPoll] \in DeviceCodeRecord
    BY DEF Base, TypeOK, DeviceCodeRecord
  <2>2. seen' \in [Polls -> DeviceCodeRecord]
    BY <1>1, <2>1 DEF Load, Base, TypeOK
  <2>3. QED
    BY <1>1, <2>2 DEF Load, Goto, record, Base, TypeOK
<1>2. ASSUME NEW p \in Polls, Evaluate(p) PROVE Base'
  <2>1. Decision(own[p], seen[p], clock) \in DevicePollDecisionKind
    BY DecisionType DEF Base, TypeOK
  <2>2. NewRecord \in DeviceCodeRecord
    BY DEF NewRecord, DeviceCodeRecord, Statuses, DeviceCodeStatus
  <2>3. QED
    BY <1>2, <2>1, <2>2 DEF Evaluate, Forget, Goto, record, Base, TypeOK
<1>3. ASSUME NEW p \in Polls, Ends(p) PROVE Base'
  <2>1. /\ lastPoll' \in 0..clock \cup {Never}
        /\ passes' \subseteq [at : 0..clock, nth : Nat] /\ IsFiniteSet(passes')
    BY <1>3, SaveTypes DEF Ends
  <2>2. NewRecord \in DeviceCodeRecord /\ "invalid_grant" \in DevicePollDecisionKind
    BY DEF NewRecord, DeviceCodeRecord, Statuses, DeviceCodeStatus, DevicePollDecisionKind
  <2>3. clock + Interval \in Nat /\ 0 \in 0..clock
    BY DEF Base, TypeOK
  <2>4. QED
    BY <1>3, <2>1, <2>2, <2>3 DEF Ends, End, Forget, Goto, Base, TypeOK
<1>4. ASSUME (\E verdict \in {"approved", "denied"} : Decide(verdict)) \/ Retire PROVE Base'
  BY <1>4 DEF Decide, Retire, calls, Base, TypeOK, Statuses, DeviceCodeStatus
<1>5. CASE Tick
  <2>1. clock' = clock + 1 /\ clock' \in 0..MaxTime
    BY <1>5 DEF Tick, Base, TypeOK
  <2>2. UNCHANGED <<savesSlowed, record, calls, over, told, passes>>
    BY <1>5 DEF Tick
  <2>3. 0..clock \subseteq 0..clock'
    BY <2>1 DEF Base, TypeOK
  <2>4. QED
    BY <2>1, <2>2, <2>3 DEF record, calls, Base, TypeOK
<1>6. CASE UNCHANGED vars
  BY <1>6 DEF vars, record, calls, Base, TypeOK
<1>7. QED
  BY <1>1, <1>2, <1>3, <1>4, <1>5, <1>6, PollEnds DEF Next

LEMMA InitBase == Init => Base
<1> SUFFICES ASSUME Init PROVE Base
  OBVIOUS
<1>1. NewRecord \in DeviceCodeRecord /\ "invalid_grant" \in DevicePollDecisionKind
  BY DEF NewRecord, DeviceCodeRecord, Statuses, DeviceCodeStatus, DevicePollDecisionKind
<1>2. status \in Statuses /\ lastPoll \in 0..clock \cup {Never}
  BY DEF Init, NewRecord, Statuses, DeviceCodeStatus
<1>3. clock \in 0..MaxTime /\ 0 \in 0..clock
  BY ConstantFacts DEF Init
<1>4. IsFiniteSet(passes)
  BY FS_EmptySet DEF Init
<1>5. QED
  BY <1>1, <1>2, <1>3, <1>4 DEF Init, Base, TypeOK

\* No decision and no saved last_poll_at is of a time to come.
THEOREM TypeCorrect == Spec => []TypeOK
  BY InitBase, BaseStep, PTL DEF Spec, Base

-----------------------------------------------------------------------------
\* The service of a device that keeps to the interval.

\* last_poll_at is the time of a poll of the device, which may poll again Interval
\* after the end of that poll ...
RecordInv == lastPoll # Never => lastPoll + Interval <= told

\* ... as a stranger's poll is never saved ...
StrangerInv == \A p \in Polls : step[p] = "decided" /\ ~own[p] => decision[p] = "invalid_grant"

\* ... so that the record a polite poll loaded is an interval old.
PoliteInv == \A p \in Polls : polite[p] =>
    own[p] /\ (seen[p].lastPoll # Never => seen[p].lastPoll + Interval <= clock)

ServiceInv == Base /\ RecordInv /\ StrangerInv /\ PoliteInv

LEMMA ServiceStep == ServiceInv /\ [Next]_vars => ServiceInv'
<1> SUFFICES ASSUME ServiceInv, [Next]_vars PROVE RecordInv' /\ StrangerInv' /\ PoliteInv'
  BY BaseStep DEF ServiceInv
<1> USE ConstantFacts
<1>1. ASSUME NEW p \in Polls, NEW mine \in BOOLEAN, Load(p, mine)
      PROVE  RecordInv' /\ StrangerInv' /\ PoliteInv'
  <2>1. /\ UNCHANGED <<clock, lastPoll, told, decision>>
        /\ step' = [step EXCEPT ![p] = "loaded"]
        /\ own' = [own EXCEPT ![p] = mine]
        /\ seen' = [seen EXCEPT ![p] = [status |-> status, lastPoll |-> lastPoll]]
        /\ polite' = [polite EXCEPT ![p] = mine /\ told <= clock]
    BY <1>1 DEF Load, Goto, record
  <2>2. RecordInv'
    BY <2>1 DEF ServiceInv, RecordInv
  <2>3. StrangerInv'
    BY <2>1 DEF ServiceInv, StrangerInv, Base, TypeOK
  <2>4. PoliteInv'
    <3> SUFFICES ASSUME NEW q \in Polls, polite'[q]
                 PROVE  own'[q] /\ (seen'[q].lastPoll # Never => seen'[q].lastPoll + Interval <= clock)
      BY <2>1 DEF PoliteInv
    <3>1. CASE q = p
      <4>1. mine /\ told <= clock /\ own'[q] = mine /\ seen'[q].lastPoll = lastPoll
        BY <2>1, <3>1 DEF ServiceInv, Base, TypeOK
      <4>2. lastPoll # Never => lastPoll + Interval <= clock
        BY <4>1 DEF ServiceInv, RecordInv, Base, TypeOK
      <4>3. QED
        BY <4>1, <4>2
    <3>2. CASE q # p
      BY <2>1, <3>2 DEF ServiceInv, PoliteInv, Base, TypeOK
    <3>3. QED
      BY <3>1, <3>2
  <2>5. QED
    BY <2>2, <2>3, <2>4
<1>2. ASSUME NEW p \in Polls, Evaluate(p) PROVE RecordInv' /\ StrangerInv' /\ PoliteInv'
  <2>1. /\ UNCHANGED <<clock, lastPoll, told, own>>
        /\ step' = [step EXCEPT ![p] = "decided"]
        /\ decision' = [decision EXCEPT ![p] = Decision(own[p], seen[p], clock)]
        /\ seen' = [seen EXCEPT ![p] = NewRecord]
        /\ polite' = [polite EXCEPT ![p] = FALSE]
    BY <1>2 DEF Evaluate, Goto, Forget, record
  <2>2. ~own[p] => Decision(own[p], seen[p], clock) = "invalid_grant"
    BY DEF Decision
  <2>3. RecordInv' /\ StrangerInv'
    BY <2>1, <2>2 DEF ServiceInv, RecordInv, StrangerInv, Base, TypeOK
  <2>4. PoliteInv'
    BY <2>1 DEF ServiceInv, PoliteInv, Base, TypeOK
  <2>5. QED
    BY <2>3, <2>4
<1>3. ASSUME NEW p \in Polls, Ends(p) PROVE RecordInv' /\ StrangerInv' /\ PoliteInv'
  <2>1. /\ UNCHANGED clock
        /\ step' = [step EXCEPT ![p] = "idle"]
        /\ decision' = [decision EXCEPT ![p] = "invalid_grant"]
        /\ seen' = [seen EXCEPT ![p] = NewRecord]
        /\ polite' = [polite EXCEPT ![p] = FALSE]
        /\ own' = [own EXCEPT ![p] = FALSE]
        /\ told' = IF own[p] THEN clock + Interval ELSE told
    BY <1>3 DEF Ends, End, Goto, Forget
  <2>2. StrangerInv'
    BY <2>1 DEF ServiceInv, StrangerInv, Base, TypeOK
  <2>3. PoliteInv'
    BY <2>1 DEF ServiceInv, PoliteInv, Base, TypeOK
  <2>4. RecordInv'
    <3>1. CASE own[p]
      <4>1. lastPoll' \in 0..clock \cup {Never}
        BY <1>3, SaveTypes DEF Ends, ServiceInv
      <4>2. lastPoll' # Never => lastPoll' \in Int /\ lastPoll' <= clock
        BY <4>1 DEF ServiceInv, Base, TypeOK
      <4>3. told' = clock + Interval /\ clock \in Nat
        BY <2>1, <3>1 DEF ServiceInv, Base, TypeOK
      <4>4. QED
        BY <4>2, <4>3 DEF RecordInv
    <3>2. CASE ~own[p]
      <4>1. lastPoll' = lastPoll
        BY <1>3, <3>2 DEF Ends, Saved, Save, Moves, ServiceInv, StrangerInv
      <4>2. QED
        BY <2>1, <3>2, <4>1 DEF RecordInv, ServiceInv
    <3>3. QED
      BY <3>1, <3>2
  <2>5. QED
    BY <2>2, <2>3, <2>4
<1>4. CASE (\E verdict \in {"approved", "denied"} : Decide(verdict)) \/ Retire \/ UNCHANGED vars
  BY <1>4 DEF Decide, Retire, vars, record, calls, ServiceInv, RecordInv, StrangerInv, PoliteInv
<1>5. CASE Tick
  <2>1. clock' = clock + 1 /\ UNCHANGED <<record, calls, told>>
    BY <1>5 DEF Tick
  <2>2. RecordInv' /\ StrangerInv'
    BY <2>1 DEF record, calls, ServiceInv, RecordInv, StrangerInv
  <2>3. PoliteInv'
    <3> SUFFICES ASSUME NEW p \in Polls, polite[p], seen[p].lastPoll # Never
                 PROVE  own[p] /\ seen[p].lastPoll + Interval <= clock'
      BY <2>1 DEF calls, ServiceInv, PoliteInv
    <3>1. seen[p].lastPoll \in Nat /\ clock \in Nat
      BY DEF ServiceInv, Base, TypeOK, DeviceCodeRecord
    <3>2. QED
      BY <2>1, <3>1 DEF ServiceInv, PoliteInv
  <2>4. QED
    BY <2>2, <2>3
<1>6. QED
  BY <1>1, <1>2, <1>3, <1>4, <1>5, PollEnds DEF Next, ServiceInv

LEMMA ServiceHolds == Spec => []ServiceInv
<1>1. Init => RecordInv /\ StrangerInv /\ PoliteInv
  BY DEF Init, NewRecord, RecordInv, StrangerInv, PoliteInv
<1>2. QED
  BY <1>1, InitBase, ServiceStep, PTL DEF Spec, ServiceInv

\* A poll Interval or more after the device's last answer is neither slowed down
\* nor refused, whatever overlaps it, unless the host gave the record a status of
\* its own.
THEOREM PoliteDevicesAreServed == Spec => PoliteServed
<1>1. ASSUME ServiceInv, [Next]_vars,
             NEW p \in Polls, step[p] = "loaded", step'[p] = "decided", polite[p]
      PROVE  /\ decision'[p] # "slow_down"
             /\ decision'[p] = "invalid_grant" => seen[p].status \notin DeviceCodeStatus
  <2>1. Evaluate(p)
    BY <1>1, PollEnds DEF Next, Load, Evaluate, Ends, End, Decide, Retire, Tick, Goto, calls, vars,
       ServiceInv, Base, TypeOK
  <2>2. decision'[p] = Decision(TRUE, seen[p], clock)
    BY <1>1, <2>1 DEF Evaluate, ServiceInv, PoliteInv, Base, TypeOK
  <2>3. ~TooSoon(seen[p], clock)
    BY <1>1, ConstantFacts DEF TooSoon, ServiceInv, PoliteInv, Base, TypeOK, DeviceCodeRecord
  <2>4. /\ Outcome(seen[p]) # "slow_down"
        /\ Outcome(seen[p]) = "invalid_grant" => seen[p].status \notin DeviceCodeStatus
    BY DEF Outcome, DeviceCodeStatus
  <2>5. QED
    BY <2>2, <2>3, <2>4 DEF Decision
<1>2. ServiceInv /\ [Next]_vars =>
      [\A p \in Polls : step[p] = "loaded" /\ step'[p] = "decided" /\ polite[p]
          => /\ decision'[p] # "slow_down"
             /\ decision'[p] = "invalid_grant" => seen[p].status \notin DeviceCodeStatus]_vars
  BY <1>1
<1>3. QED
  BY <1>2, ServiceHolds, PTL DEF Spec, PoliteServed

-----------------------------------------------------------------------------
\* How many polls an interval lets through.  Fix its start s.  A poll decided
\* before s may still turn last_poll_at back to a time before s when it is saved,
\* once, and no poll that starts later can.  The others ("fresh") may pass as long
\* as last_poll_at is before s, and the first that is saved ends that.

Before(t, s) == t = Never \/ t < s

\* All polls but those decided before s.
Fresh(s) == {p \in Polls : step[p] = "decided" => s <= at[p]}

\* Those of them that have passed or may yet, whatever becomes of the record.
Passing(s) == {p \in Polls :
    \/ step[p] = "loaded" /\ Before(seen[p].lastPoll, s)
    \/ step[p] = "decided" /\ Passed(p) /\ s <= at[p] /\ at[p] < s + Interval}

PassesIn(s) == {e \in passes : s <= e.at /\ e.at < s + Interval}

\* n passes recorded, h passing and m fresh polls: every poll decided before s that
\* ends makes m larger by one and may let all fresh polls through once more.
Within(turnedBack, n, h, m) == IF turnedBack THEN 2 * n <= m * (m - 1)
                                             ELSE 2 * (n + h) <= m * (m + 1)

Budget(s) == Within(Before(lastPoll, s), Cardinality(PassesIn(s)), Cardinality(Passing(s)),
                    Cardinality(Fresh(s)))

BudgetInv == \A s \in 0..clock : Budget(s)

NthInv == \A e \in passes : e.nth < Cardinality({f \in passes : f.at = e.at})

PassInv == Base /\ NthInv /\ BudgetInv

LEMMA Subsets ==
        ASSUME NEW S, IsFiniteSet(S), NEW T \in SUBSET S
        PROVE  /\ IsFiniteSet(T) /\ Cardinality(T) \in Nat
               /\ Cardinality(S) \in Nat /\ Cardinality(T) <= Cardinality(S)
  BY FS_Subset, FS_CardinalityType

LEMMA Counts ==
        ASSUME Base, NEW s \in Int
        PROVE  /\ IsFiniteSet(Fresh(s)) /\ IsFiniteSet(Passing(s)) /\ IsFiniteSet(PassesIn(s))
               /\ Passing(s) \subseteq Fresh(s)
               /\ Cardinality(Fresh(s)) \in Nat /\ Cardinality(Passing(s)) \in Nat
               /\ Cardinality(PassesIn(s)) \in Nat
               /\ Cardinality(Passing(s)) <= Cardinality(Fresh(s))
               /\ Cardinality(Fresh(s)) <= Cardinality(Polls) /\ Cardinality(Polls) \in Nat
<1>1. /\ Fresh(s) \in SUBSET Polls /\ Passing(s) \in SUBSET Fresh(s)
      /\ PassesIn(s) \in SUBSET passes
  BY DEF Fresh, Passing, PassesIn
<1>2. IsFiniteSet(Fresh(s)) /\ IsFiniteSet(passes)
  BY <1>1, ConstantFacts, Subsets DEF Base
<1>3. QED
  BY <1>1, <1>2, ConstantFacts, Subsets

\* A poll that was recorded has a number none recorded before has.
LEMMA NewPassIsNew ==
        ASSUME PassInv, NEW p \in Polls
        PROVE  NewPass(p) \notin passes
<1> SUFFICES ASSUME NewPass(p) \in passes PROVE FALSE
  OBVIOUS
<1> DEFINE S == {f \in passes : f.at = at[p]}
<1>1. NewPass(p).at = at[p] /\ NewPass(p).nth = Cardinality(S)
  BY DEF NewPass
<1>2. Cardinality(S) < Cardinality(S)
  BY <1>1 DEF PassInv, NthInv
<1>3. IsFiniteSet(S)
  BY FS_Subset DEF PassInv, Base
<1>4. Cardinality(S) \in Nat
  BY <1>3, FS_CardinalityType
<1> HIDE DEF S
<1>5. QED
  BY <1>2, <1>4

LEMMA NthStep == PassInv /\ [Next]_vars => NthInv'
<1> SUFFICES ASSUME PassInv, [Next]_vars PROVE NthInv'
  OBVIOUS
<1>1. CASE passes' = passes
  BY <1>1 DEF PassInv, NthInv
<1>2. ASSUME NEW p \in Polls, passes' = passes \cup {NewPass(p)} PROVE NthInv'
  <2> SUFFICES ASSUME NEW e \in passes'
               PROVE  e.nth < Cardinality({f \in passes' : f.at = e.at})
    BY DEF NthInv
  <2> DEFINE Old == {f \in passes : f.at = e.at}
             New == {f \in passes' : f.at = e.at}
             new == NewPass(p)
  <2>1. new.at = at[p] /\ new \notin passes
    BY NewPassIsNew DEF NewPass
  <2>2. IsFiniteSet(Old) /\ Cardinality(Old) \in Nat
    BY FS_Subset, FS_CardinalityType DEF PassInv, Base
  <2>3. e \in passes => e.nth \in Nat /\ e.nth < Cardinality(Old)
    BY DEF PassInv, Base, TypeOK, NthInv
  <2>4. e = new => e.nth = Cardinality(Old)
    BY <2>1 DEF NewPass
  <2>5. CASE e.at = at[p]
    <3>1. New = Old \cup {new} /\ new \notin Old
      BY <1>2, <2>1, <2>5
    <3>2. Cardinality(New) = Cardinality(Old) + 1
      BY <2>2, <3>1, FS_AddElement
    <3>3. e \in passes \/ e = new
      BY <1>2
    <3> HIDE DEF Old, New, new
    <3>4. e.nth < Cardinality(New)
      BY <2>2, <2>3, <2>4, <3>2, <3>3
    <3>5. QED
      BY <3>4 DEF New
  <2>6. CASE e.at # at[p]
    BY <1>2, <2>1, <2>3, <2>6
  <2>7. QED
    BY <2>5, <2>6
<1>3. passes' = passes \/ \E p \in Polls : passes' = passes \cup {NewPass(p)}
  BY PollEnds DEF PassInv, Next, Load, Evaluate, Ends, Saved, Save, CountPass, NewPass, Decide, Retire, Tick, vars
<1>4. QED
  BY <1>1, <1>2, <1>3

\* The arithmetic of the budget: there is one at the start, ...
LEMMA BudgetStart == ASSUME NEW m \in Nat, NEW h PROVE Within(TRUE, 0, h, m)
<1>1. m = 0 \/ m - 1 \in Nat
  OBVIOUS
<1>2. 0 <= m * (m - 1)
  BY <1>1
<1>3. QED
  BY <1>2 DEF Within

\* ... a save that makes last_poll_at fresh keeps it, ...
LEMMA BudgetFresh ==
        ASSUME NEW n \in Nat, NEW m \in Nat, NEW h \in 0..m, NEW b \in BOOLEAN, Within(b, n, h, m)
        PROVE  \A i \in 0..h : /\ Within(b, n, i, m) /\ Within(FALSE, n, i, m)
                               /\ i < h => Within(FALSE, n + 1, i, m)
<1>1. m * (m - 1) + 2 * m = m * (m + 1) /\ m * (m - 1) \in Int /\ m * (m + 1) \in Int
  OBVIOUS
<1>2. 2 * (n + h) <= m * (m + 1)
  BY <1>1 DEF Within
<1>3. QED
  BY <1>1, <1>2 DEF Within

\* ... and one more fresh poll pays for a save that turns it back.
LEMMA BudgetTurned ==
        ASSUME NEW n \in Nat, NEW m \in Nat, NEW h \in 0..m, NEW b \in BOOLEAN, Within(b, n, h, m)
        PROVE  \A back \in BOOLEAN : Within(back, n, h, m + 1)
<1>1. /\ m * (m - 1) + 2 * m = m * (m + 1) /\ m * (m - 1) \in Int /\ m * (m + 1) \in Int
      /\ (m + 1) * ((m + 1) - 1) = m * (m + 1)
      /\ (m + 1) * ((m + 1) + 1) = m * (m + 1) + 2 * m + 2
  OBVIOUS
<1>2. 2 * (n + h) <= m * (m + 1)
  BY <1>1 DEF Within
<1>3. QED
  BY <1>1, <1>2 DEF Within

\* The bound of the property, as the proof uses it.
LEMMA BudgetBound ==
        ASSUME NEW n \in Nat, NEW m \in Nat, NEW h \in Nat, NEW k \in Nat, m <= k,
               NEW b \in BOOLEAN, Within(b, n, h, m)
        PROVE  n <= (k * (k + 1)) \div 2
<1>1. /\ m * (m - 1) + 2 * m = m * (m + 1) /\ m * (m - 1) \in Int /\ m * (m + 1) \in Int
      /\ k * (k + 1) \in Nat
  OBVIOUS
<1>2. m * (m + 1) <= k * (k + 1)
  <2>1. m * (m + 1) <= m * (k + 1)
    OBVIOUS
  <2>2. m * (k + 1) <= k * (k + 1)
    OBVIOUS
  <2>3. m * (k + 1) \in Int
    OBVIOUS
  <2>4. QED
    BY <1>1, <2>1, <2>2, <2>3
<1>3. 2 * n <= k * (k + 1)
  BY <1>1, <1>2 DEF Within
<1> DEFINE K == k * (k + 1)
<1> HIDE DEF K
<1>4. \A x \in Nat : 2 * n <= x => n <= x \div 2
  OBVIOUS
<1>5. QED
  BY <1>1, <1>3, <1>4

\* Loading, deciding and waiting add no pass to an interval that has begun.
LEMMA BudgetQuiet ==
        ASSUME PassInv, [Next]_vars, ~(\E p \in Polls : Ends(p)), NEW s \in 0..clock
        PROVE  Budget(s)'
<1> USE ConstantFacts DEF PassInv
<1>1. UNCHANGED <<lastPoll, passes>>
  BY PollEnds DEF Next, Load, Evaluate, Decide, Retire, Tick, vars, record
<1>2. Fresh(s)' = Fresh(s)
  <2>1. CASE \E p \in Polls, mine \in BOOLEAN : Load(p, mine)
    BY <2>1 DEF Load, Goto, Fresh, Base, TypeOK
  <2>2. CASE \E p \in Polls : Evaluate(p)
    BY <2>2 DEF Evaluate, Goto, Fresh, Base, TypeOK
  <2>3. CASE Tick \/ (\E verdict \in {"approved", "denied"} : Decide(verdict)) \/ Retire \/ UNCHANGED vars
    BY <2>3 DEF Tick, Decide, Retire, vars, calls, Fresh
  <2>4. QED
    BY <2>1, <2>2, <2>3, PollEnds DEF Next
<1>3. ~Before(lastPoll, s) => Passing(s)' \subseteq Passing(s)
  <2> SUFFICES ASSUME ~Before(lastPoll, s), NEW q \in Passing(s)' PROVE q \in Passing(s)
    OBVIOUS
  <2>1. ASSUME NEW p \in Polls, NEW mine \in BOOLEAN, Load(p, mine) PROVE q \in Passing(s)
    BY <2>1 DEF Load, Goto, Passing, Passed, Base, TypeOK
  <2>2. ASSUME NEW p \in Polls, Evaluate(p) PROVE q \in Passing(s)
    <3>1. CASE q # p
      BY <2>2, <3>1 DEF Evaluate, Goto, Forget, Passing, Passed, Base, TypeOK
    <3>2. CASE q = p
      <4>1. /\ step[p] = "loaded" /\ p \in Polls /\ clock < s + Interval
            /\ Decision(own[p], seen[p], clock)
                 \in {"authorization_pending", "approved", "access_denied"}
        BY <2>2, <3>2 DEF Evaluate, Goto, Passing, Passed, Base, TypeOK
      <4>2. ~TooSoon(seen[p], clock)
        BY <4>1 DEF Decision
      <4>3. seen[p].lastPoll \in Nat \cup {Never} /\ clock \in Nat
        BY DEF Base, TypeOK, DeviceCodeRecord
      <4>4. Before(seen[p].lastPoll, s)
        BY <4>1, <4>2, <4>3 DEF TooSoon, Before
      <4>5. QED
        BY <3>2, <4>1, <4>4 DEF Passing
    <3>3. QED
      BY <3>1, <3>2
  <2>3. CASE Tick \/ (\E verdict \in {"approved", "denied"} : Decide(verdict)) \/ Retire \/ UNCHANGED vars
    BY <2>3 DEF Tick, Decide, Retire, vars, calls, Passing, Passed
  <2>4. QED
    BY <2>1, <2>2, <2>3, PollEnds DEF Next
<1>4. /\ Cardinality(Fresh(s)) \in Nat /\ Cardinality(PassesIn(s)) \in Nat
      /\ Cardinality(Passing(s)) \in 0..Cardinality(Fresh(s))
      /\ IsFiniteSet(Passing(s))
  BY Counts
<1>5. Within(Before(lastPoll, s), Cardinality(PassesIn(s)), Cardinality(Passing(s)),
             Cardinality(Fresh(s)))
  BY DEF BudgetInv, Budget
<1>6. PassesIn(s)' = PassesIn(s) /\ Before(lastPoll, s)' = Before(lastPoll, s)
  BY <1>1 DEF PassesIn, Before
<1>7. CASE Before(lastPoll, s)
  BY <1>2, <1>5, <1>6, <1>7 DEF Budget, Within
<1>8. CASE ~Before(lastPoll, s)
  <2>1. Cardinality(Passing(s)') \in 0..Cardinality(Passing(s))
    BY <1>3, <1>4, <1>8, Subsets
  <2>2. Within(FALSE, Cardinality(PassesIn(s)), Cardinality(Passing(s)'), Cardinality(Fresh(s)))
    BY <1>4, <1>5, <1>8, <2>1, BudgetFresh DEF Before
  <2>3. QED
    BY <1>2, <1>6, <1>8, <2>2 DEF Budget, Within
<1>9. QED
  BY <1>7, <1>8

\* A fresh poll that ends is not passing any more, and if it is recorded as a pass, or
\* moves last_poll_at at all, then to a time that is not before s.
LEMMA FreshPollEnds ==
        ASSUME PassInv, NEW s \in 0..clock, NEW p \in Fresh(s), Ends(p)
        PROVE  Budget(s)'
<1> USE ConstantFacts DEF PassInv
<1>1. /\ step' = [step EXCEPT ![p] = "idle"] /\ at' = [at EXCEPT ![p] = 0]
      /\ seen' = [seen EXCEPT ![p] = NewRecord]
      /\ decision' = [decision EXCEPT ![p] = "invalid_grant"]
      /\ p \in Polls /\ clock' = clock
  BY DEF Ends, End, Goto, Forget, Fresh
<1>2. Fresh(s)' = Fresh(s)
  BY <1>1 DEF Fresh, Base, TypeOK
<1>3. Passing(s)' = Passing(s) \ {p}
  BY <1>1 DEF Passing, Passed, Base, TypeOK
<1> DEFINE n == Cardinality(PassesIn(s))
           h == Cardinality(Passing(s))
           i == Cardinality(Passing(s) \ {p})
           m == Cardinality(Fresh(s))
           b == Before(lastPoll, s)
<1>4. /\ n \in Nat /\ m \in Nat /\ h \in 0..m /\ b \in BOOLEAN
      /\ IsFiniteSet(Passing(s)) /\ IsFiniteSet(PassesIn(s))
  BY Counts DEF Before
<1>5. i \in 0..h /\ (p \in Passing(s) => i < h)
  <2>1. i = IF p \in Passing(s) THEN h - 1 ELSE h
    BY <1>4, FS_RemoveElement
  <2>2. i \in Nat
    BY <1>4, FS_RemoveElement, FS_CardinalityType
  <2>3. QED
    BY <1>4, <2>1, <2>2
<1>6. Within(b, n, h, m)
  BY DEF BudgetInv, Budget
<1>7. Budget(s)' <=> Within(Before(lastPoll, s)', Cardinality(PassesIn(s)'), i, m)
  BY <1>2, <1>3 DEF Budget
<1>8. /\ Within(b, n, i, m) /\ Within(FALSE, n, i, m)
      /\ i < h => Within(FALSE, n + 1, i, m)
  <2> HIDE DEF n, h, i, m, b
  <2>1. QED
    BY <1>4, <1>5, <1>6, BudgetFresh
<1>9. CASE UNCHANGED <<lastPoll, passes>>
  BY <1>7, <1>8, <1>9 DEF PassesIn, Before
<1>10. CASE Save(p)
  <2>1. step[p] = "decided" /\ s <= at[p] /\ at[p] \in Nat
    BY <1>1, <1>10 DEF Save, Fresh, Base, TypeOK
  <2>2. ~Before(at[p], s)
    BY <2>1 DEF Before
  <2>3. CASE ~Passed(p)
    <3>1. passes' = passes /\ (lastPoll' = lastPoll \/ lastPoll' = at[p])
      BY <1>10, <2>3 DEF Save, CountPass
    <3>2. PassesIn(s)' = PassesIn(s) /\ (Before(lastPoll, s)' = b \/ Before(lastPoll, s)' = FALSE)
      BY <2>2, <3>1 DEF PassesIn, Before
    <3>3. QED
      BY <1>7, <1>8, <3>2
  <2>4. CASE Passed(p)
    <3>1. passes' = passes \cup {NewPass(p)} /\ lastPoll' = at[p]
      BY <1>10, <2>4 DEF Save, CountPass, NewPass, Moves, Passed
    <3>2. Before(lastPoll, s)' = FALSE
      BY <2>2, <3>1 DEF Before
    <3>3. NewPass(p).at = at[p] /\ NewPass(p) \notin PassesIn(s)
      <4>1. NewPass(p) \notin passes
        BY <1>1, NewPassIsNew
      <4>2. QED
        BY <4>1 DEF NewPass, PassesIn
    <3>4. CASE at[p] < s + Interval
      <4>1. PassesIn(s)' = PassesIn(s) \cup {NewPass(p)}
        BY <2>1, <3>1, <3>3, <3>4 DEF PassesIn
      <4>2. Cardinality(PassesIn(s)') = n + 1
        BY <1>4, <3>3, <4>1, FS_AddElement
      <4>3. p \in Passing(s)
        BY <1>1, <2>1, <2>4, <3>4 DEF Passing
      <4>4. QED
        BY <1>5, <1>7, <1>8, <3>2, <4>2, <4>3
    <3>5. CASE ~(at[p] < s + Interval)
      <4>1. PassesIn(s)' = PassesIn(s)
        BY <3>1, <3>3, <3>5 DEF PassesIn
      <4>2. QED
        BY <1>7, <1>8, <3>2, <4>1
    <3>6. QED
      BY <3>4, <3>5
  <2>5. QED
    BY <2>3, <2>4
<1>11. QED
  BY <1>9, <1>10 DEF Ends, Saved

\* A poll that was decided before s becomes a fresh one, and may turn last_poll_at back.
LEMMA OldPollEnds ==
        ASSUME PassInv, NEW s \in 0..clock, NEW p \in Polls \ Fresh(s), Ends(p)
        PROVE  Budget(s)'
<1> USE ConstantFacts DEF PassInv
<1>1. /\ step' = [step EXCEPT ![p] = "idle"] /\ at' = [at EXCEPT ![p] = 0]
      /\ seen' = [seen EXCEPT ![p] = NewRecord]
      /\ decision' = [decision EXCEPT ![p] = "invalid_grant"]
      /\ p \in Polls /\ step[p] = "decided" /\ at[p] \in Nat /\ at[p] < s
  BY DEF Ends, End, Goto, Forget, Fresh, Base, TypeOK
<1>2. Fresh(s)' = Fresh(s) \cup {p}
  BY <1>1 DEF Fresh, Base, TypeOK
<1>3. Passing(s)' = Passing(s)
  BY <1>1 DEF Passing, Passed, Base, TypeOK
<1>4. PassesIn(s)' = PassesIn(s)
  <2>1. passes' = passes \/ passes' = passes \cup {NewPass(p)}
    BY DEF Ends, Saved, Save, CountPass, NewPass
  <2>2. NewPass(p).at < s /\ NewPass(p).at \in Nat /\ s \in Nat
    BY <1>1 DEF NewPass
  <2>3. QED
    BY <2>1, <2>2 DEF PassesIn
<1> DEFINE n == Cardinality(PassesIn(s))
           h == Cardinality(Passing(s))
           m == Cardinality(Fresh(s))
           b == Before(lastPoll, s)
<1>5. n \in Nat /\ m \in Nat /\ h \in 0..m /\ b \in BOOLEAN /\ IsFiniteSet(Fresh(s))
  BY Counts DEF Before
<1>6. Cardinality(Fresh(s)') = m + 1
  BY <1>2, <1>5, FS_AddElement
<1>7. Within(b, n, h, m)
  BY DEF BudgetInv, Budget
<1>8. \A back \in BOOLEAN : Within(back, n, h, m + 1)
  <2> HIDE DEF n, h, m, b
  <2>1. QED
    BY <1>5, <1>7, BudgetTurned
<1>9. Before(lastPoll, s)' \in BOOLEAN
  BY DEF Before
<1>10. QED
  BY <1>3, <1>4, <1>6, <1>8, <1>9 DEF Budget

\* When an interval begins no pass is in it, and last_poll_at is before it.
LEMMA BudgetBegins ==
        ASSUME PassInv, Tick, NEW s \in Nat, s = clock + 1
        PROVE  Budget(s)'
<1>1. clock \in Nat /\ UNCHANGED <<lastPoll, passes>>
  BY DEF PassInv, Base, TypeOK, Tick, record
<1>2. Before(lastPoll, s)' = TRUE
  BY <1>1 DEF Before, PassInv, Base, TypeOK
<1>3. PassesIn(s)' = {}
  BY <1>1 DEF PassesIn, PassInv, Base, TypeOK
<1>4. Cardinality(Fresh(s)') \in Nat
  <2>1. Fresh(s)' \in SUBSET Polls
    BY DEF Fresh
  <2>2. QED
    BY <2>1, ConstantFacts, Subsets
<1>5. QED
  BY <1>2, <1>3, <1>4, FS_EmptySet, BudgetStart DEF Budget

LEMMA PassInvHolds == Spec => []PassInv
<1>1. Init => PassInv
  <2> SUFFICES ASSUME Init PROVE PassInv
    OBVIOUS
  <2>1. Base /\ NthInv
    BY InitBase DEF Init, NthInv
  <2>2. ASSUME NEW s \in 0..clock PROVE Budget(s)
    <3>1. Before(lastPoll, s) = TRUE /\ PassesIn(s) = {}
      BY DEF Init, NewRecord, Before, PassesIn
    <3>2. Cardinality(Fresh(s)) \in Nat
      BY <2>1, <2>2, Counts, ConstantFacts DEF Init
    <3>3. QED
      BY <3>1, <3>2, FS_EmptySet, BudgetStart DEF Budget
  <2>3. QED
    BY <2>1, <2>2 DEF PassInv, BudgetInv
<1>2. PassInv /\ [Next]_vars => PassInv'
  <2> SUFFICES ASSUME PassInv, [Next]_vars PROVE BudgetInv'
    BY BaseStep, NthStep DEF PassInv
  <2>1. ASSUME NEW s \in 0..clock PROVE Budget(s)'
    <3>1. ASSUME NEW p \in Polls, Ends(p) PROVE Budget(s)'
      BY <2>1, <3>1, FreshPollEnds, OldPollEnds
    <3>2. QED
      BY <2>1, <3>1, BudgetQuiet
  <2>2. CASE clock' = clock
    BY <2>1, <2>2 DEF BudgetInv
  <2>3. CASE Tick
    <3>1. clock' = clock + 1 /\ clock \in Nat
      BY <2>3 DEF Tick, PassInv, Base, TypeOK
    <3>2. 0..clock' = 0..clock \cup {clock + 1}
      BY <3>1
    <3>3. QED
      BY <2>1, <2>3, <3>2, BudgetBegins DEF BudgetInv
  <2>4. clock' = clock \/ Tick
    BY DEF Next, Load, Evaluate, Answer, Lose, Decide, Retire, vars
  <2>5. QED
    BY <2>2, <2>3, <2>4
<1>3. QED
  BY <1>1, <1>2, PTL DEF Spec

\* However polls overlap and in whatever order they are saved, no interval lets
\* more of them through than N(N+1)/2, if N may be in flight.
THEOREM PassesAreBounded == Spec => []PassesBounded
<1>1. PassInv => PassesBounded
  <2> SUFFICES ASSUME PassInv, NEW s \in 0..clock
               PROVE  Cardinality(PassesIn(s))
                        <= (Cardinality(Polls) * (Cardinality(Polls) + 1)) \div 2
    BY DEF PassesBounded, PassesIn
  <2> DEFINE n == Cardinality(PassesIn(s))
             h == Cardinality(Passing(s))
             m == Cardinality(Fresh(s))
             k == Cardinality(Polls)
  <2>1. /\ n \in Nat /\ h \in Nat /\ m \in Nat /\ k \in Nat /\ m <= k
        /\ Before(lastPoll, s) \in BOOLEAN
    BY Counts DEF PassInv, Before
  <2>2. Within(Before(lastPoll, s), n, h, m)
    BY DEF PassInv, BudgetInv, Budget
  <2> HIDE DEF n, h, m, k
  <2>3. n <= (k * (k + 1)) \div 2
    BY <2>1, <2>2, BudgetBound
  <2>4. QED
    BY <2>3 DEF n, k
<1>2. QED
  BY <1>1, PassInvHolds, PTL
=============================================================================
