------------------------- MODULE RegistrationProofs -------------------------
(***************************************************************************)
(* Proofs about the in-memory sliding-window limiter, and about the        *)
(* registration endpoint over it, for any clients, requests, hooks, limit  *)
(* and window: types for any threads; what limiter and endpoint promise,   *)
(* for one event loop.  What is proved of the limiter holds under the      *)
(* handler too, whose steps are steps of the limiter or leave it alone.    *)
(***************************************************************************)
EXTENDS Registration, FiniteSetTheorems, TLAPS

OneLoop == \E loop : Threads = {loop}

LEMMA ConstantFacts ==
        /\ Limit \in Nat \ {0} /\ Second \in Nat \ {0} /\ Window \in Nat
        /\ NoClient \notin Clients /\ Absent \notin Int
  BY LimiterAssumption

\* int(x) + 1 seconds are more than x.
LEMMA SecondsSuffice ==
        ASSUME NEW ticks \in Int
        PROVE  Seconds(ticks) \in Nat \ {0} /\ Seconds(ticks) * Second > ticks
<1>1. CASE ticks < 0
  BY <1>1, ConstantFacts DEF Seconds
<1>2. CASE ticks >= 0
  <2> DEFINE q == ticks \div Second
  <2>1. q \in Nat /\ ticks = Second * q + (ticks % Second) /\ (ticks % Second) < Second
    BY <1>2, ConstantFacts
  <2>2. (q + 1) * Second = Second * q + Second
    BY <2>1, ConstantFacts
  <2>3. QED
    BY <1>2, <2>1, <2>2, ConstantFacts DEF Seconds
<1>3. QED
  BY <1>1, <1>2

-----------------------------------------------------------------------------
\* Types, for any threads.
Base == TypeOK /\ \A c \in Clients : IsFiniteSet(admitted[c])

\* The entry an append adds is one; the history stays finite.
LEMMA RecordTypes ==
        ASSUME Base, NEW t \in Threads, Record(t)
        PROVE  /\ client[t] \in Clients
               /\ [at |-> now[t], id |-> Cardinality(admitted[client[t]])] \in Entry
               /\ \A c \in Clients : IsFiniteSet(admitted'[c])
<1>1. client[t] \in Clients
  BY DEF Base, TypeOK, Record
<1>2. Cardinality(admitted[client[t]]) \in Nat
  BY <1>1, FS_CardinalityType DEF Base
<1>3. now[t] \in Nat
  BY DEF Base, TypeOK
<1>4. \A c \in Clients : IsFiniteSet(admitted'[c])
  <2> SUFFICES ASSUME NEW c \in Clients PROVE IsFiniteSet(admitted'[c])
    OBVIOUS
  <2>1. \E e : admitted'[c] = admitted[c] \/ admitted'[c] = admitted[c] \cup {e}
    BY DEF Record, Base, TypeOK
  <2>2. IsFiniteSet(admitted[c])
    BY DEF Base
  <2>3. QED
    BY <2>1, <2>2, FS_AddElement
<1>5. QED
  BY <1>1, <1>2, <1>3, <1>4 DEF Entry

LEMMA BaseStep == Base /\ [Next]_vars => Base'
<1> SUFFICES ASSUME Base, [Next]_vars PROVE Base'
  OBVIOUS
<1> USE ConstantFacts
<1>1. ASSUME NEW t \in Threads, NEW c \in Clients, Call(t, c) PROVE Base'
  BY <1>1 DEF Base, TypeOK, Call, Time, GoTo
<1>2. ASSUME NEW t \in Threads, Filter(t) PROVE Base'
  BY <1>2 DEF Base, TypeOK, Filter, GoTo
<1>3. ASSUME NEW t \in Threads, Assign(t) PROVE Base'
  BY <1>3 DEF Base, TypeOK, Assign, GoTo
<1>4. ASSUME NEW t \in Threads, Deny(t) PROVE Base'
  BY <1>4 DEF Base, TypeOK, Deny, Return, GoTo
<1>5. ASSUME NEW t \in Threads, Admit(t) PROVE Base'
  BY <1>5 DEF Base, TypeOK, Admit, GoTo, locals
<1>6. ASSUME NEW t \in Threads, Record(t) PROVE Base'
  <2> DEFINE e == [at |-> now[t], id |-> Cardinality(admitted[client[t]])]
  <2>1. client[t] \in Clients /\ e \in Entry /\ \A c \in Clients : IsFiniteSet(admitted'[c])
    BY <1>6, RecordTypes
  <2>2. /\ requests' = [requests EXCEPT ![client[t]] = @ \cup {e}]
        /\ admitted' = [admitted EXCEPT ![client[t]] = @ \cup {e}]
    BY <1>6 DEF Record
  <2> HIDE DEF e
  <2>3. requests' \in [Clients -> SUBSET Entry] /\ admitted' \in [Clients -> SUBSET Entry]
    BY <2>1, <2>2 DEF Base, TypeOK
  <2>4. Return(t) /\ clock' = clock /\ advice' = [advice EXCEPT ![client[t]] = Absent]
    BY <1>6 DEF Record
  <2>5. QED
    BY <2>1, <2>3, <2>4 DEF Base, TypeOK, Return, GoTo
<1>7. ASSUME NEW t \in Threads, NEW c \in Clients, NEW s \in Int, Answer(t, c, s) PROVE Base'
  <2>1. clock + s * Second \in Int
    BY DEF Base, TypeOK
  <2>2. QED
    BY <1>7, <2>1 DEF Base, TypeOK, Answer, locals
<1>8. ASSUME NEW t \in Threads, NEW c \in Clients, RetryNone(t, c) PROVE Base'
  BY <1>7, <1>8 DEF RetryNone
<1>9. ASSUME NEW t \in Threads, NEW c \in Clients, RetryAfter(t, c) PROVE Base'
  <2>1. PICK e \in requests[c] : Answer(t, c, Seconds(Window - (clock - e.at)))
    BY <1>9 DEF RetryAfter
  <2>2. Window - (clock - e.at) \in Int
    BY DEF Base, TypeOK, Entry
  <2>3. QED
    BY <1>7, <2>1, <2>2, SecondsSuffice
<1>10. CASE Tick \/ UNCHANGED vars
  BY <1>10 DEF Base, TypeOK, Tick, vars, locals
<1>11. QED
  BY <1>1, <1>2, <1>3, <1>4, <1>5, <1>6, <1>8, <1>9, <1>10 DEF Next

\* Every variable keeps its type, under any number of threads: no admission and
\* no now a call works with lies in the future.
THEOREM TypeCorrect == Spec => []TypeOK
<1>1. Init => Base
  BY ConstantFacts, FS_EmptySet DEF Init, Base, TypeOK
<1>2. QED
  BY <1>1, BaseStep, PTL DEF Spec, Base

-----------------------------------------------------------------------------
\* One event loop.  A call is alone with the list from its filter to its answer.

Busy(loop, c) == pc[loop] # "idle" /\ client[loop] = c

\* The list holds admissions, and no more than Limit of them ...
ListInv == \A c \in Clients : /\ requests[c] \subseteq admitted[c]
                              /\ Cardinality(requests[c]) <= Limit

\* ... and an admission it forgot has left the window, seen from now and from
\* the call that is going on.
ForgottenInv(loop) == \A c \in Clients : \A e \in admitted[c] \ requests[c] :
    clock - e.at >= Window /\ (Busy(loop, c) => now[loop] - e.at >= Window)

\* What the call knows of the list at each of its positions.
CallInv(loop) ==
    LET list == requests[client[loop]]
        InIt(e) == now[loop] - e.at < Window
    IN /\ pc[loop] = "assign" => kept[loop] = {e \in list : InIt(e)}
       /\ pc[loop] \in {"check", "append"} => \A e \in list : InIt(e)
       /\ pc[loop] = "append" => Cardinality(list) < Limit

\* Whatever window is put over the history.
InWindowOf(c, s) == {e \in admitted[c] : s <= e.at /\ e.at < s + Window}
HistoryInv == \A c \in Clients : \A s \in Nat : Cardinality(InWindowOf(c, s)) <= Limit

\* At the time a client was told to come back, the list has room.
AdviceInv == \A c \in Clients : advice[c] # Absent =>
    Cardinality({e \in requests[c] : e.at > advice[c] - Window}) < Limit

LoopInv(loop) ==
    Base /\ ListInv /\ ForgottenInv(loop) /\ CallInv(loop) /\ HistoryInv /\ AdviceInv

LEMMA Subsets ==
        ASSUME NEW S, IsFiniteSet(S), NEW T \in SUBSET S
        PROVE  /\ IsFiniteSet(T) /\ Cardinality(T) \in Nat
               /\ Cardinality(S) \in Nat /\ Cardinality(T) <= Cardinality(S)
  BY FS_Subset, FS_CardinalityType

LEMMA OneMore ==
        ASSUME NEW S, IsFiniteSet(S), NEW x
        PROVE  /\ IsFiniteSet(S \cup {x}) /\ Cardinality(S \cup {x}) \in Nat
               /\ Cardinality(S \cup {x}) <= Cardinality(S) + 1
<1>1. /\ IsFiniteSet(S \cup {x}) /\ Cardinality(S) \in Nat
      /\ Cardinality(S \cup {x}) = IF x \in S THEN Cardinality(S) ELSE Cardinality(S) + 1
  BY FS_AddElement, FS_CardinalityType
<1>2. QED
  BY <1>1

LEMMA Finite ==
        ASSUME Base, ListInv, NEW c \in Clients
        PROVE  /\ IsFiniteSet(admitted[c]) /\ IsFiniteSet(requests[c])
               /\ requests[c] \subseteq Entry /\ admitted[c] \subseteq Entry
<1>1. IsFiniteSet(admitted[c]) /\ requests[c] \subseteq admitted[c]
  BY DEF Base, ListInv
<1>2. QED
  BY <1>1, Subsets DEF Base, TypeOK

LEMMA LoopInit == ASSUME NEW loop \in Threads, Init PROVE LoopInv(loop)
<1> USE ConstantFacts DEF Init
<1>1. Base
  BY FS_EmptySet DEF Base, TypeOK
<1>2. ListInv
  <2>1. Cardinality({}) = 0 /\ 0 <= Limit
    BY FS_EmptySet
  <2>2. QED
    BY <2>1 DEF ListInv
<1>3. ForgottenInv(loop) /\ CallInv(loop)
  BY DEF ForgottenInv, CallInv
<1>4. HistoryInv
  <2>1. \A c \in Clients : \A s \in Nat : InWindowOf(c, s) = {}
    BY DEF InWindowOf
  <2>2. QED
    BY <2>1, FS_EmptySet DEF HistoryInv
<1>5. AdviceInv
  BY DEF AdviceInv
<1>6. QED
  BY <1>1, <1>2, <1>3, <1>4, <1>5 DEF LoopInv

\* Filtering, checking and answering a call leave the list, the history and the
\* advice alone, as does time.
LEMMA QuietStep ==
        ASSUME NEW loop, Threads = {loop}, LoopInv(loop),
               \/ \E c \in Clients : Call(loop, c)
               \/ Filter(loop) \/ Deny(loop) \/ Admit(loop) \/ Tick \/ UNCHANGED vars
        PROVE  ListInv' /\ ForgottenInv(loop)' /\ CallInv(loop)' /\ HistoryInv' /\ AdviceInv'
<1> USE ConstantFacts DEF LoopInv
<1>1. UNCHANGED <<requests, admitted, advice>>
  BY DEF Call, Filter, Deny, Admit, Tick, vars
<1>2. ListInv' /\ HistoryInv' /\ AdviceInv'
  BY <1>1 DEF ListInv, HistoryInv, InWindowOf, AdviceInv
<1>3. ForgottenInv(loop)'
  <2> SUFFICES ASSUME NEW c \in Clients, NEW e \in admitted[c] \ requests[c]
               PROVE  /\ clock' - e.at >= Window
                      /\ Busy(loop, c)' => now'[loop] - e.at >= Window
    BY <1>1 DEF ForgottenInv
  <2>1. e.at \in Nat /\ clock \in Nat /\ now[loop] \in Nat /\ loop \in Threads
    BY DEF Base, TypeOK, Entry
  <2>2. clock - e.at >= Window /\ (Busy(loop, c) => now[loop] - e.at >= Window)
    BY DEF ForgottenInv
  <2>3. clock' = clock \/ clock' = clock + 1
    BY DEF Call, Filter, Deny, Admit, Tick, vars
  <2>4. \/ UNCHANGED now /\ (Busy(loop, c)' => Busy(loop, c))
        \/ now'[loop] = clock
        \/ ~Busy(loop, c)'
    BY <2>1 DEF Call, Time, Filter, Deny, Admit, Return, GoTo, Tick, vars, locals, Busy, Base, TypeOK
  <2>5. QED
    BY <2>1, <2>2, <2>3, <2>4
<1>4. CallInv(loop)'
  <2>1. CASE \E c \in Clients : Call(loop, c)
    BY <2>1 DEF Call, GoTo, CallInv, Base, TypeOK
  <2>2. CASE Filter(loop)
    BY <1>1, <2>2 DEF Filter, InWindow, GoTo, CallInv, Base, TypeOK
  <2>3. CASE Deny(loop)
    BY <2>3 DEF Deny, Return, GoTo, CallInv, Base, TypeOK
  <2>4. CASE Admit(loop)
    <3>1. client[loop] \in Clients /\ pc[loop] = "check"
      BY <2>4 DEF Admit, Base, TypeOK
    <3>2. Cardinality(requests[client[loop]]) \in Nat
      BY <3>1, Finite, FS_CardinalityType
    <3>3. Cardinality(requests[client[loop]]) < Limit
      BY <2>4, <3>2 DEF Admit, Full
    <3>4. pc'[loop] = "append" /\ UNCHANGED <<now, client>>
      BY <2>4 DEF Admit, GoTo, locals, Base, TypeOK
    <3>5. QED
      BY <1>1, <3>1, <3>3, <3>4 DEF CallInv
  <2>5. CASE Tick \/ UNCHANGED vars
    BY <2>5 DEF Tick, vars, locals, CallInv
  <2>6. QED
    BY <2>1, <2>2, <2>3, <2>4, <2>5
<1>5. QED
  BY <1>2, <1>3, <1>4

LEMMA AssignStep ==
        ASSUME NEW loop, Threads = {loop}, LoopInv(loop), Assign(loop)
        PROVE  ListInv' /\ ForgottenInv(loop)' /\ CallInv(loop)' /\ HistoryInv' /\ AdviceInv'
<1> USE ConstantFacts DEF LoopInv
<1> DEFINE mine == client[loop]
<1>1. /\ mine \in Clients /\ loop \in Threads
      /\ kept[loop] = {e \in requests[mine] : now[loop] - e.at < Window}
  BY DEF Assign, CallInv, Base, TypeOK
<1>2. /\ UNCHANGED <<clock, client, now, admitted, advice>>
      /\ pc' = [pc EXCEPT ![loop] = "check"]
      /\ requests' = [requests EXCEPT ![mine] = kept[loop]]
  BY DEF Assign, GoTo
<1> HIDE DEF mine
<1>3. \A c \in Clients : requests'[c] = IF c = mine THEN kept[loop] ELSE requests[c]
  BY <1>1, <1>2 DEF Base, TypeOK
<1>4. \A c \in Clients : requests'[c] \subseteq requests[c]
  BY <1>1, <1>3
<1>5. ListInv'
  <2> SUFFICES ASSUME NEW c \in Clients
               PROVE  requests'[c] \subseteq admitted[c] /\ Cardinality(requests'[c]) <= Limit
    BY <1>2 DEF ListInv
  <2>1. /\ requests'[c] \subseteq requests[c] /\ requests[c] \subseteq admitted[c]
        /\ Cardinality(requests[c]) <= Limit /\ IsFiniteSet(requests[c])
    BY <1>4, Finite DEF ListInv
  <2>2. /\ Cardinality(requests'[c]) \in Nat /\ Cardinality(requests[c]) \in Nat
        /\ Cardinality(requests'[c]) <= Cardinality(requests[c])
    BY <2>1, Subsets
  <2>3. QED
    BY <2>1, <2>2
<1>6. ForgottenInv(loop)'
  <2> SUFFICES ASSUME NEW c \in Clients, NEW e \in admitted[c], e \notin requests'[c]
               PROVE  /\ clock - e.at >= Window
                      /\ Busy(loop, c)' => now[loop] - e.at >= Window
    BY <1>2 DEF ForgottenInv
  <2>1. e.at \in Nat /\ clock \in Nat /\ now[loop] \in Nat /\ now[loop] <= clock
    BY <1>1 DEF Base, TypeOK, Entry
  <2>2. CASE e \notin requests[c]
    <3>1. pc[loop] # "idle"
      BY DEF Assign
    <3>2. Busy(loop, c)' => Busy(loop, c)
      BY <1>2, <3>1 DEF Busy
    <3>3. QED
      BY <2>2, <3>2 DEF ForgottenInv
  <2>3. CASE e \in requests[c]
    BY <1>1, <1>3, <2>1, <2>3
  <2>4. QED
    BY <2>2, <2>3
<1>7. CallInv(loop)'
  <2>1. pc'[loop] = "check" /\ \A e \in requests'[mine] : now[loop] - e.at < Window
    BY <1>1, <1>2, <1>3 DEF Base, TypeOK
  <2>2. QED
    BY <1>2, <2>1 DEF CallInv, mine
<1>8. HistoryInv'
  BY <1>2 DEF HistoryInv, InWindowOf
<1>9. AdviceInv'
  <2> SUFFICES ASSUME NEW c \in Clients, advice[c] # Absent
               PROVE  Cardinality({e \in requests'[c] : e.at > advice[c] - Window}) < Limit
    BY <1>2 DEF AdviceInv
  <2> DEFINE Then(S) == {e \in S : e.at > advice[c] - Window}
  <2>1. Then(requests'[c]) \subseteq Then(requests[c])
    BY <1>4
  <2>2. IsFiniteSet(Then(requests[c]))
    <3>1. IsFiniteSet(requests[c]) /\ Then(requests[c]) \in SUBSET requests[c]
      BY Finite
    <3>2. QED
      BY <3>1, Subsets
  <2>3. Cardinality(Then(requests[c])) < Limit
    BY DEF AdviceInv
  <2> HIDE DEF Then
  <2>4. /\ Cardinality(Then(requests'[c])) \in Nat /\ Cardinality(Then(requests[c])) \in Nat
        /\ Cardinality(Then(requests'[c])) <= Cardinality(Then(requests[c]))
    BY <2>1, <2>2, Subsets
  <2>5. Cardinality(Then(requests'[c])) < Limit
    BY <2>3, <2>4
  <2>6. QED
    BY <2>5 DEF Then
<1>10. QED
  BY <1>5, <1>6, <1>7, <1>8, <1>9

\* The new entry finds room in the list, and every window around it holds only
\* what the list holds.
LEMMA RecordStep ==
        ASSUME NEW loop, Threads = {loop}, LoopInv(loop), Record(loop)
        PROVE  ListInv' /\ ForgottenInv(loop)' /\ CallInv(loop)' /\ HistoryInv' /\ AdviceInv'
<1> USE ConstantFacts DEF LoopInv
<1> DEFINE mine == client[loop]
           new == [at |-> now[loop], id |-> Cardinality(admitted[mine])]
<1>1. /\ mine \in Clients /\ loop \in Threads /\ new \in Entry /\ new.at = now[loop]
      /\ Cardinality(requests[mine]) < Limit
  BY RecordTypes DEF Record, CallInv
<1>2. /\ UNCHANGED clock
      /\ pc' = [pc EXCEPT ![loop] = "idle"]
      /\ requests' = [requests EXCEPT ![mine] = @ \cup {new}]
      /\ admitted' = [admitted EXCEPT ![mine] = @ \cup {new}]
      /\ advice' = [advice EXCEPT ![mine] = Absent]
  BY DEF Record, Return, GoTo
<1>3. pc[loop] = "append"
  BY DEF Record
<1> HIDE DEF mine, new
<1>4. ASSUME NEW c \in Clients
      PROVE  \/ /\ c = mine /\ requests'[c] = requests[c] \cup {new}
                /\ admitted'[c] = admitted[c] \cup {new} /\ advice'[c] = Absent
             \/ /\ c # mine /\ requests'[c] = requests[c]
                /\ admitted'[c] = admitted[c] /\ advice'[c] = advice[c]
  BY <1>1, <1>2 DEF Base, TypeOK
<1>5. ListInv'
  <2> SUFFICES ASSUME NEW c \in Clients
               PROVE  requests'[c] \subseteq admitted'[c] /\ Cardinality(requests'[c]) <= Limit
    BY DEF ListInv
  <2>1. /\ requests[c] \subseteq admitted[c] /\ Cardinality(requests[c]) <= Limit
        /\ Cardinality(requests[c]) \in Nat
        /\ Cardinality(requests[c] \cup {new}) \in Nat
        /\ Cardinality(requests[c] \cup {new}) <= Cardinality(requests[c]) + 1
    BY Finite, OneMore, FS_CardinalityType DEF ListInv
  <2>2. requests'[c] \subseteq admitted'[c]
    BY <1>4, <2>1
  <2>3. CASE c = mine
    <3>1. requests'[c] = requests[c] \cup {new} /\ Cardinality(requests[c]) < Limit
      BY <1>1, <1>4, <2>3
    <3>2. QED
      BY <2>1, <2>2, <3>1
  <2>4. CASE c # mine
    BY <1>4, <2>1, <2>2, <2>4
  <2>5. QED
    BY <2>3, <2>4
<1>6. pc'[loop] = "idle"
  BY <1>1, <1>2 DEF Base, TypeOK
<1>7. ForgottenInv(loop)' /\ CallInv(loop)'
  <2>1. ForgottenInv(loop)'
    <3> SUFFICES ASSUME NEW c \in Clients, NEW e \in admitted'[c] \ requests'[c]
                 PROVE  clock - e.at >= Window
      BY <1>2, <1>6 DEF ForgottenInv, Busy
    <3>1. e \in admitted[c] \ requests[c]
      BY <1>4
    <3>2. QED
      BY <3>1 DEF ForgottenInv
  <2>2. QED
    BY <1>6, <2>1 DEF CallInv
<1>8. HistoryInv'
  <2> SUFFICES ASSUME NEW c \in Clients, NEW s \in Nat
               PROVE  Cardinality(InWindowOf(c, s)') <= Limit
    BY DEF HistoryInv
  <2>1. CASE c = mine /\ s <= new.at /\ new.at < s + Window
    <3>1. InWindowOf(c, s) \subseteq requests[c]
      <4> SUFFICES ASSUME NEW e \in admitted[c], s <= e.at, e \notin requests[c] PROVE FALSE
        BY DEF InWindowOf
      <4>1. now[loop] - e.at >= Window
        BY <1>3, <2>1 DEF ForgottenInv, Busy, mine
      <4>2. e.at \in Nat /\ now[loop] \in Nat
        BY <1>1, Finite DEF Entry, Base, TypeOK
      <4>3. QED
        BY <1>1, <2>1, <4>1, <4>2
    <3>2. InWindowOf(c, s)' \subseteq requests[c] \cup {new}
      BY <1>4, <3>1 DEF InWindowOf
    <3>3. /\ IsFiniteSet(requests[c] \cup {new}) /\ Cardinality(requests[c]) \in Nat
          /\ Cardinality(requests[c] \cup {new}) \in Nat
          /\ Cardinality(requests[c] \cup {new}) <= Cardinality(requests[c]) + 1
      BY Finite, OneMore, FS_CardinalityType
    <3>4. /\ Cardinality(InWindowOf(c, s)') \in Nat
          /\ Cardinality(InWindowOf(c, s)') <= Cardinality(requests[c] \cup {new})
      BY <3>2, <3>3, Subsets
    <3>5. QED
      BY <1>1, <2>1, <3>3, <3>4
  <2>2. CASE ~(c = mine /\ s <= new.at /\ new.at < s + Window)
    <3>1. InWindowOf(c, s)' = InWindowOf(c, s)
      BY <1>4, <2>2 DEF InWindowOf
    <3>2. QED
      BY <3>1 DEF HistoryInv
  <2>3. QED
    BY <2>1, <2>2
<1>9. AdviceInv'
  BY <1>4 DEF AdviceInv
<1>10. QED
  BY <1>5, <1>7, <1>8, <1>9

\* Once the advised time is over, the oldest entry is out of the window.
LEMMA AnswerStep ==
        ASSUME NEW loop, Threads = {loop}, LoopInv(loop),
               NEW c \in Clients, RetryNone(loop, c) \/ RetryAfter(loop, c)
        PROVE  ListInv' /\ ForgottenInv(loop)' /\ CallInv(loop)' /\ HistoryInv' /\ AdviceInv'
<1> USE ConstantFacts DEF LoopInv
<1>1. UNCHANGED <<clock, requests, pc, locals, admitted>>
  BY DEF RetryNone, RetryAfter, Answer
<1>2. ListInv' /\ ForgottenInv(loop)' /\ CallInv(loop)' /\ HistoryInv'
  BY <1>1 DEF locals, ListInv, ForgottenInv, Busy, CallInv, HistoryInv, InWindowOf
<1>3. ASSUME NEW r \in Int, advice' = [advice EXCEPT ![c] = r],
             Cardinality({e \in requests[c] : e.at > r - Window}) < Limit
      PROVE  AdviceInv'
  <2>1. \A d \in Clients : advice'[d] = IF d = c THEN r ELSE advice[d]
    BY <1>3 DEF Base, TypeOK
  <2>2. QED
    BY <1>1, <1>3, <2>1 DEF AdviceInv
<1>4. clock \in Nat
  BY DEF Base, TypeOK
<1>5. ASSUME RetryNone(loop, c) PROVE AdviceInv'
  <2>1. requests[c] = {} /\ advice' = [advice EXCEPT ![c] = clock + 0 * Second]
    BY <1>5 DEF RetryNone, Answer
  <2>2. clock + 0 * Second = clock
    BY <1>4
  <2>3. Cardinality({}) < Limit
    BY FS_EmptySet
  <2>4. {e \in requests[c] : e.at > clock - Window} = {}
    BY <2>1
  <2>5. Cardinality({e \in requests[c] : e.at > clock - Window}) < Limit
    BY <2>3, <2>4
  <2>6. advice' = [advice EXCEPT ![c] = clock]
    BY <2>1, <2>2, Zenon
  <2>7. clock \in Int
    BY <1>4
  <2>8. QED
    BY <1>3, <2>5, <2>6, <2>7, Zenon
<1>6. ASSUME RetryAfter(loop, c) PROVE AdviceInv'
  <2>1. PICK oldest \in requests[c] :
               Answer(loop, c, Seconds(Window - (clock - oldest.at)))
    BY <1>6 DEF RetryAfter
  <2> DEFINE r == clock + Seconds(Window - (clock - oldest.at)) * Second
             Then == {e \in requests[c] : e.at > r - Window}
  <2>2. oldest.at \in Nat /\ Window - (clock - oldest.at) \in Int
    BY <1>4, Finite DEF Entry
  <2>3. r \in Int /\ r > Window + oldest.at /\ advice' = [advice EXCEPT ![c] = r]
    <3>1. /\ Seconds(Window - (clock - oldest.at)) \in Nat
          /\ Seconds(Window - (clock - oldest.at)) * Second > Window - (clock - oldest.at)
      BY <2>2, SecondsSuffice
    <3>2. QED
      BY <1>4, <2>1, <2>2, <3>1 DEF Answer
  <2> HIDE DEF r
  <2>4. Then \subseteq requests[c] \ {oldest}
    BY <2>2, <2>3
  <2>5. /\ IsFiniteSet(requests[c] \ {oldest}) /\ Cardinality(requests[c]) \in Nat
        /\ Cardinality(requests[c] \ {oldest}) = Cardinality(requests[c]) - 1
    BY Finite, FS_RemoveElement, FS_CardinalityType
  <2>6. /\ Cardinality(Then) \in Nat
        /\ Cardinality(Then) <= Cardinality(requests[c] \ {oldest})
        /\ Cardinality(requests[c]) <= Limit
    BY <2>4, <2>5, Subsets DEF ListInv
  <2>7. Cardinality(Then) < Limit
    BY <2>5, <2>6
  <2>8. QED
    BY <1>3, <2>3, <2>7
<1>7. QED
  BY <1>2, <1>5, <1>6

LEMMA LoopInvHolds ==
        ASSUME NEW loop, Threads = {loop}
        PROVE  Spec => []LoopInv(loop)
<1>1. Init => LoopInv(loop)
  BY LoopInit
<1>2. LoopInv(loop) /\ [Next]_vars => LoopInv(loop)'
  <2> SUFFICES ASSUME LoopInv(loop), [Next]_vars PROVE LoopInv(loop)'
    OBVIOUS
  <2>1. Base'
    BY BaseStep DEF LoopInv
  <2>2. \/ \/ \E c \in Clients : Call(loop, c)
           \/ Filter(loop) \/ Deny(loop) \/ Admit(loop) \/ Tick \/ UNCHANGED vars
        \/ Assign(loop) \/ Record(loop)
        \/ \E c \in Clients : RetryNone(loop, c) \/ RetryAfter(loop, c)
    BY DEF Next
  <2>3. QED
    BY <2>1, <2>2, QuietStep, AssignStep, RecordStep, AnswerStep DEF LoopInv
<1>3. QED
  BY <1>1, <1>2, PTL DEF Spec

-----------------------------------------------------------------------------
\* Under one event loop no interval as long as the window, wherever it is put,
\* holds more than Limit admissions of a client.
THEOREM WindowsAreBounded == ASSUME OneLoop PROVE Spec => []WindowBound
<1>1. PICK loop : Threads = {loop}
  BY DEF OneLoop
<1>2. LoopInv(loop) => WindowBound
  BY DEF LoopInv, HistoryInv, InWindowOf, WindowBound, Base, TypeOK
<1>3. Spec => []LoopInv(loop)
  BY <1>1, LoopInvHolds
<1>4. QED
  BY <1>2, <1>3, PTL

\* A denial finds the list full, and of entries that are in the window.
LEMMA DenialsFindAFullList ==
        ASSUME NEW loop, Threads = {loop}, LoopInv(loop), [Next]_vars,
               NEW t \in Threads, Denied(t)
        PROVE  /\ t = loop /\ client[t] \in Clients
               /\ Cardinality(requests[client[t]]) >= Limit
               /\ \A e \in requests[client[t]] : now[t] - e.at < Window
<1>1. t = loop /\ pc[loop] = "check" /\ pc'[loop] = "idle"
  BY DEF Denied
<1>2. Deny(loop)
  BY <1>1 DEF Next, Call, Filter, Assign, Admit, Record, RetryNone, RetryAfter, Answer, Tick,
     GoTo, vars, LoopInv, Base, TypeOK
<1>3. QED
  BY <1>1, <1>2 DEF Deny, Full, LoopInv, CallInv, Base, TypeOK

\* Under one event loop a client is denied only for Limit admissions of its own
\* in the window.
THEOREM DenialsAreJustified == ASSUME OneLoop PROVE Spec => DenialsJustified
<1>1. PICK loop : Threads = {loop}
  BY DEF OneLoop
<1>2. ASSUME LoopInv(loop), [Next]_vars, NEW t \in Threads, Denied(t)
      PROVE  Cardinality({e \in admitted[client[t]] : now[t] - e.at < Window}) >= Limit
  <2> DEFINE c == client[t]
             Recent == {e \in admitted[c] : now[t] - e.at < Window}
  <2>1. /\ c \in Clients /\ Cardinality(requests[c]) >= Limit
        /\ \A e \in requests[c] : now[t] - e.at < Window
    BY <1>1, <1>2, DenialsFindAFullList
  <2>2. requests[c] \subseteq Recent /\ IsFiniteSet(admitted[c]) /\ Recent \in SUBSET admitted[c]
    BY <2>1, <1>2, Finite DEF LoopInv, ListInv
  <2>3. IsFiniteSet(Recent)
    BY <2>2, Subsets
  <2> HIDE DEF Recent
  <2>4. /\ Cardinality(requests[c]) \in Nat /\ Cardinality(Recent) \in Nat
        /\ Cardinality(requests[c]) <= Cardinality(Recent)
    BY <2>2, <2>3, Subsets
  <2>5. Cardinality(Recent) >= Limit
    BY <2>1, <2>4, ConstantFacts
  <2>6. QED
    BY <2>5 DEF Recent
<1>3. LoopInv(loop) /\ [Next]_vars =>
      [\A t \in Threads : Denied(t) =>
          Cardinality({e \in admitted[client[t]] : now[t] - e.at < Window}) >= Limit]_vars
  BY <1>2
<1>4. Spec => []LoopInv(loop)
  BY <1>1, LoopInvHolds
<1>5. QED
  BY <1>3, <1>4, PTL DEF Spec, DenialsJustified

\* Under one event loop a client that waited as long as get_retry_after told it
\* to is not denied, unless it was admitted in between.
THEOREM RetriesAreHonest == ASSUME OneLoop PROVE Spec => RetryHonest
<1>1. PICK loop : Threads = {loop}
  BY DEF OneLoop
<1>2. ASSUME LoopInv(loop), [Next]_vars, NEW t \in Threads, Denied(t)
      PROVE  advice[client[t]] = Absent \/ now[t] < advice[client[t]]
  <2> DEFINE c == client[t]
  <2> SUFFICES ASSUME advice[c] # Absent, now[t] >= advice[c] PROVE FALSE
    BY <1>1, <1>2, DenialsFindAFullList, ConstantFacts DEF LoopInv, Base, TypeOK
  <2>1. /\ c \in Clients /\ Cardinality(requests[c]) >= Limit
        /\ \A e \in requests[c] : now[t] - e.at < Window
    BY <1>1, <1>2, DenialsFindAFullList
  <2>2. now[t] \in Nat /\ advice[c] \in Int /\ \A e \in requests[c] : e.at \in Nat
    BY <2>1, <1>2, Finite DEF LoopInv, Base, TypeOK, Entry
  <2>3. {e \in requests[c] : e.at > advice[c] - Window} = requests[c]
    BY <2>1, <2>2, ConstantFacts
  <2>4. Cardinality(requests[c]) < Limit
    BY <1>2, <2>1, <2>3 DEF LoopInv, AdviceInv
  <2>5. IsFiniteSet(requests[c])
    BY <1>2, <2>1, Finite DEF LoopInv
  <2>6. Cardinality(requests[c]) \in Nat
    BY <2>5, FS_CardinalityType
  <2>7. QED
    BY <2>1, <2>4, <2>6, ConstantFacts
<1>3. LoopInv(loop) /\ [Next]_vars =>
      [\A t \in Threads : Denied(t) =>
          advice[client[t]] = Absent \/ now[t] < advice[client[t]]]_vars
  BY <1>2
<1>4. Spec => []LoopInv(loop)
  BY <1>1, LoopInvHolds
<1>5. QED
  BY <1>3, <1>4, PTL DEF Spec, RetryHonest

-----------------------------------------------------------------------------
\* The refinement.

\* The instance has its own name for the operator of FiniteSets.
LEMMA SameCardinality == ASSUME NEW S PROVE Promise!Cardinality(S) = Cardinality(S)
  BY DEF Promise!Cardinality, Cardinality

LEMMA RoomMeans ==
        ASSUME NEW c, NEW time
        PROVE  Promise!Room(c, time) <=>
                 Cardinality({e \in admitted[c] : time - e.at < Window}) < Limit
  BY SameCardinality DEF Promise!Room

\* The calls of SlidingWindow that are to be judged: under one event loop there is
\* at most one.
LEMMA OneWaits ==
        ASSUME NEW loop, Threads = {loop}
        PROVE  Waiting = IF pc[loop] = "idle" THEN {}
                         ELSE {[caller |-> loop, client |-> client[loop], at |-> now[loop]]}
  BY DEF Waiting

\* No admission is of a time to come.
PastInv == \A c \in Clients : \A e \in admitted[c] : e.at <= clock

LEMMA PastStep ==
        ASSUME Base, PastInv, [Next]_vars
        PROVE  PastInv'
<1>1. CASE \E t \in Threads : Record(t)
  <2> SUFFICES ASSUME NEW c \in Clients, NEW e \in admitted'[c] PROVE e.at <= clock
    BY <1>1 DEF PastInv, Record
  <2>1. PICK t \in Threads : Record(t)
    BY <1>1
  <2>2. e \in admitted[c] \/ e.at = now[t]
    BY <2>1 DEF Record, Base, TypeOK
  <2>3. QED
    BY <2>2 DEF Base, TypeOK, PastInv
<1>2. CASE admitted' = admitted /\ (clock' = clock \/ clock' = clock + 1)
  BY <1>2 DEF PastInv, Base, TypeOK, Entry
<1>3. QED
  BY <1>1, <1>2 DEF Next, Call, Filter, Assign, Deny, Admit, RetryNone, RetryAfter, Answer, Tick, vars

\* What the list has forgotten is out of the window of the call that is judged.
LEMMA ListJudges ==
        ASSUME NEW loop, Threads = {loop}, LoopInv(loop), pc[loop] \in {"check", "append"}
        PROVE  /\ client[loop] \in Clients
               /\ {e \in admitted[client[loop]] : now[loop] - e.at < Window} = requests[client[loop]]
<1>1. client[loop] \in Clients /\ loop \in Threads
  BY DEF LoopInv, Base, TypeOK
<1>2. \A e \in requests[client[loop]] : now[loop] - e.at < Window
  BY DEF LoopInv, CallInv
<1>3. requests[client[loop]] \subseteq admitted[client[loop]]
  BY <1>1 DEF LoopInv, ListInv
<1>4. ASSUME NEW e \in admitted[client[loop]], e \notin requests[client[loop]]
      PROVE  ~(now[loop] - e.at < Window)
  <2>1. now[loop] - e.at >= Window
    BY <1>1, <1>4 DEF LoopInv, ForgottenInv, Busy
  <2>2. now[loop] \in Nat /\ e.at \in Nat
    BY <1>1, <1>4, Finite DEF LoopInv, Base, TypeOK, Entry
  <2>3. QED
    BY <2>1, <2>2, ConstantFacts
<1>5. QED
  BY <1>1, <1>2, <1>3, <1>4

\* int(x) + 1 seconds are a second more than x at most, or one.
LEMMA SecondsEnd ==
        ASSUME NEW ticks \in Int, ticks <= Window
        PROVE  Seconds(ticks) * Second <= Window + Second
<1>1. CASE ticks < 0
  BY <1>1, ConstantFacts DEF Seconds
<1>2. CASE ticks >= 0
  <2> DEFINE q == ticks \div Second
  <2>1. q \in Nat /\ ticks = Second * q + (ticks % Second) /\ (ticks % Second) \in Nat
    BY <1>2, ConstantFacts
  <2>2. (q + 1) * Second = Second * q + Second
    BY <2>1, ConstantFacts
  <2>3. QED
    BY <1>2, <2>1, <2>2, ConstantFacts DEF Seconds
<1>3. QED
  BY <1>1, <1>2

\* An answer of get_retry_after is an advice: what the list has forgotten is out of
\* the window then, too.
LEMMA AnswerAdvises ==
        ASSUME NEW loop, Threads = {loop}, LoopInv(loop), PastInv,
               NEW c \in Clients, RetryNone(loop, c) \/ RetryAfter(loop, c)
        PROVE  Promise!Advise(c)
<1> USE ConstantFacts
<1>1. LoopInv(loop)'
  BY BaseStep, AnswerStep DEF LoopInv, Next
<1>2. UNCHANGED <<clock, requests, pc, locals, admitted>>
  BY DEF RetryNone, RetryAfter, Answer
<1>3. clock \in Nat /\ IsFiniteSet(admitted[c]) /\ requests[c] \subseteq Entry /\ admitted[c] \subseteq Entry
  BY Finite DEF LoopInv, Base, TypeOK
<1>4. \E r \in clock..(clock + (Window + Second)) : advice' = [advice EXCEPT ![c] = r]
  <2>1. CASE RetryNone(loop, c)
    <3>1. advice' = [advice EXCEPT ![c] = clock + 0 * Second]
      BY <2>1 DEF RetryNone, Answer
    <3>2. clock + 0 * Second \in clock..(clock + (Window + Second))
      BY <1>3
    <3>3. QED
      BY <3>1, <3>2, Zenon
  <2>2. CASE RetryAfter(loop, c)
    <3>1. PICK oldest \in requests[c] : Answer(loop, c, Seconds(Window - (clock - oldest.at)))
      BY <2>2 DEF RetryAfter
    <3> DEFINE ticks == Window - (clock - oldest.at)
    <3>2. oldest.at \in Nat /\ oldest.at <= clock
      BY <1>3, <3>1 DEF Entry, PastInv, LoopInv, ListInv
    <3>3. ticks \in Int /\ ticks <= Window
      BY <1>3, <3>2
    <3>4. Seconds(ticks) \in Nat /\ Seconds(ticks) * Second <= Window + Second
      BY <3>3, SecondsSuffice, SecondsEnd
    <3>5. advice' = [advice EXCEPT ![c] = clock + Seconds(ticks) * Second]
      BY <3>1 DEF Answer
    <3> HIDE DEF ticks
    <3>6. Seconds(ticks) * Second \in Nat
      BY <3>4
    <3>7. clock + Seconds(ticks) * Second \in clock..(clock + (Window + Second))
      BY <1>3, <3>4, <3>6
    <3>8. QED
      BY <3>5, <3>7, Zenon
  <2>3. QED
    BY <2>1, <2>2
<1>5. PICK r \in clock..(clock + (Window + Second)) : advice' = [advice EXCEPT ![c] = r]
  BY <1>4
<1>6. advice'[c] = r /\ r \in Nat
  BY <1>3, <1>5 DEF LoopInv, Base, TypeOK
<1>7. {e \in admitted[c] : r - e.at < Window} = {e \in requests[c] : e.at > r - Window}
  <2>1. ASSUME NEW e \in admitted[c], r - e.at < Window PROVE e \in requests[c]
    <3>1. e \notin requests[c] => clock - e.at >= Window
      BY DEF LoopInv, ForgottenInv
    <3>2. QED
      BY <1>3, <1>5, <2>1, <3>1 DEF Entry
  <2>2. requests[c] \subseteq admitted[c] /\ \A e \in admitted[c] : e.at \in Nat
    BY <1>3 DEF LoopInv, ListInv, Entry
  <2>3. \A e \in admitted[c] : r - e.at < Window <=> e.at > r - Window
    BY <1>6, <2>2
  <2>4. QED
    BY <2>1, <2>2, <2>3
<1>8. Cardinality({e \in requests[c] : e.at > r - Window}) < Limit
  <2>1. advice'[c] # Absent
    BY <1>6, ConstantFacts
  <2>2. Cardinality({e \in requests'[c] : e.at > advice'[c] - Window}) < Limit
    BY <1>1, <2>1 DEF LoopInv, AdviceInv
  <2>3. QED
    BY <1>2, <1>6, <2>2
<1>9. Promise!Room(c, r)
  BY <1>7, <1>8, RoomMeans
<1>10. UNCHANGED <<clock, Waiting, admitted>>
  BY <1>2 DEF Waiting, locals
<1>11. QED
  BY <1>5, <1>9, <1>10 DEF Promise!Advise

LEMMA StepRefines ==
        ASSUME NEW loop, Threads = {loop}, LoopInv(loop), PastInv, [Next]_vars
        PROVE  [Promise!Next]_(Promise!vars)
<1> DEFINE mine == [caller |-> loop, client |-> client[loop], at |-> now[loop]]
<1>1. Base /\ loop \in Threads
  BY DEF LoopInv
<1>2. ASSUME NEW c \in Clients, Call(loop, c) PROVE Promise!Next
  <2>1. Waiting = {} /\ Waiting' = {[caller |-> loop, client |-> c, at |-> clock]}
    BY <1>1, <1>2, OneWaits DEF Call, Time, GoTo, Waiting, Base, TypeOK
  <2>2. Promise!Begin(loop, c)
    BY <1>2, <2>1 DEF Call, Promise!Begin
  <2>3. QED
    BY <1>1, <2>2 DEF Promise!Next
<1>3. CASE Filter(loop) \/ Assign(loop) \/ Admit(loop) \/ UNCHANGED vars
  <2>1. UNCHANGED <<clock, admitted, advice, client, now>>
    BY <1>3 DEF Filter, Assign, Admit, vars, locals
  <2>2. pc[loop] = "idle" <=> pc'[loop] = "idle"
    BY <1>1, <1>3 DEF Filter, Assign, Admit, vars, GoTo, Base, TypeOK
  <2>3. Waiting' = Waiting
    BY <2>1, <2>2 DEF Waiting
  <2>4. QED
    BY <2>1, <2>3 DEF Promise!vars
<1>4. CASE Deny(loop)
  <2>1. /\ client[loop] \in Clients /\ Cardinality(requests[client[loop]]) >= Limit
        /\ {e \in admitted[client[loop]] : now[loop] - e.at < Window} = requests[client[loop]]
    BY <1>4, ListJudges DEF Deny, Full
  <2>2. Cardinality(requests[client[loop]]) \in Nat
    BY <1>1, <2>1, Finite, FS_CardinalityType DEF LoopInv
  <2>3. ~Promise!Room(client[loop], now[loop])
    BY <2>1, <2>2, ConstantFacts, RoomMeans
  <2>4. Waiting = {mine} /\ Waiting' = {}
    BY <1>1, <1>4, OneWaits DEF Waiting, Deny, Return, GoTo, Base, TypeOK
  <2>5. Promise!Deny(mine)
    BY <1>4, <2>3, <2>4 DEF Promise!Deny, Deny
  <2>6. QED
    BY <2>4, <2>5 DEF Promise!Next
<1>5. CASE Record(loop)
  <2>1. /\ client[loop] \in Clients /\ Cardinality(requests[client[loop]]) < Limit
        /\ {e \in admitted[client[loop]] : now[loop] - e.at < Window} = requests[client[loop]]
    BY <1>5, ListJudges DEF Record, LoopInv, CallInv
  <2>2. Promise!Room(client[loop], now[loop])
    BY <2>1, RoomMeans
  <2>3. Waiting = {mine} /\ Waiting' = {}
    BY <1>1, <1>5, OneWaits DEF Waiting, Record, Return, GoTo, Base, TypeOK
  <2>4. /\ UNCHANGED clock
        /\ advice' = [advice EXCEPT ![client[loop]] = Absent]
        /\ admitted' = [admitted EXCEPT ![client[loop]] =
                          @ \cup {[at |-> now[loop], id |-> Promise!Cardinality(@)]}]
    BY <1>5, SameCardinality DEF Record
  <2>5. Promise!Admit(mine)
    <3>1. mine.client = client[loop] /\ mine.at = now[loop]
      OBVIOUS
    <3> HIDE DEF mine
    <3>2. QED
      BY <2>2, <2>3, <2>4, <3>1 DEF Promise!Admit
  <2>6. QED
    BY <2>3, <2>5 DEF Promise!Next
<1>6. ASSUME NEW c \in Clients, RetryNone(loop, c) \/ RetryAfter(loop, c) PROVE Promise!Next
  BY <1>6, AnswerAdvises DEF Promise!Next
<1>7. CASE Tick
  BY <1>7 DEF Tick, Waiting, locals, Promise!Next, Promise!Tick
<1>8. QED
  BY <1>2, <1>3, <1>4, <1>5, <1>6, <1>7 DEF Next

\* Under one event loop the limiter in memory implements SlidingWindow: forgetting
\* what has left the window changes no judgement and no advice.
THEOREM MemoryImplementsSlidingWindow == ASSUME OneLoop PROVE Spec => ImplementsSlidingWindow
<1>1. PICK loop : Threads = {loop}
  BY DEF OneLoop
<1>2. Init => Promise!Init
  BY DEF Init, Promise!Init, Waiting
<1>3. Init => PastInv
  BY DEF Init, PastInv
<1>4. LoopInv(loop) /\ PastInv /\ [Next]_vars => PastInv'
  BY PastStep DEF LoopInv
<1>5. LoopInv(loop) /\ PastInv /\ [Next]_vars => [Promise!Next]_(Promise!vars)
  BY <1>1, StepRefines
<1>6. Spec => []LoopInv(loop)
  BY <1>1, LoopInvHolds
<1>7. QED
  BY <1>2, <1>3, <1>4, <1>5, <1>6, PTL DEF Spec, ImplementsSlidingWindow, Promise!Spec

\* What SlidingWindow is worth: whoever implements it, with any number of calls
\* waiting for their judgement, admits no more than Limit in any window, although
\* a call may be judged long after it was made.
JudgedInv ==
    /\ clock \in Nat
    /\ \A w \in Waiting : w.client \in Clients /\ w.at \in Nat /\ w.at <= clock
    /\ admitted \in [Clients -> SUBSET Entry]
    /\ \A c \in Clients : IsFiniteSet(admitted[c])
    /\ HistoryInv

LEMMA AdmitBounded ==
        ASSUME JudgedInv, NEW w \in Waiting, Promise!Admit(w)
        PROVE  JudgedInv'
<1> DEFINE e == [at |-> w.at, id |-> Promise!Cardinality(admitted[w.client])]
<1>1. /\ w.client \in Clients /\ w.at \in Nat
      /\ IsFiniteSet(admitted[w.client]) /\ admitted[w.client] \subseteq Entry
  BY DEF JudgedInv
<1>2. e \in Entry /\ e.at = w.at
  BY <1>1, SameCardinality, FS_CardinalityType DEF Entry
<1> HIDE DEF e
<1>3. /\ admitted' = [admitted EXCEPT ![w.client] = @ \cup {e}]
      /\ clock' = clock /\ Waiting' \subseteq Waiting
  BY DEF Promise!Admit, e
<1>4. admitted' \in [Clients -> SUBSET Entry]
  BY <1>2, <1>3 DEF JudgedInv
<1>5. ASSUME NEW c \in Clients PROVE IsFiniteSet(admitted'[c])
  BY <1>3, OneMore DEF JudgedInv
<1>6. ASSUME NEW c \in Clients, NEW s \in Nat PROVE Cardinality(InWindowOf(c, s)') <= Limit
  <2>1. Cardinality(InWindowOf(c, s)) <= Limit
    BY DEF JudgedInv, HistoryInv
  <2>2. CASE c # w.client \/ ~(s <= w.at /\ w.at < s + Window)
    <3>1. InWindowOf(c, s)' = InWindowOf(c, s)
      BY <1>2, <1>3, <2>2 DEF InWindowOf, JudgedInv
    <3>2. QED
      BY <2>1, <3>1
  <2>3. CASE c = w.client /\ s <= w.at /\ w.at < s + Window
    <3> DEFINE room == {f \in admitted[c] : w.at - f.at < Window}
    <3>1. IsFiniteSet(room) /\ Cardinality(room) \in Nat
      BY <1>1, <2>3, Subsets
    <3>2. Cardinality(room) < Limit
      BY <2>3, RoomMeans DEF Promise!Admit
    <3>3. \A f \in admitted[c] : f.at \in Nat
      BY <1>1, <2>3 DEF Entry
    <3>4. InWindowOf(c, s) \subseteq room
      BY <1>1, <2>3, <3>3, ConstantFacts DEF InWindowOf
    <3>5. InWindowOf(c, s)' \subseteq InWindowOf(c, s) \cup {e}
      BY <1>3, <2>3 DEF InWindowOf, JudgedInv
    <3>6. IsFiniteSet(room \cup {e}) /\ Cardinality(room \cup {e}) <= Cardinality(room) + 1
      BY <3>1, OneMore
    <3>7. InWindowOf(c, s)' \in SUBSET (room \cup {e})
      BY <3>4, <3>5
    <3> HIDE DEF room
    <3>8. /\ Cardinality(InWindowOf(c, s)') <= Cardinality(room \cup {e})
          /\ Cardinality(InWindowOf(c, s)') \in Nat /\ Cardinality(room \cup {e}) \in Nat
      BY <3>6, <3>7, Subsets
    <3>9. QED
      BY <3>1, <3>2, <3>6, <3>8, ConstantFacts
  <2>4. QED
    BY <2>2, <2>3
<1>7. QED
  BY <1>3, <1>4, <1>5, <1>6 DEF JudgedInv, HistoryInv

\* What the abstract limiter promises keeps every window within the limit, for any
\* number of callers: the ceiling follows from the promise alone, so it holds for
\* whatever implements SlidingWindow.
THEOREM SlidingWindowIsBounded == ImplementsSlidingWindow => []WindowBound
<1>1. Promise!Init => JudgedInv
  <2> SUFFICES ASSUME Promise!Init PROVE JudgedInv
    OBVIOUS
  <2>1. \A c \in Clients : admitted[c] = {} /\ \A s \in Nat : InWindowOf(c, s) = {}
    BY DEF Promise!Init, InWindowOf
  <2>2. IsFiniteSet({}) /\ Cardinality({}) = 0
    BY FS_EmptySet
  <2>3. HistoryInv
    BY <2>1, <2>2, ConstantFacts DEF HistoryInv
  <2>4. QED
    BY <2>1, <2>2, <2>3 DEF Promise!Init, JudgedInv
<1>2. JudgedInv /\ [Promise!Next]_(Promise!vars) => JudgedInv'
  <2> SUFFICES ASSUME JudgedInv, [Promise!Next]_(Promise!vars) PROVE JudgedInv'
    OBVIOUS
  <2>1. ASSUME NEW w \in Waiting, Promise!Admit(w) PROVE JudgedInv'
    BY <2>1, AdmitBounded
  <2>2. ASSUME admitted' = admitted, clock' \in {clock, clock + 1},
               \A w \in Waiting' : w \in Waiting \/ (w.client \in Clients /\ w.at = clock)
        PROVE  JudgedInv'
    BY <2>2 DEF JudgedInv, HistoryInv, InWindowOf
  <2>3. ASSUME NEW t \in Threads, NEW c \in Clients, Promise!Begin(t, c) PROVE JudgedInv'
    BY <2>2, <2>3 DEF Promise!Begin
  <2>4. QED
    BY <2>1, <2>2, <2>3 DEF Promise!Next, Promise!Deny, Promise!Advise, Promise!Tick, Promise!vars
<1>3. JudgedInv => WindowBound
  <2> SUFFICES ASSUME JudgedInv, NEW c \in Clients, NEW s \in 0..clock
               PROVE  Cardinality(InWindowOf(c, s)) <= Limit
    BY DEF WindowBound, InWindowOf
  <2>1. s \in Nat
    BY DEF JudgedInv
  <2>2. QED
    BY <2>1 DEF JudgedInv, HistoryInv
<1>4. QED
  BY <1>1, <1>2, <1>3, PTL DEF ImplementsSlidingWindow, Promise!Spec

-----------------------------------------------------------------------------
\* The registration endpoint.  On one event loop every client was created under
\* an admission of its own, which carries the limiter's bound over to the registry.

allVars == <<vars, handler>>

LEMMA HandlerFacts == NoRequest \notin Requests /\ NoEntry \notin Entry /\ Hooks \in Nat
  BY HandlerAssumption

-----------------------------------------------------------------------------
\* Types, for any threads.
TurnInv == \A r \in Requests : stage[r] \in {"limit", "denied"} <=> turn = r

Types == /\ Base /\ HandlerTypeOK /\ TurnInv
         /\ IsFiniteSet(registry)

\* Every step of the handler is one of the limiter, or leaves it alone.
LEMMA LimiterStep == Types /\ [HandlerNext]_allVars => [Next]_vars
<1> SUFFICES ASSUME Types, HandlerNext PROVE Next \/ UNCHANGED vars
  BY DEF allVars
<1>1. ASSUME NEW r \in Requests, Handle(r) PROVE Next \/ UNCHANGED vars
  <2>1. CASE \E c \in Clients : Receive(r, c)
    BY <2>1 DEF Receive, Next
  <2>2. CASE Admitted(r) \/ Denial(r)
    BY <2>2 DEF Admitted, Denial, Next
  <2>3. CASE TurnAway(r)
    <3>1. PICK t \in Threads : RetryNone(t, request[r].ip) \/ RetryAfter(t, request[r].ip)
      BY <2>3 DEF TurnAway
    <3>2. request[r].ip \in Clients
      BY <2>3 DEF TurnAway, Types, HandlerTypeOK
    <3>3. QED
      BY <3>1, <3>2 DEF Next
  <2>4. CASE Fail(r) \/ Create(r) \/ CreateUnheard(r) \/ RunHook(r) \/ Respond(r) \/ Abandon(r)
    BY <2>4 DEF Fail, Create, CreateUnheard, RunHook, Respond, Abandon
  <2>5. QED
    BY <1>1, <2>1, <2>2, <2>3, <2>4 DEF Handle
<1>2. ASSUME NEW t \in Threads, Elsewhere(t) \/ Within(t) PROVE Next \/ UNCHANGED vars
  BY <1>2 DEF Elsewhere, Within, Next
<1>3. QED
  BY <1>1, <1>2 DEF HandlerNext, Next

\* The client that is created has the type of one, if its request was admitted.
LEMMA NewClientType ==
        ASSUME Types, NEW r \in Requests, stage[r] = "body"
        PROVE  /\ NewClient(r) \in RegisteredClient
               /\ NewClient(r).id \in Nat
               /\ IsFiniteSet(registry \cup {NewClient(r)})
<1>1. Cardinality(registry) \in Nat /\ IsFiniteSet(registry \cup {NewClient(r)})
  BY FS_CardinalityType, FS_AddElement DEF Types
<1>2. request[r].ip \in Clients /\ request[r].entry \in Entry
  BY DEF Types, HandlerTypeOK
<1>3. QED
  BY <1>1, <1>2 DEF NewClient, RegisteredClient

LEMMA BlankType == Blank \in Request
  BY HandlerFacts DEF Blank, Request

LEMMA TypesStep == Types /\ [HandlerNext]_allVars => Types'
<1> SUFFICES ASSUME Types, [HandlerNext]_allVars PROVE Types'
  OBVIOUS
<1> DEFINE Rest == (HandlerTypeOK /\ TurnInv /\ IsFiniteSet(registry))'
<1> USE HandlerFacts, BlankType
<1>1. Base'
  BY LimiterStep, BaseStep DEF Types
<1>2. ASSUME NEW r \in Requests, NEW c \in Clients, Receive(r, c) PROVE Rest
  BY <1>2 DEF Types, HandlerTypeOK, TurnInv, Receive, At, LoopFree, Goto, Request
<1>3. ASSUME NEW r \in Requests, Admitted(r) PROVE Rest
  <2>1. request[r].ip \in Clients
    BY <1>3 DEF Types, HandlerTypeOK, TurnInv, Admitted
  <2>2. PICK e \in admitted'[request[r].ip] : request' = [request EXCEPT ![r].entry = e]
    BY <1>3 DEF Admitted
  <2>3. e \in Entry
    BY <1>1, <2>1, <2>2 DEF Base, TypeOK
  <2>4. QED
    BY <1>3, <2>1, <2>2, <2>3 DEF Types, HandlerTypeOK, TurnInv, Admitted, Goto, Request
<1>4. ASSUME NEW r \in Requests, Denial(r) PROVE Rest
  BY <1>4 DEF Types, HandlerTypeOK, TurnInv, Denial, Goto
<1>5. ASSUME NEW r \in Requests, TurnAway(r) \/ Fail(r) PROVE Rest
  <2>1. /\ stage[r] \in {"denied", "body"} /\ End(r)
        /\ UNCHANGED <<registry, settled>>
        /\ IF stage[r] = "denied" THEN turn' = NoRequest ELSE turn = NoRequest /\ turn' = turn
    BY <1>5 DEF TurnAway, Fail, At, LoopFree
  <2>2. QED
    BY <2>1 DEF Types, HandlerTypeOK, TurnInv, End, Goto, Request
<1>6. ASSUME NEW r \in Requests, Create(r) PROVE Rest
  <2> DEFINE k == NewClient(r)
  <2>1. k \in RegisteredClient /\ k.id \in Nat /\ IsFiniteSet(registry \cup {k})
    BY <1>6, NewClientType DEF Create, At
  <2>2. /\ stage[r] = "body" /\ turn = NoRequest /\ registry' = registry \cup {k}
        /\ Goto(r, "hooks")
        /\ request' = [request EXCEPT ![r].id = k.id, ![r].left = Hooks]
        /\ UNCHANGED <<turn, settled>>
    BY <1>6 DEF Create, At, LoopFree
  <2> HIDE DEF k
  <2>3. /\ request' \in [Requests -> Request]
        /\ \A q \in Requests : /\ request'[q].ip = request[q].ip
                               /\ request'[q].entry = request[q].entry
                               /\ request'[q].id = IF q = r THEN k.id ELSE request[q].id
    <3>1. request[r] \in Request /\ k.id \in Nat /\ Hooks \in 0..Hooks
      BY <2>1 DEF Types, HandlerTypeOK
    <3>2. request \in [Requests -> Request]
      BY DEF Types, HandlerTypeOK
    <3>3. /\ request' \in [Requests -> Request]
          /\ request'[r] = [request[r] EXCEPT !.id = k.id, !.left = Hooks]
          /\ \A q \in Requests : q # r => request'[q] = request[q]
      BY <2>2, <3>1, <3>2 DEF Request
    <3>4. QED
      BY <3>1, <3>3 DEF Request
  <2>4. /\ {q.id : q \in registry} \subseteq {q.id : q \in registry'}
        /\ k.id \in {q.id : q \in registry'}
    BY <2>2
  <2>5. /\ stage' \in [Requests -> {"idle", "limit", "denied", "body", "hooks"}]
        /\ \A q \in Requests : stage'[q] = IF q = r THEN "hooks" ELSE stage[q]
    BY <2>2 DEF Types, HandlerTypeOK, Goto
  <2>6. HandlerTypeOK'
    BY <2>1, <2>2, <2>3, <2>4, <2>5 DEF Types, HandlerTypeOK
  <2>7. QED
    BY <2>1, <2>2, <2>5, <2>6 DEF Types, TurnInv
<1>7. ASSUME NEW r \in Requests, CreateUnheard(r) PROVE Rest
  <2> DEFINE k == NewClient(r)
  <2>1. k \in RegisteredClient /\ k.id \in Nat /\ IsFiniteSet(registry \cup {k})
    BY <1>7, NewClientType DEF CreateUnheard, At
  <2>2. /\ stage[r] = "body" /\ turn = NoRequest /\ registry' = registry \cup {k}
        /\ End(r) /\ settled' = settled \cup {k.id} /\ UNCHANGED turn
    BY <1>7 DEF CreateUnheard, At, LoopFree
  <2> HIDE DEF k
  <2>3. QED
    BY <2>1, <2>2 DEF Types, HandlerTypeOK, TurnInv, End, Goto, Request
<1>8. ASSUME NEW r \in Requests, RunHook(r) PROVE Rest
  <2>1. request[r].left - 1 \in 0..Hooks
    BY <1>8 DEF Types, HandlerTypeOK, Request, RunHook
  <2>2. QED
    BY <1>8, <2>1 DEF Types, HandlerTypeOK, TurnInv, RunHook, Request
<1>9. ASSUME NEW r \in Requests, Respond(r) \/ Abandon(r) PROVE Rest
  <2>1. /\ stage[r] = "hooks" /\ turn = NoRequest /\ End(r)
        /\ settled' = settled \cup {request[r].id} /\ UNCHANGED <<turn, registry>>
    BY <1>9 DEF Respond, Abandon, At, LoopFree
  <2>2. QED
    BY <2>1 DEF Types, HandlerTypeOK, TurnInv, End, Goto, Request
<1>10. ASSUME UNCHANGED handler PROVE Rest
  BY <1>10 DEF Types, HandlerTypeOK, TurnInv, handler
<1>11. QED
  BY <1>1, <1>2, <1>3, <1>4, <1>5, <1>6, <1>7, <1>8, <1>9, <1>10
  DEF Types, HandlerNext, Handle, Elsewhere, Within, allVars

LEMMA TypesHold == HandlerSpec => []Types
<1>1. HandlerInit => Types
  BY HandlerFacts, BlankType, ConstantFacts, FS_EmptySet
  DEF HandlerInit, Init, Types, Base, TypeOK, HandlerTypeOK, TurnInv
<1>2. QED
  BY <1>1, TypesStep, PTL DEF HandlerSpec, allVars

\* The handler's variables keep their types; who got past the limiter has an
\* admission, and who got past the registry a client in it.
THEOREM HandlerTypeCorrect == HandlerSpec => []HandlerTypeOK
  BY TypesHold, PTL DEF Types

\* The limiter under the handler is the limiter that was proved correct.
THEOREM HandlerDrivesLimiter == HandlerSpec => Spec
<1>1. HandlerInit => Init
  BY DEF HandlerInit
<1>2. QED
  BY <1>1, TypesHold, LimiterStep, PTL DEF HandlerSpec, Spec, allVars

-----------------------------------------------------------------------------
\* Credentials: no step but the end of its request takes a client from the hooks.
LEMMA CredentialsStep ==
        Types /\ CredentialsDelivered /\ [HandlerNext]_allVars => CredentialsDelivered'
<1> SUFFICES ASSUME Types, CredentialsDelivered, [HandlerNext]_allVars,
                    NEW k \in registry', k.id \notin settled'
             PROVE  \E r \in Requests : stage'[r] = "hooks" /\ request'[r].id = k.id
  BY DEF CredentialsDelivered
<1> DEFINE Goal == \E r \in Requests : stage'[r] = "hooks" /\ request'[r].id = k.id
<1>1. stage \in [Requests -> {"idle", "limit", "denied", "body", "hooks"}]
      /\ request \in [Requests -> Request]
  BY DEF Types, HandlerTypeOK
<1>2. ASSUME k \in registry, settled \subseteq settled',
             \A q \in Requests : stage[q] = "hooks" =>
                \/ stage'[q] = "hooks" /\ request'[q].id = request[q].id
                \/ request[q].id \in settled'
      PROVE  Goal
  BY <1>2 DEF CredentialsDelivered
<1>3. ASSUME NEW r \in Requests, NEW c \in Clients, Receive(r, c) PROVE Goal
  BY <1>1, <1>2, <1>3 DEF Receive, At, Goto, Request
<1>4. ASSUME NEW r \in Requests, Admitted(r) PROVE Goal
  <2>1. stage[r] \in {"limit", "denied"}
    BY <1>4 DEF Admitted, Types, TurnInv
  <2>2. PICK e : request' = [request EXCEPT ![r].entry = e]
    BY <1>4 DEF Admitted
  <2>3. QED
    BY <1>1, <1>2, <1>4, <2>1, <2>2 DEF Admitted, Goto, Request
<1>5. ASSUME NEW r \in Requests, Denial(r) PROVE Goal
  <2>1. stage[r] \in {"limit", "denied"}
    BY <1>5 DEF Denial, Types, TurnInv
  <2>2. QED
    BY <1>1, <1>2, <1>5, <2>1 DEF Denial, Goto
<1>6. ASSUME NEW r \in Requests, TurnAway(r) \/ Fail(r) PROVE Goal
  BY <1>1, <1>2, <1>6 DEF TurnAway, Fail, At, End, Goto
<1>7. ASSUME NEW r \in Requests, Create(r) PROVE Goal
  <2> DEFINE new == NewClient(r)
  <2>1. /\ stage[r] = "body" /\ registry' = registry \cup {new} /\ settled' = settled
        /\ stage' = [stage EXCEPT ![r] = "hooks"]
        /\ request' = [request EXCEPT ![r].id = new.id, ![r].left = Hooks]
    BY <1>7 DEF Create, At, Goto
  <2> HIDE DEF new
  <2>2. stage'[r] = "hooks" /\ request'[r].id = new.id
    BY <1>1, <2>1 DEF Request
  <2>3. \A q \in Requests : q # r => stage'[q] = stage[q] /\ request'[q] = request[q]
    BY <1>1, <2>1
  <2>4. CASE k = new
    BY <2>2, <2>4
  <2>5. CASE k \in registry
    BY <1>2, <2>1, <2>3, <2>5
  <2>6. QED
    BY <2>1, <2>4, <2>5
<1>8. ASSUME NEW r \in Requests, CreateUnheard(r) PROVE Goal
  <2>1. /\ stage[r] = "body" /\ k \in registry
        /\ settled \subseteq settled' /\ End(r)
    BY <1>8 DEF CreateUnheard, At
  <2>2. QED
    BY <1>1, <1>2, <2>1 DEF End, Goto
<1>9. ASSUME NEW r \in Requests, RunHook(r) PROVE Goal
  BY <1>1, <1>2, <1>9 DEF RunHook, Request
<1>10. ASSUME NEW r \in Requests, Respond(r) \/ Abandon(r) PROVE Goal
  BY <1>1, <1>2, <1>10 DEF Respond, Abandon, End, Goto
<1>11. ASSUME UNCHANGED handler PROVE Goal
  BY <1>2, <1>11 DEF handler
<1>12. QED
  BY <1>3, <1>4, <1>5, <1>6, <1>7, <1>8, <1>9, <1>10, <1>11
  DEF HandlerNext, Handle, Elsewhere, Within, allVars

\* Whatever the hooks do, a client that was created is answered, or will be,
\* unless the registry or a cancellation ended its request.
THEOREM CredentialsAreDelivered == HandlerSpec => []CredentialsDelivered
<1>1. HandlerInit => CredentialsDelivered
  BY DEF HandlerInit, CredentialsDelivered
<1>2. QED
  BY <1>1, TypesHold, CredentialsStep, PTL DEF HandlerSpec, allVars

-----------------------------------------------------------------------------
\* Admissions: each is used by one request, and then by one client, at most.
Held == \A r \in Requests :
            stage[r] \in {"body", "hooks"} => request[r].entry \in admitted[request[r].ip]
Used == \A k \in registry : k.entry \in admitted[k.ip]
Unused == \A r \in Requests : \A k \in registry :
              stage[r] = "body" /\ k.ip = request[r].ip => k.entry # request[r].entry
Apart == \A q, r \in Requests :
             /\ q # r /\ stage[q] = "body" /\ stage[r] = "body"
             /\ request[q].ip = request[r].ip
             => request[q].entry # request[r].entry
Single == \A k, l \in registry : k.ip = l.ip /\ k.entry = l.entry => k = l

EntryInv == Held /\ Used /\ Unused /\ Apart /\ Single

LEMMA AdmissionsStay ==
        Base /\ [Next]_vars => \A c \in Clients : admitted[c] \subseteq admitted'[c]
<1> SUFFICES ASSUME Base, [Next]_vars PROVE \A c \in Clients : admitted[c] \subseteq admitted'[c]
  OBVIOUS
<1>1. ASSUME NEW t \in Threads, Record(t)
      PROVE  \A c \in Clients : admitted[c] \subseteq admitted'[c]
  <2>1. PICK e : admitted' = [admitted EXCEPT ![client[t]] = @ \cup {e}]
    BY <1>1 DEF Record
  <2>2. QED
    BY <2>1 DEF Base, TypeOK
<1>2. CASE UNCHANGED admitted
  BY <1>2
<1>3. QED
  BY <1>1, <1>2
  DEF Next, Call, Filter, Assign, Deny, Admit, RetryNone, RetryAfter, Answer, Tick, vars

\* A step that gives no request an admission and creates no client.
LEMMA NoneUsed ==
        ASSUME Types, EntryInv, [Next]_vars, registry' = registry,
               \A q \in Requests : stage'[q] \in {"body", "hooks"} =>
                  /\ stage'[q] = stage[q]
                  /\ request'[q].ip = request[q].ip
                  /\ request'[q].entry = request[q].entry
        PROVE  EntryInv'
<1>1. \A c \in Clients : admitted[c] \subseteq admitted'[c]
  BY AdmissionsStay DEF Types
<1>2. (Held /\ Used)'
  BY <1>1 DEF EntryInv, Held, Used, Types, HandlerTypeOK, RegisteredClient
<1>3. (Unused /\ Apart /\ Single)'
  BY DEF EntryInv, Unused, Apart, Single
<1>4. QED
  BY <1>2, <1>3 DEF EntryInv

\* A client is created under the admission of its request, which then waits for
\* the body no longer.
LEMMA OneUsed ==
        ASSUME Types, EntryInv, NEW r \in Requests, stage[r] = "body",
               registry' = registry \cup {NewClient(r)}, UNCHANGED admitted,
               stage'[r] # "body",
               stage'[r] = "hooks" =>
                  request'[r].ip = request[r].ip /\ request'[r].entry = request[r].entry,
               \A q \in Requests : q # r => stage'[q] = stage[q] /\ request'[q] = request[q]
        PROVE  EntryInv'
<1> DEFINE k == NewClient(r)
<1>1. k.ip = request[r].ip /\ k.entry = request[r].entry /\ registry' = registry \cup {k}
  BY DEF NewClient
<1> HIDE DEF k
<1>2. stage'[r] \in {"body", "hooks"} => stage'[r] = "hooks"
  OBVIOUS
<1>3. (Held /\ Used)'
  BY <1>1 DEF EntryInv, Held, Used
<1>4. (Unused /\ Apart)'
  BY <1>1 DEF EntryInv, Unused, Apart
<1>5. Single'
  BY <1>1 DEF EntryInv, Single, Unused
<1>6. QED
  BY <1>3, <1>4, <1>5 DEF EntryInv

LEMMA EntryStep == Types /\ EntryInv /\ [HandlerNext]_allVars => EntryInv'
<1> SUFFICES ASSUME Types, EntryInv, [HandlerNext]_allVars PROVE EntryInv'
  OBVIOUS
<1>1. /\ stage \in [Requests -> {"idle", "limit", "denied", "body", "hooks"}]
      /\ request \in [Requests -> Request]
  BY DEF Types, HandlerTypeOK
<1>2. [Next]_vars
  BY LimiterStep
<1>3. ASSUME NEW r \in Requests,
             \/ \E c \in Clients : Receive(r, c)
             \/ Denial(r) \/ TurnAway(r) \/ Fail(r) \/ Respond(r) \/ Abandon(r)
      PROVE  EntryInv'
  <2>1. /\ registry' = registry
        /\ stage'[r] \notin {"body", "hooks"}
        /\ \A q \in Requests : q # r => stage'[q] = stage[q] /\ request'[q] = request[q]
    BY <1>1, <1>3 DEF Receive, Denial, TurnAway, Fail, Respond, Abandon, End, Goto
  <2>2. QED
    BY <1>2, <2>1, NoneUsed
<1>4. ASSUME NEW r \in Requests, RunHook(r) PROVE EntryInv'
  <2>1. /\ registry' = registry /\ stage' = stage
        /\ \A q \in Requests : /\ request'[q].ip = request[q].ip
                               /\ request'[q].entry = request[q].entry
    BY <1>1, <1>4 DEF RunHook, Request
  <2>2. QED
    BY <1>2, <2>1, NoneUsed
<1>5. ASSUME UNCHANGED handler PROVE EntryInv'
  BY <1>2, <1>5, NoneUsed DEF handler
<1>6. ASSUME NEW r \in Requests, Create(r) PROVE EntryInv'
  <2> DEFINE id == NewClient(r).id
  <2>1. /\ stage[r] = "body" /\ registry' = registry \cup {NewClient(r)}
        /\ stage' = [stage EXCEPT ![r] = "hooks"]
        /\ request' = [request EXCEPT ![r].id = id, ![r].left = Hooks]
        /\ UNCHANGED admitted
    BY <1>6 DEF Create, At, Goto, vars
  <2> HIDE DEF id
  <2>2. request'[r].ip = request[r].ip /\ request'[r].entry = request[r].entry
    BY <1>1, <2>1 DEF Request
  <2>3. stage'[r] = "hooks"
    BY <1>1, <2>1
  <2>4. \A q \in Requests : q # r => stage'[q] = stage[q] /\ request'[q] = request[q]
    BY <1>1, <2>1
  <2>5. QED
    BY <2>1, <2>2, <2>3, <2>4, OneUsed
<1>7. ASSUME NEW r \in Requests, CreateUnheard(r) PROVE EntryInv'
  <2>1. /\ stage[r] = "body" /\ registry' = registry \cup {NewClient(r)}
        /\ UNCHANGED admitted
    BY <1>7 DEF CreateUnheard, At, vars
  <2>2. /\ stage'[r] = "idle"
        /\ \A q \in Requests : q # r => stage'[q] = stage[q] /\ request'[q] = request[q]
    BY <1>1, <1>7 DEF CreateUnheard, End, Goto
  <2>3. QED
    BY <2>1, <2>2, OneUsed
<1>8. ASSUME NEW r \in Requests, Admitted(r) PROVE EntryInv'
  <2> DEFINE c == request[r].ip
  <2>1. PICK e \in admitted'[c] \ admitted[c] : request' = [request EXCEPT ![r].entry = e]
    BY <1>8 DEF Admitted
  <2>2. /\ request'[r].ip = c /\ request'[r].entry = e
        /\ \A q \in Requests : q # r => request'[q] = request[q]
    BY <1>1, <2>1 DEF Request
  <2>3. /\ registry' = registry
        /\ \A q \in Requests : stage'[q] = IF q = r THEN "body" ELSE stage[q]
    BY <1>1, <1>8 DEF Admitted, Goto
  <2>4. \A d \in Clients : admitted[d] \subseteq admitted'[d]
    BY <1>2, AdmissionsStay DEF Types
  <2>5. (Held /\ Used)'
    BY <2>1, <2>2, <2>3, <2>4
    DEF EntryInv, Held, Used, Types, HandlerTypeOK, RegisteredClient
  <2>6. Unused'
    BY <2>1, <2>2, <2>3 DEF EntryInv, Used, Unused
  <2>7. Apart'
    BY <2>1, <2>2, <2>3 DEF EntryInv, Held, Apart
  <2>8. Single'
    BY <2>3 DEF EntryInv, Single
  <2>9. QED
    BY <2>5, <2>6, <2>7, <2>8 DEF EntryInv
<1>9. QED
  BY <1>3, <1>4, <1>5, <1>6, <1>7, <1>8 DEF HandlerNext, Handle, Elsewhere, Within, allVars

LEMMA EntriesHold == HandlerSpec => []EntryInv
<1>1. HandlerInit => EntryInv
  BY DEF HandlerInit, EntryInv, Held, Used, Unused, Apart, Single
<1>2. QED
  BY <1>1, TypesHold, EntryStep, PTL DEF HandlerSpec, allVars

\* With an admission for every client and no client sharing one, the registry
\* is within the bound of the limiter.
LEMMA AsManyAdmissions ==
        ASSUME Types, EntryInv, WindowBound, NEW c \in Clients, NEW s \in 0..clock
        PROVE  Cardinality({k \in registry : /\ k.ip = c
                                             /\ s <= k.entry.at /\ k.entry.at < s + Window})
                   <= Limit
<1> DEFINE K == {k \in registry : k.ip = c /\ s <= k.entry.at /\ k.entry.at < s + Window}
           E == {e \in admitted[c] : s <= e.at /\ e.at < s + Window}
           F == {k.entry : k \in K}
           f == [k \in K |-> k.entry]
<1>1. IsFiniteSet(E) /\ Cardinality(E) <= Limit
  BY Subsets DEF Types, Base, WindowBound
<1>2. F \subseteq E
  BY DEF EntryInv, Used
<1>3. IsFiniteSet(F) /\ Cardinality(F) \in Nat /\ Cardinality(F) <= Cardinality(E)
  BY <1>1, <1>2, Subsets
<1>4. f \in Bijection(K, F)
  <2>1. f \in Surjection(K, F)
    BY DEF Surjection
  <2>2. f \in Injection(K, F)
    BY DEF Injection, IsInjective, EntryInv, Single
  <2>3. QED
    BY <2>1, <2>2 DEF Bijection
<1>5. IsFiniteSet(K)
  BY Subsets DEF Types
<1>6. Cardinality(K) = Cardinality(F)
  BY <1>4, <1>5, FS_Bijection DEF ExistsBijection
<1>7. Cardinality(E) \in Nat
  BY <1>1, FS_CardinalityType
<1>8. QED
  BY <1>1, <1>3, <1>6, <1>7, ConstantFacts

\* On one event loop no window holds more admissions that led to a client of one
\* caller than the limit.
THEOREM RegistrationsAreLimited == ASSUME OneLoop PROVE HandlerSpec => []RegistrationsLimited
<1>1. Types /\ EntryInv /\ WindowBound => RegistrationsLimited
  BY AsManyAdmissions DEF RegistrationsLimited
<1>2. Spec => []WindowBound
  BY WindowsAreBounded
<1>3. QED
  BY <1>1, <1>2, TypesHold, EntriesHold, HandlerDrivesLimiter, PTL

-----------------------------------------------------------------------------
\* Between the refusal and the advice nobody else has the event loop: the list that
\* was full is not empty.
WaitInv(loop) == \A r \in Requests :
    /\ stage[r] = "limit" => pc[loop] # "idle" /\ client[loop] = request[r].ip
    /\ stage[r] = "denied" => pc[loop] = "idle" /\ requests[request[r].ip] # {}

LEMMA FullIsNotEmpty ==
        ASSUME NEW c, Full(c) PROVE requests[c] # {}
<1> SUFFICES ASSUME requests[c] = {} PROVE FALSE
  OBVIOUS
<1>1. Cardinality(requests[c]) = 0
  BY FS_EmptySet
<1>2. QED
  BY <1>1, ConstantFacts DEF Full

LEMMA WaitStep ==
        ASSUME NEW loop, Threads = {loop}, Types, WaitInv(loop), [HandlerNext]_allVars
        PROVE  WaitInv(loop)'
<1>1. /\ stage \in [Requests -> {"idle", "limit", "denied", "body", "hooks"}]
      /\ request \in [Requests -> Request] /\ loop \in Threads
      /\ pc \in [Threads -> {"idle", "filter", "assign", "check", "append"}]
      /\ client \in [Threads -> Clients \cup {NoClient}]
  BY DEF Types, HandlerTypeOK, Base, TypeOK
<1>2. \A r \in Requests : stage[r] \in {"limit", "denied"} <=> turn = r
  BY DEF Types, TurnInv
<1>3. ASSUME UNCHANGED <<pc, client, requests>>,
             \A q \in Requests : stage'[q] \in {"limit", "denied"} =>
                stage'[q] = stage[q] /\ request'[q].ip = request[q].ip
      PROVE  WaitInv(loop)'
  BY <1>3 DEF WaitInv
<1>4. ASSUME turn = NoRequest, stage' = stage PROVE WaitInv(loop)'
  BY <1>2, <1>4, HandlerFacts DEF WaitInv
<1>5. ASSUME NEW r \in Requests, NEW c \in Clients, Receive(r, c) PROVE WaitInv(loop)'
  <2>1. Call(loop, c) /\ turn = NoRequest
    BY <1>5 DEF Receive, At, LoopFree
  <2>2. pc'[loop] = "filter" /\ client'[loop] = c
    BY <1>1, <2>1 DEF Call, GoTo
  <2>3. request'[r].ip = c /\ \A q \in Requests : stage'[q] = IF q = r THEN "limit" ELSE stage[q]
    BY <1>1, <1>5 DEF Receive, Goto, Request
  <2>4. QED
    BY <1>2, <2>1, <2>2, <2>3, HandlerFacts DEF WaitInv
<1>6. ASSUME NEW r \in Requests, Admitted(r) PROVE WaitInv(loop)'
  <2>1. \A q \in Requests : stage'[q] \notin {"limit", "denied"}
    BY <1>1, <1>2, <1>6 DEF Admitted, Goto
  <2>2. QED
    BY <2>1 DEF WaitInv
<1>7. ASSUME NEW r \in Requests, Denial(r) PROVE WaitInv(loop)'
  <2>1. Deny(loop) /\ turn = r /\ request' = request
    BY <1>7 DEF Denial
  <2>2. /\ pc[loop] = "check" /\ Full(client[loop]) /\ pc'[loop] = "idle"
        /\ requests' = requests
    BY <1>1, <2>1 DEF Deny, Return, GoTo
  <2>3. stage[r] = "limit"
    BY <1>2, <2>1, <2>2 DEF WaitInv
  <2>4. requests[request[r].ip] # {}
    BY <2>2, <2>3, FullIsNotEmpty DEF WaitInv
  <2>5. \A q \in Requests : stage'[q] = IF q = r THEN "denied" ELSE stage[q]
    BY <1>1, <1>7 DEF Denial, Goto
  <2>6. QED
    BY <1>2, <2>1, <2>2, <2>4, <2>5 DEF WaitInv
<1>8. ASSUME NEW r \in Requests, TurnAway(r) PROVE WaitInv(loop)'
  <2>1. UNCHANGED <<pc, client, requests>>
    BY <1>8 DEF TurnAway, RetryNone, RetryAfter, Answer, locals
  <2>2. QED
    BY <1>1, <1>3, <1>8, <2>1 DEF TurnAway, End, Goto
<1>9. ASSUME NEW r \in Requests,
             Fail(r) \/ CreateUnheard(r) \/ Respond(r) \/ Abandon(r)
      PROVE  WaitInv(loop)'
  BY <1>1, <1>3, <1>9 DEF Fail, CreateUnheard, Respond, Abandon, End, Goto, vars, locals
<1>10. ASSUME NEW r \in Requests, Create(r) \/ RunHook(r) PROVE WaitInv(loop)'
  <2>1. /\ UNCHANGED <<pc, client, requests>> /\ turn = NoRequest
        /\ \A q \in Requests : stage'[q] = stage[q] \/ stage'[q] = "hooks"
    BY <1>1, <1>10 DEF Create, RunHook, At, LoopFree, Goto, vars, locals
  <2>2. QED
    BY <1>2, <2>1, HandlerFacts DEF WaitInv
<1>11. ASSUME NEW t \in Threads, Elsewhere(t) PROVE WaitInv(loop)'
  BY <1>4, <1>11 DEF Elsewhere, handler
<1>12. ASSUME NEW t \in Threads, Within(t) PROVE WaitInv(loop)'
  <2>1. pc[loop] # "idle" /\ pc'[loop] # "idle" /\ client' = client /\ UNCHANGED handler
    BY <1>1, <1>12 DEF Within, Filter, Assign, Admit, GoTo, locals
  <2>2. QED
    BY <2>1 DEF WaitInv, handler
<1>13. CASE (Tick /\ UNCHANGED handler) \/ UNCHANGED allVars
  BY <1>3, <1>13 DEF Tick, handler, allVars, vars, locals
<1>14. QED
  BY <1>5, <1>6, <1>7, <1>8, <1>9, <1>10, <1>11, <1>12, <1>13 DEF HandlerNext, Handle

\* On one event loop a 429 always names a time to come back that lies ahead.
THEOREM RetryAfterIsGiven == ASSUME OneLoop PROVE HandlerSpec => RetryAfterGiven
<1>1. PICK loop : Threads = {loop}
  BY DEF OneLoop
<1>2. HandlerInit => WaitInv(loop)
  BY DEF HandlerInit, WaitInv
<1>3. ASSUME Types, WaitInv(loop), [HandlerNext]_allVars, NEW r \in Requests,
             stage[r] = "denied", stage'[r] = "idle"
      PROVE  advice'[request[r].ip] > clock
  <2>1. /\ stage \in [Requests -> {"idle", "limit", "denied", "body", "hooks"}]
        /\ turn = r /\ request[r].ip \in Clients
    BY <1>3 DEF Types, HandlerTypeOK, TurnInv
  <2>2. TurnAway(r)
    <3>1. ASSUME NEW q \in Requests, Handle(q) PROVE TurnAway(r)
      <4>1. turn # NoRequest
        BY <2>1, HandlerFacts
      <4>2. CASE Admitted(q) \/ Denial(q)
        BY <1>3, <2>1, <4>2 DEF Admitted, Denial, Goto
      <4>3. CASE TurnAway(q)
        BY <1>3, <2>1, <4>3 DEF TurnAway, Types, TurnInv
      <4>4. QED
        BY <3>1, <4>1, <4>2, <4>3
        DEF Handle, Receive, Fail, Create, CreateUnheard, RunHook, Respond, Abandon, At, LoopFree
    <3>2. CASE UNCHANGED handler
      BY <1>3, <3>2 DEF handler
    <3>3. QED
      BY <1>3, <3>1, <3>2 DEF HandlerNext, Elsewhere, Within, allVars
  <2>3. RetryAfter(loop, request[r].ip)
    BY <1>1, <1>3, <2>2 DEF TurnAway, RetryNone, WaitInv
  <2>4. PICK e \in requests[request[r].ip] :
           Answer(loop, request[r].ip, Seconds(Window - (clock - e.at)))
    BY <2>3 DEF RetryAfter
  <2> DEFINE s == Seconds(Window - (clock - e.at))
  <2>5. clock \in Nat /\ e.at \in Nat /\ advice \in [Clients -> Int \cup {Absent}]
    BY <1>3, <2>1 DEF Types, Base, TypeOK, Entry
  <2>6. s \in Nat \ {0}
    BY <2>5, SecondsSuffice, ConstantFacts
  <2>7. advice'[request[r].ip] = clock + s * Second
    BY <2>1, <2>4, <2>5 DEF Answer
  <2> HIDE DEF s
  <2>8. s * Second > 0
    BY <2>6, ConstantFacts
  <2>9. s * Second \in Nat
    BY <2>6, ConstantFacts
  <2>10. QED
    BY <2>5, <2>7, <2>8, <2>9
<1>4. Types /\ WaitInv(loop) /\ [HandlerNext]_allVars =>
      [\A r \in Requests : stage[r] = "denied" /\ stage'[r] = "idle"
          => advice'[request[r].ip] > clock]_allVars
  BY <1>3
<1>5. Types /\ WaitInv(loop) /\ [HandlerNext]_allVars => WaitInv(loop)'
  BY <1>1, WaitStep
<1>6. QED
  BY <1>2, <1>4, <1>5, TypesHold, PTL DEF HandlerSpec, RetryAfterGiven, allVars
=============================================================================
