-------------------------- MODULE TokenMemoryProofs --------------------------
(***************************************************************************)
(* Proofs about the token storage in memory, for any tokens, lists of      *)
(* scopes, expiries and resolution of the clock.                           *)
(***************************************************************************)
EXTENDS TokenMemory, TLAPS

\* Who reaches which list: a token's list is its own, and callers reach it only
\* through a load.
HeapInv == /\ \A j, k \in Stored : rows[j].scopes = rows[k].scopes => j = k
           /\ \A k \in Stored \ lent : /\ rows[k].scopes \notin held
                                       /\ lists[rows[k].scopes] = given[k]

IInv == TypeOK /\ HeapInv

LEMMA ConstantFacts ==
        /\ Expiries \subseteq Int /\ Absent \notin Int /\ Absent \notin Row
        /\ Second \in Nat \ {0}
  BY StorageAssumption

\* A token counts as expired from the second after its expires_at.
LEMMA ExpiredWhenOverdue ==
  ASSUME NEW exp \in Int, NEW t \in Nat
  PROVE  /\ exp < t \div Second <=> t >= (exp + 1) * Second
         /\ exp < t \div Second => t > exp * Second
<1> DEFINE q == t \div Second
<1>1. q \in Int /\ t = Second * q + (t % Second) /\ (t % Second) \in 0..(Second - 1)
  BY ConstantFacts
<1>2. (exp + 1) * Second = exp * Second + Second
  BY ConstantFacts
<1>3. ASSUME exp < q PROVE t >= (exp + 1) * Second /\ t > exp * Second
  <2>1. PICK d \in Nat : q = exp + 1 + d
    <3>1. q - (exp + 1) \in Nat /\ q = exp + 1 + (q - (exp + 1))
      BY <1>1, <1>3
    <3>2. QED
      BY <3>1
  <2>2. Second * q = (exp + 1) * Second + d * Second
    BY <2>1, ConstantFacts
  <2>3. d * Second \in Nat /\ exp * Second \in Int
    BY ConstantFacts
  <2>4. QED
    BY <1>1, <1>2, <2>2, <2>3, ConstantFacts
<1>4. ASSUME ~(exp < q) PROVE ~(t >= (exp + 1) * Second)
  <2>1. PICK d \in Nat : exp = q + d
    <3>1. exp - q \in Nat /\ exp = q + (exp - q)
      BY <1>1, <1>4
    <3>2. QED
      BY <3>1
  <2>2. exp * Second = Second * q + d * Second
    BY <1>1, <2>1, ConstantFacts
  <2>3. d * Second \in Nat /\ exp * Second \in Int /\ Second * q \in Int
    BY <1>1, ConstantFacts
  <2>4. QED
    BY <1>1, <1>2, <2>2, <2>3, ConstantFacts
<1>5. QED
  BY <1>3, <1>4

LEMMA InitIInv == Init => IInv
<1> SUFFICES ASSUME Init PROVE IInv
  OBVIOUS
<1>1. Stored = {}
  BY DEF Init, Stored, Empty
<1>2. initialized \in BOOLEAN
  BY DEF Init
<1>3. TypeOK
  BY <1>1, <1>2 DEF Init, Empty, TypeOK
<1>4. QED
  BY <1>1, <1>3 DEF IInv, HeapInv

\* Steps that only give tokens up keep what holds of the others.
LEMMA RemoveStep ==
  ASSUME IInv, NEW gone, Remove(gone), UNCHANGED <<clock, initialized, heap, history>>,
         answer' \in (Keys \X (Expiries \cup {Absent})) \cup {NoAnswer}
  PROVE  IInv'
<1>1. /\ rows' \in [Keys -> Row \cup {Absent}]
      /\ Stored' \subseteq Stored /\ \A k \in Stored' : rows'[k] = rows[k]
  BY DEF IInv, TypeOK, Remove, Stored
<1>2. TypeOK'
  BY <1>1 DEF IInv, TypeOK, heap, history
<1>3. HeapInv'
  BY <1>1 DEF IInv, HeapInv, heap, history
<1>4. QED
  BY <1>2, <1>3 DEF IInv

LEMMA IInvStep == IInv /\ [Next]_vars => IInv'
<1> SUFFICES ASSUME IInv, [Next]_vars PROVE IInv'
  OBVIOUS
<1>1. ASSUME NEW k \in Keys, NEW l \in Lists, NEW exp \in Expiries, Store(k, l, exp)
      PROVE  IInv'
  <2>1. PICK copy \in Lists :
           /\ copy \notin held /\ \A j \in Stored : rows[j].scopes # copy
           /\ lists' = [lists EXCEPT ![copy] = lists[l]]
           /\ rows' = [rows EXCEPT ![k] = [expires |-> exp, scopes |-> copy]]
    BY <1>1 DEF Store, Copy, Unreachable
  <2>2. [expires |-> exp, scopes |-> copy] \in Row
    BY DEF Row
  <2>3. Stored' = Stored \cup {k}
    BY <2>1, <2>2, ConstantFacts DEF IInv, TypeOK, Stored
  <2>4. \A j \in Stored \ {k} : rows'[j] = rows[j]
    BY <2>1 DEF IInv, TypeOK, Stored
  <2>5. rows'[k].scopes = copy /\ lists'[copy] = lists[l] /\ given'[k] = lists[l]
    BY <1>1, <2>1 DEF IInv, TypeOK, Store
  <2>6. TypeOK'
    BY <1>1, <2>1, <2>2 DEF IInv, TypeOK, Store
  <2>7. \A i, j \in Stored' : rows'[i].scopes = rows'[j].scopes => i = j
    BY <2>1, <2>3, <2>4, <2>5 DEF IInv, HeapInv
  <2>8. ASSUME NEW j \in Stored' \ lent'
        PROVE  rows'[j].scopes \notin held' /\ lists'[rows'[j].scopes] = given'[j]
    <3>1. CASE j = k
      BY <1>1, <2>1, <2>5, <3>1 DEF Store
    <3>2. CASE j # k
      <4>1. j \in Stored \ lent /\ held' = held /\ given'[j] = given[j]
        BY <1>1, <2>3, <2>8, <3>2 DEF Store, IInv, TypeOK
      <4>2. rows'[j] = rows[j] /\ rows[j].scopes # copy
        BY <2>1, <2>4, <3>2, <4>1
      <4>3. rows[j].scopes \in Lists
        BY <4>1 DEF IInv, TypeOK, Row, Stored
      <4>4. lists'[rows[j].scopes] = lists[rows[j].scopes]
        BY <2>1, <4>2, <4>3 DEF IInv, TypeOK
      <4>5. QED
        BY <4>1, <4>2, <4>4 DEF IInv, HeapInv
    <3>3. QED
      BY <3>1, <3>2
  <2>9. QED
    BY <2>6, <2>7, <2>8 DEF IInv, HeapInv
<1>2. ASSUME NEW k \in Keys, Load(k) PROVE IInv'
  <2>1. /\ k \in Stored /\ rows[k] \in Row /\ Stored' = Stored
        /\ held' = held \cup {rows[k].scopes} /\ lent' = lent \cup {k}
    BY <1>2 DEF Load, IInv, TypeOK, Stored
  <2>2. rows[k].expires \in Expiries /\ rows[k].scopes \in Lists
    BY <2>1 DEF Row
  <2>3. TypeOK'
    BY <1>2, <2>1, <2>2 DEF Load, IInv, TypeOK
  <2>4. HeapInv'
    BY <1>2, <2>1 DEF Load, IInv, HeapInv
  <2>5. QED
    BY <2>3, <2>4 DEF IInv
<1>3. ASSUME NEW k \in Keys, LoadNone(k) \/ Delete(k) PROVE IInv'
  <2>1. answer' \in (Keys \X (Expiries \cup {Absent})) \cup {NoAnswer}
    BY <1>3 DEF LoadNone, Delete
  <2>2. QED
    BY <1>3, <2>1, RemoveStep DEF LoadNone, Delete
<1>4. ASSUME NEW kind \in Kinds, Cleanup(kind) PROVE IInv'
  BY <1>4, RemoveStep DEF Cleanup
<1>5. CASE Initialize \/ Raise \/ Count \/ Tick
  <2>1. /\ UNCHANGED <<rows, heap, history>> /\ Stored' = Stored
        /\ clock' \in Nat /\ answer' \in {answer, NoAnswer}
    BY <1>5 DEF Initialize, Raise, Count, Tick, IInv, TypeOK, Stored
  <2>5. initialized' \in BOOLEAN
    BY <1>5 DEF Initialize, Raise, Count, Tick, IInv, TypeOK
  <2>6. ~initialized' => Stored = {}
    BY <1>5 DEF Initialize, Raise, Count, Tick, IInv, TypeOK
  <2>2. TypeOK'
    BY <2>1, <2>5, <2>6 DEF IInv, TypeOK, heap, history
  <2>3. HeapInv'
    BY <2>1 DEF IInv, HeapInv, heap, history
  <2>4. QED
    BY <2>2, <2>3 DEF IInv
<1>6. CASE Close
  <2>1. Stored' = {} /\ rows' \in [Keys -> Row \cup {Absent}]
    BY <1>6 DEF Close, Clear, Empty, Stored
  <2>2. TypeOK'
    BY <1>6, <2>1 DEF Close, IInv, TypeOK, heap, history
  <2>3. QED
    BY <2>1, <2>2 DEF IInv, HeapInv
<1>7. ASSUME NEW l \in Lists, NEW s \in Scopes, Make(l, s) \/ Change(l, s) PROVE IInv'
  <2>1. /\ lists' = [lists EXCEPT ![l] = s] /\ UNCHANGED <<rows, history>> /\ Stored' = Stored
        /\ held' \subseteq Lists /\ held' \subseteq held \cup {l}
    BY <1>7 DEF Make, Change, IInv, TypeOK, Stored
  <2>2. \A k \in Stored \ lent : rows[k].scopes # l
    BY <1>7 DEF Make, Change, Unreachable, IInv, HeapInv
  <2>3. TypeOK'
    BY <1>7, <2>1 DEF Make, Change, IInv, TypeOK, history
  <2>4. \A k \in Stored \ lent : rows[k].scopes \in Lists
    BY DEF IInv, TypeOK, Stored, Row
  <2>5. HeapInv'
    BY <2>1, <2>2, <2>4 DEF IInv, TypeOK, HeapInv, history
  <2>6. QED
    BY <2>3, <2>5 DEF IInv
<1>8. ASSUME NEW l \in Lists, Drop(l) PROVE IInv'
  <2>1. UNCHANGED <<rows, lists, history>> /\ Stored' = Stored /\ held' = held \ {l}
    BY <1>8 DEF Drop, Stored
  <2>2. TypeOK'
    BY <1>8, <2>1 DEF Drop, IInv, TypeOK, history
  <2>3. HeapInv'
    BY <2>1 DEF IInv, HeapInv, history
  <2>4. QED
    BY <2>2, <2>3 DEF IInv
<1>9. CASE UNCHANGED vars
  <2>1. Stored' = Stored
    BY <1>9 DEF vars, Stored
  <2>2. QED
    BY <1>9, <2>1 DEF vars, heap, history, IInv, TypeOK, HeapInv
<1>10. QED
  BY <1>1, <1>2, <1>3, <1>4, <1>5, <1>6, <1>7, <1>8, <1>9 DEF Next

LEMMA Invariance == Spec => []IInv
  BY InitIInv, IInvStep, PTL DEF Spec

\* The storage, its callers' lists and what they hold have the declared form, and a
\* closed storage holds no tokens.
THEOREM TypeCorrect == Spec => []TypeOK
<1>1. IInv => TypeOK
  BY DEF IInv
<1>2. QED
  BY <1>1, Invariance, PTL

\* Nobody can change the scopes of a token but through the list a load of that very
\* token gave out.
THEOREM ScopesAreKept == Spec => []ScopesKept
<1>1. IInv => ScopesKept
  BY DEF IInv, HeapInv, ScopesKept
<1>2. QED
  BY <1>1, Invariance, PTL

-----------------------------------------------------------------------------
\* The refinement: what the interface sees of a row is its expires_at.

LEMMA TableFacts ==
  ASSUME IInv, NEW k \in Keys
  PROVE  /\ Storage!Keys = Keys
         /\ Table[k] \in Expiries \cup {Absent}
         /\ Table[k] = Absent <=> rows[k] = Absent
         /\ rows[k] # Absent => Table[k] = rows[k].expires
         /\ Expired(k) <=> Storage!Overdue(Table[k])
         /\ Expired(k) => Storage!Expired(Table[k])
<1>1. rows[k] \in Row \cup {Absent} /\ clock \in Nat
  BY DEF IInv, TypeOK
<1>2. CASE rows[k] = Absent
  BY <1>2 DEF Table, Expired, Storage!Overdue, Storage!Expired, Storage!Keys, Keys
<1>3. CASE rows[k] # Absent
  <2>1. rows[k].expires \in Expiries /\ rows[k].expires \in Int
    BY <1>1, <1>3, ConstantFacts DEF Row
  <2>2. Table[k] = rows[k].expires /\ Table[k] # Absent
    BY <1>3, <2>1, ConstantFacts DEF Table
  <2>3. QED
    BY <1>1, <1>3, <2>1, <2>2, ExpiredWhenOverdue
       DEF Expired, Now, Storage!Overdue, Storage!Expired, Storage!Keys, Keys
<1>4. QED
  BY <1>2, <1>3

\* Initial states map to initial states, and every step to a step or to a stutter.
LEMMA StorageStep == IInv /\ IInv' /\ [Next]_vars => [Storage!Next]_(Storage!vars)
<1> SUFFICES ASSUME IInv, IInv', [Next]_vars PROVE Storage!Next \/ UNCHANGED <<clock, Table, answer>>
  BY DEF Storage!vars
<1>1. Storage!Keys = Keys
  BY DEF Storage!Keys, Keys
<1>2. ASSUME NEW k \in Keys, NEW l \in Lists, NEW exp \in Expiries, Store(k, l, exp)
      PROVE  Storage!Store(k, exp)
  <2>1. PICK copy \in Lists : rows' = [rows EXCEPT ![k] = [expires |-> exp, scopes |-> copy]]
    BY <1>2 DEF Store
  <2>2. [expires |-> exp, scopes |-> copy] # Absent
    BY ConstantFacts DEF Row
  <2>3. Table' = [Table EXCEPT ![k] = exp]
    BY <2>1, <2>2 DEF Table, IInv, TypeOK
  <2>4. QED
    BY <1>2, <2>3 DEF Store, Storage!Store
<1>3. ASSUME NEW k \in Keys, Load(k)
      PROVE  Table[k] \in Expiries /\ Storage!Load(k, Table[k])
  <2>1. Table' = Table /\ Table[k] = rows[k].expires /\ Table[k] \in Expiries
    BY <1>3, TableFacts DEF Load, Table
  <2>2. Table' = [Table EXCEPT ![k] = Table[k]]
    BY <2>1 DEF Table
  <2>3. ~Storage!Overdue(Table[k])
    BY <1>3, TableFacts DEF Load
  <2>4. QED
    BY <1>3, <2>1, <2>2, <2>3 DEF Load, Storage!Load
<1>4. ASSUME NEW gone, Remove(gone)
      PROVE  Table' = [k \in Keys |-> IF k \in gone THEN Absent ELSE Table[k]]
  BY <1>4 DEF Remove, Table
<1>0. ASSUME NEW k \in Keys, Remove({k}) PROVE Table' = [Table EXCEPT ![k] = Absent]
  <2>1. Table' = [j \in Keys |-> IF j \in {k} THEN Absent ELSE Table[j]]
    BY <1>4, <1>0
  <2>2. [Table EXCEPT ![k] = Absent] = [j \in Keys |-> IF j = k THEN Absent ELSE Table[j]]
    BY DEF Table
  <2>3. QED
    BY <2>1, <2>2
<1>5. ASSUME NEW k \in Keys, LoadNone(k) PROVE Storage!Load(k, Absent)
  <2>1. Table' = [Table EXCEPT ![k] = Absent]
    BY <1>0, <1>5 DEF LoadNone
  <2>2. Table[k] = Absent \/ Storage!Expired(Table[k])
    BY <1>5, TableFacts DEF LoadNone
  <2>3. QED
    BY <1>5, <2>1, <2>2 DEF LoadNone, Storage!Load, Storage!Overdue
<1>6. ASSUME NEW k \in Keys, Delete(k) PROVE Storage!Delete(k)
  <2>1. Table' = [Table EXCEPT ![k] = Absent]
    BY <1>0, <1>6 DEF Delete
  <2>2. QED
    BY <1>6, <2>1 DEF Delete, Storage!Delete, Storage!Store
<1>7. ASSUME NEW kind \in Kinds, Cleanup(kind)
      PROVE  \E gone \in SUBSET Storage!Keys : Storage!Cleanup(kind, gone)
  <2> DEFINE gone == {k \in Keys : k[1] = kind /\ Expired(k)}
  <2>1. Table' = [k \in Keys |-> IF k \in gone THEN Absent ELSE Table[k]]
    BY <1>4, <1>7 DEF Cleanup
  <2>2. /\ \A k \in gone : Storage!Expired(Table[k])
        /\ \A k \in Keys \ gone : k[1] = kind => ~Storage!Overdue(Table[k])
    BY TableFacts
  <2>3. Storage!Cleanup(kind, gone)
    BY <1>1, <1>7, <2>1, <2>2 DEF Cleanup, Storage!Cleanup
  <2>4. QED
    BY <1>1, <2>3
<1>8. CASE Close
  <2>1. Table' = [k \in Keys |-> Absent]
    BY <1>8 DEF Close, Clear, Empty, Table
  <2>2. Storage!Close
    BY <1>1, <1>8, <2>1 DEF Close, Storage!Close
  <2>3. QED
    BY <2>2 DEF Storage!Next
<1>9. CASE Initialize \/ Raise \/ Count
  <2>1. Storage!Other
    BY <1>9 DEF Initialize, Raise, Count, Storage!Other, Table
  <2>2. QED
    BY <2>1 DEF Storage!Next
<1>10. CASE Tick
  <2>1. Storage!Tick
    BY <1>10 DEF Tick, Storage!Tick, Table
  <2>2. QED
    BY <2>1 DEF Storage!Next
<1>11. ASSUME NEW l \in Lists, \/ \E s \in Scopes : Make(l, s) \/ Change(l, s)
                               \/ Drop(l)
       PROVE  UNCHANGED <<clock, Table, answer>>
  BY <1>11 DEF Make, Change, Drop, Table
<1>12. CASE UNCHANGED vars
  BY <1>12 DEF vars, Table
<1>13. ASSUME NEW k \in Keys, \/ \E l \in Lists, exp \in Expiries : Store(k, l, exp)
                              \/ Load(k) \/ LoadNone(k) \/ Delete(k)
       PROVE  Storage!Next
  BY <1>1, <1>2, <1>3, <1>5, <1>6, <1>13 DEF Storage!Next
<1>14. ASSUME NEW kind \in Kinds, Cleanup(kind) PROVE Storage!Next
  BY <1>7, <1>14 DEF Storage!Next
<1>15. QED
  BY <1>8, <1>9, <1>10, <1>11, <1>12, <1>13, <1>14 DEF Next

\* The storage in memory keeps the promises of the interface: nothing live is lost,
\* nothing deleted comes back, nothing is found a second after it expired.
THEOREM MemoryImplementsStorage == Spec => ImplementsTokenStorage
<1>1. Init => Storage!Init
  BY DEF Init, Empty, Storage!Init, Storage!Keys, Keys, Table
<1>2. QED
  BY <1>1, Invariance, StorageStep, PTL DEF Spec, ImplementsTokenStorage, Storage!Spec
=============================================================================
