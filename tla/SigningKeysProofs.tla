-------------------------- MODULE SigningKeysProofs --------------------------
(***************************************************************************)
(* The search for the signing key is right for JWKS of any length.         *)
(***************************************************************************)
EXTENDS SigningKeys, TLAPS

\* Where the search stands: every place it has passed is of no use, and a key
\* was found where it stopped.
SearchInv ==
    /\ \A j \in 1..(i - 1) : ~Usable(keys[j])
    /\ pc \in {"search", "verify", "verified"} => alg \in Allowed \ Blocked
    /\ found # 0 => /\ pc \in {"verify", "verified", "rejected"}
                    /\ found = i /\ Usable(keys[i])
    /\ pc = "rejected" /\ found = 0 /\ alg \in Allowed \ Blocked => i = Len(keys) + 1
    /\ pc = "rejected" /\ found # 0 => ~Signed

IInv == TypeOK /\ SearchInv

\* A JWKS and a header as Init chooses them are of their types.
LEMMA InitTypes == Init => TypeOK
<1> SUFFICES ASSUME Init PROVE TypeOK
  OBVIOUS
<1>1. keys \in Seq(Jwk)
  BY KeysAssumption DEF Init
<1>2. Len(keys) \in Nat
  BY <1>1
<1>3. alg \in Algs
  <2>1. PICK given \in Algs \cup {NoneGiven} :
            alg = IF given = NoneGiven THEN DefaultAlg ELSE given
    BY DEF Init
  <2>2. QED
    BY <2>1, KeysAssumption
<1>4. QED
  BY <1>1, <1>2, <1>3 DEF Init, TypeOK

\* Every step keeps the strengthened invariant.
LEMMA IInvStep == IInv /\ [Next]_vars => IInv'
<1> SUFFICES ASSUME IInv, [Next]_vars PROVE IInv'
  OBVIOUS
<1>0. TypeOK /\ SearchInv /\ Len(keys) \in Nat
  BY DEF IInv, TypeOK
<1>1. CASE UNCHANGED vars
  BY <1>0, <1>1 DEF IInv, TypeOK, SearchInv, vars, Usable, Matches, Signed, Fits
<1>2. CASE RejectAlgorithm
  <2>1. TypeOK'
    BY <1>0, <1>2 DEF TypeOK, RejectAlgorithm, GoTo
  <2>2. SearchInv'
    BY <1>0, <1>2 DEF TypeOK, SearchInv, RejectAlgorithm, GoTo, Usable, Matches
  <2>3. QED
    BY <2>1, <2>2 DEF IInv
<1>3. CASE AcceptAlgorithm
  <2>1. TypeOK'
    BY <1>0, <1>3 DEF TypeOK, AcceptAlgorithm, GoTo
  <2>2. SearchInv'
    BY <1>0, <1>3 DEF TypeOK, SearchInv, AcceptAlgorithm, GoTo, Usable, Matches
  <2>3. QED
    BY <2>1, <2>2 DEF IInv
<1>4. ASSUME pc = "search", i <= Len(keys), ~Usable(keys[i]), i' = i + 1,
             GoTo("search"), UNCHANGED found
      PROVE IInv'
  <2>1. TypeOK'
    BY <1>0, <1>4 DEF TypeOK, GoTo
  <2>2. \A j \in 1..i : ~Usable(keys[j])
    BY <1>0, <1>4 DEF TypeOK, SearchInv
  <2>3. (\A j \in 1..(i - 1) : ~Usable(keys[j]))'
    BY <1>0, <1>4, <2>2 DEF TypeOK, GoTo, Usable, Matches
  <2>4. SearchInv'
    BY <1>0, <1>4, <2>3 DEF TypeOK, SearchInv, GoTo
  <2>5. QED
    BY <2>1, <2>4 DEF IInv
<1>5. CASE Skip
  BY <1>4, <1>5 DEF Skip, Usable
<1>6. CASE Discard
  BY <1>4, <1>6 DEF Discard, Usable
<1>7. CASE Take
  <2>1. TypeOK'
    BY <1>0, <1>7 DEF TypeOK, Take, GoTo
  <2>2. SearchInv'
    BY <1>0, <1>7 DEF TypeOK, SearchInv, Take, GoTo, Usable, Matches
  <2>3. QED
    BY <2>1, <2>2 DEF IInv
<1>8. CASE NoKey
  <2>1. TypeOK'
    BY <1>0, <1>8 DEF TypeOK, NoKey, GoTo
  <2>2. SearchInv'
    BY <1>0, <1>8 DEF TypeOK, SearchInv, NoKey, GoTo, Usable, Matches
  <2>3. QED
    BY <2>1, <2>2 DEF IInv
<1>9. CASE Verify
  <2>1. TypeOK'
    BY <1>0, <1>9 DEF TypeOK, Verify, GoTo
  <2>2. SearchInv'
    BY <1>0, <1>9 DEF TypeOK, SearchInv, Verify, GoTo, Usable, Matches, Signed, Fits
  <2>3. QED
    BY <2>1, <2>2 DEF IInv
<1>10. QED
  BY <1>1, <1>2, <1>3, <1>5, <1>6, <1>7, <1>8, <1>9 DEF Next

\* The invariant implies that the first usable key is the one found.
LEMMA FirstFound == IInv => FirstUsable
<1> SUFFICES ASSUME IInv PROVE FirstUsable
  OBVIOUS
<1>1. TypeOK /\ SearchInv /\ Len(keys) \in Nat
  BY DEF IInv, TypeOK
<1>2. ASSUME found # 0
      PROVE Usable(keys[found]) /\ \A j \in 1..(found - 1) : ~Usable(keys[j])
  BY <1>1, <1>2 DEF SearchInv
<1>3. ASSUME pc = "rejected", found = 0, alg \in Allowed \ Blocked
      PROVE \A j \in DOMAIN keys : ~Usable(keys[j])
  <2>1. i - 1 = Len(keys)
    BY <1>1, <1>3 DEF SearchInv
  <2>2. DOMAIN keys = 1..Len(keys)
    BY <1>1 DEF TypeOK
  <2>3. QED
    BY <1>1, <2>1, <2>2 DEF SearchInv
<1>4. QED
  BY <1>2, <1>3 DEF FirstUsable

\* An honest signer's key is of use, so the search stops there or earlier; if
\* earlier, the key it took passed the tests the signer's own passes.
LEMMA OnlyForARival == IInv => RefusedForARival
<1> SUFFICES ASSUME IInv, pc = "rejected", Honest
             PROVE \E j \in 1..(signer - 1) : Confusable(keys[j])
  BY DEF RefusedForARival
<1>1. TypeOK /\ SearchInv /\ FirstUsable /\ Len(keys) \in Nat
  BY FirstFound DEF IInv, TypeOK
<1>2. signer \in DOMAIN keys /\ alg \in Allowed \ Blocked
  BY <1>1 DEF TypeOK, Honest
<1>3. Usable(keys[signer])
  BY KeysAssumption DEF Honest, Usable, Matches, Fits
<1>4. found # 0
  BY <1>1, <1>2, <1>3 DEF FirstUsable
<1>5. found # signer
  BY <1>1, <1>4 DEF SearchInv, Signed, Honest
<1>6. found \in 1..(signer - 1)
  BY <1>1, <1>2, <1>3, <1>4, <1>5 DEF FirstUsable, TypeOK
<1>7. Matches(keys[found]) /\ Matches(keys[signer])
  BY <1>1, <1>3, <1>4 DEF FirstUsable, Usable
<1>8. Confusable(keys[found])
  BY <1>7, KeysAssumption DEF Matches, Confusable, Honest
<1>9. QED
  BY <1>6, <1>8

\* The initial states satisfy the invariant: nothing was looked at.
LEMMA IInvInit == Init => IInv
<1> SUFFICES ASSUME Init PROVE IInv
  OBVIOUS
<1>1. i = 1 /\ found = 0 /\ pc = "header"
  BY DEF Init
<1>2. SearchInv
  BY <1>1 DEF SearchInv
<1>3. QED
  BY InitTypes, <1>2 DEF IInv

LEMMA Inductive == Spec => []IInv
BY IInvInit, IInvStep, PTL DEF Spec

\* The search keeps its form and no signature is tried without a key, for any
\* algorithms and key sets.
THEOREM TypeCorrect == Spec => []TypeOK
<1>1. IInv => TypeOK
  BY DEF IInv
<1>2. QED
  BY Inductive, <1>1, PTL

\* In a JWKS of any length the search of _find_signing_key returns the first
\* usable key and fails only if there is none.
THEOREM FirstIsFound == Spec => []FirstUsable
BY Inductive, FirstFound, PTL

\* With any JWKS an honest assertion is refused only for an earlier key its
\* header does not tell from the signer's.
THEOREM RefusalsNeedRivals == Spec => []RefusedForARival
BY Inductive, OnlyForARival, PTL
=============================================================================
