SPECIFICATION Spec
CONSTANTS
  c1 = c1
  c2 = c2
  j1 = j1
  Calls = {c1, c2}
  Drift <- MCDrift
  Jtis = {j1}
  Absent = Absent
  Assertions <- MCAssertions
  NoAssertion = NoAssertion
  Skew = 2
  MaxLifetime = 2
  MaxTime = 6
INVARIANTS
  TypeOK
  KeyInv
  ReplayIsBetrayed
PROPERTY
  ImplementsAcceptOnce
