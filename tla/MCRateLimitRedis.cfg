SPECIFICATION Spec
CONSTANTS
  Callers = {c1, c2}
  Members = {m1, m2, m3}
  NoMember = NoMember
  Absent = Absent
  Limit = 1
  Second = 2
  Window = 4
  MaxTime = 7
INVARIANTS
  TypeOK
  SetInv
  OverAdmission
PROPERTIES
  DenialsJustified
  RetryHonest
SYMMETRY CallerSymmetry
