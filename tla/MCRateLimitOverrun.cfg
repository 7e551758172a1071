SPECIFICATION BurstSpec
CONSTANTS
  Callers = {c1, c2}
  Members = {1, 2, 3, 4, 5, 6}
  NoMember = NoMember
  Absent = Absent
  Limit = 2
  Second = 1
  Window = 4
  MaxTime = 6
INVARIANT
  OverAdmissionAsDocumented
