SPECIFICATION FairSpec
CONSTANTS
  j1 = j1
  Threads = {t1}
  NoThread = NoThread
  Jtis = {j1, j2}
  Absent = Absent
  Text = Text
  Assertions <- MCTextAssertions
  NoAssertion = NoAssertion
  Skew = 2
  MaxLifetime = 1
  CleanupInterval = 1
  MaxTime = 2
  MaxRestarts = 0
PROPERTY
  RefusedOnlyIfSeen
