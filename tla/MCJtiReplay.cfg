SPECIFICATION Spec
CONSTANTS
  j1 = j1
  Threads = {t1}
  NoThread = NoThread
  Jtis = {j1}
  Absent = Absent
  Text = Text
  Assertions <- MCOneAssertion
  NoAssertion = NoAssertion
  Skew = 2
  MaxLifetime = 1
  CleanupInterval = 1
  MaxTime = 2
  MaxRestarts = 0
PROPERTY
  NoReplay
