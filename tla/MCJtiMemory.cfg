SPECIFICATION FairSpec
CONSTANTS
  j1 = j1
  Threads = {t1, t2}
  NoThread = NoThread
  Jtis = {j1}
  Absent = Absent
  Text = Text
  Assertions <- MCAssertions
  NoAssertion = NoAssertion
  Skew = 2
  MaxLifetime = 1
  CleanupInterval = 1
  MaxTime = 3
  MaxRestarts = 1
INVARIANTS
  TypeOK
  CacheInv
  PurgeComplete
PROPERTIES
  ImplementsAcceptOnce
  CleanupsSpaced
  VerificationEnds
