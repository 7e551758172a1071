SPECIFICATION FairSpec
CONSTANTS
  Calls = {c1, c2}
  Kinds = {"access"}
  Tokens = {t}
  Expiries = {0, 1}
  Absent = Absent
  Pools = {p1, p2}
  NoPool = NoPool
  PoolSize = 1
  NoCall = NoCall
  MaxTime = 1
INVARIANTS
  TypeOK
  PoolInv
  PoolNotLeaked
PROPERTIES
  LiveTokensKept
  ImplementsSharedStorage
  CallsEnd
