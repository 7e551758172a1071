SPECIFICATION Spec
CONSTANTS
  Kinds = {"access", "refresh"}
  Tokens = {t}
  Expiries = {0, 1}
  Absent = Absent
  Lists = {l1, l2, l3}
  Scopes = {"read", "write"}
  Second = 2
  NoAnswer = NoAnswer
  MaxTime = 4
INVARIANTS
  TypeOK
  ScopesKept
PROPERTIES
  ImplementsTokenStorage
