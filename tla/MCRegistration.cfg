SPECIFICATION HandlerSpec
CONSTANTS
  Threads = {loop}
  Clients = {a, b}
  NoClient = NoClient
  Limit = 2
  Window = 4
  Second = 2
  Absent = Absent
  MaxTime = 5
  MaxAdmitted = 3
  Requests = {r1, r2}
  NoRequest = NoRequest
  NoEntry = NoEntry
  Hooks = 1
INVARIANTS
  TypeOK
  WindowBound
  HandlerTypeOK
  RegistrationsLimited
  CredentialsDelivered
PROPERTIES
  DenialsJustified
  RetryHonest
  ImplementsSlidingWindow
  RetryAfterGiven
SYMMETRY Symmetry
