SPECIFICATION FairSpec
CONSTANTS
  Polls = {p1, p2}
  Interval = 2
  ExpiresAt = 2
  Never = Never
  MaxTime = 3
INVARIANTS
  TypeOK
  PassesBounded
PROPERTIES
  PoliteServed
  PollingEnds
