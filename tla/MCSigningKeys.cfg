SPECIFICATION Spec
CONSTANTS
  Kids = {"k1", "k2"}
  Algs <- MCAlgs
  NoneGiven = NoneGiven
  Allowed <- MCAllowed
  Blocked <- MCBlocked
  RsaOnly = {"RS256"}
  EcOnly = {"ES256"}
  DefaultAlg = "RS256"
  Jwkss <- MCJwkss
INVARIANTS
  TypeOK
  FirstUsable
  RefusedForARival
CHECK_DEADLOCK FALSE
