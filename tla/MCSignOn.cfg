SPECIFICATION SignSpec
CONSTANTS
  Workers = {w1, w2}
  Services = {s1}
  Sso = Sso
  None = None
  Lifetime = 2
  Session = 1
  Grace = 3
  PoolSize = 5
  MaxFlight = 1
  MaxTokens = 3
  MaxLogins = 2
  MaxTime = 4
SYMMETRY WorkersAlike
INVARIANTS SignTypeOK StaysSignedIn
CHECK_DEADLOCK FALSE
