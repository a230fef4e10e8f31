SPECIFICATION SignSpec
CONSTANTS
  Workers = {w1}
  Services = {s1}
  Sso = Sso
  None = None
  Lifetime = 2
  Session = 1
  Grace = 1
  PoolSize = 5
  MaxFlight = 0
  MaxTokens = 2
  MaxLogins = 1
  MaxTime = 3
INVARIANT ReturnedTokenIsSet
CHECK_DEADLOCK FALSE
