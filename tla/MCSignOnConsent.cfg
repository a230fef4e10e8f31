SPECIFICATION SignSpec
CONSTANTS
  Workers = {w1}
  Services = {s1, s2}
  Sso = Sso
  None = None
  Lifetime = 2
  Session = 1
  Grace = 1
  PoolSize = 5
  MaxFlight = 0
  MaxTokens = 2
  MaxLogins = 1
  MaxTime = 3
PROPERTY NoButtonclicks
CHECK_DEADLOCK FALSE
