SPECIFICATION FairSpec
CONSTANTS
  Workers = {w1, w2}
  None = None
  Lifetime = 2
  Session = 1
  Grace = 3
  PoolSize = 2
  MaxFlight = 1
  MaxTokens = 3
  MaxLogins = 1
  MaxTime = 4
INVARIANTS TypeOK SupersededHasSuccessor
PROPERTIES RenewedIsCurrent DeadStaysDead RequestsEnd
CHECK_DEADLOCK FALSE
