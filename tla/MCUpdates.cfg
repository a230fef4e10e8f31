SPECIFICATION FairSpec
CONSTANTS
  ana = ana
  bob = bob
  rAna = rAna
  rBob = rBob
  team = team
  shop = shop
  read = read
  write = write
  None = none
  Accounts <- MCAccounts
  Roles <- MCRoles
  Services <- MCServices
  BaseRole <- MCBaseRole
  Perms <- MCPerms
  Values <- MCValues
  Requests <- MCRequests
  InitRows <- MCInitRows
  InitRecords <- MCInitRecords
  Workers = {w1, w2}
  Rank <- MCRank
  MaxCalls = 3
INVARIANTS
  TypeOK
  DeadlocksAreProvoked
PROPERTIES
  BookSpec
  TxEnds
CHECK_DEADLOCK FALSE
