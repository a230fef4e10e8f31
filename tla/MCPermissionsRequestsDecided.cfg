SPECIFICATION Spec
CONSTANTS
  ana = ana
  bob = bob
  root = root
  shop = shop
  read = read
  x = x
  Star = star
  None = none
  Services <- MCServices
  Actions <- MCActions
  Segments <- MCSegments
  Accounts = {ana, bob, root}
  Requesters = {ana, bob}
  Moderators = {bob, root}
  Asked <- MCAsked
  Ids = {id1, id2}
  Workers = {w1, w2}
  Changing <- MCChanging
  InitRows <- MCInitRows
  MaxCalls = 4
  MaxChanges = 2
PROPERTIES
  DecidedOnce
CHECK_DEADLOCK FALSE
