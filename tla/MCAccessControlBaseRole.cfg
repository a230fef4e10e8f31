SPECIFICATION Spec
CONSTANTS
  root = root
  ana = ana
  new1 = new1
  new2 = new2
  rRoot = rRoot
  rAna = rAna
  team = team
  rNew1 = rNew1
  rNew2 = rNew2
  n1 = n1
  n2 = n2
  n3 = n3
  pic = pic
  iam = iam
  shop = shop
  lab = lab
  read = read
  x = x
  y = y
  Star = star
  None = none
  Services <- MCServices
  Actions <- MCActions
  Segments <- MCSegments
  Accounts <- MCAccounts
  Roles <- MCRoles
  Names <- MCNames
  Pictures <- MCPictures
  WillIAM = iam
  Requests <- MCRequests
  InitAccounts <- MCInitAccounts
  InitRoles <- MCInitRoles
  InitBindings <- MCInitBindings
  InitRows <- MCInitRows
  Rank <- MCRank
  Asked <- MCAsked
  Workers = {w1}
  MaxCalls = 2
  WithRoles = FALSE
  WithAccounts = FALSE
  WithBaseRoles = TRUE
INVARIANTS
  BaseBindingKept
CHECK_DEADLOCK FALSE
