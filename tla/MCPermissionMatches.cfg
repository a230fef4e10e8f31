SPECIFICATION Spec
CONSTANTS
  Services = {s}
  Actions = {a}
  Segments = {x, y}
  Star = star
  x = x
  y = y
  WillIAM = "Will.IAM"
  Empty = empty
  Registered <- MCRegistered
  RoleList <- MCRoleList
  AccountIds = {y}
  ServiceIds = {x}
  ServiceAM <- MCServiceAM
  MaxDepth = 3
INVARIANT MatchesAreComplete
