SPECIFICATION Spec
CONSTANTS
  Services = {}
  Actions = {}
  Segments = {x, y}
  Star = star
  x = x
  y = y
  WillIAM = "Will.IAM"
  Empty = empty
  Registered <- MCRegistered
  RoleList <- MCRoleList
  AccountIds = {y}
  ServiceIds = {x}
  ServiceAM <- MCServiceAM
  MaxDepth = 3
INVARIANTS
  EvaluatorsAgree
  SqlIsStricter
  ContainsIsInclusion
  ChainsConserveRights
  RequestsReachDeciders
  ListingTellsRights
  ListingLeadsToGuards
