SPECIFICATION FairSpec
CONSTANTS
  c1 = c1
  c2 = c2
  c3 = c3
  p1 = p1
  p2 = p2
  p3 = p3
  m1 = m1
  m2 = m2
  d1 = d1
  d2 = d2
  register = register
  renew = renew
  contact = contact
  Confs = {c1, c2}
  Proposers = {p1, p2}
  McpApprovers = {m1}
  DashApprovers = {d1}
  NoRequest = NoRequest
  NoConf = NoConf
  Tools = {register, renew}
  DashTools = {register}
  PricesOf <- OnePrice
  Roles <- AllRoles
  RoleOf <- EveryoneOwner
  ApproverRoles <- OwnerOrAdmin
  Limit = 10
  TTL = 1
  MaxAttempts = 1
  MaxNow = 0
PROPERTIES
  EveryRequestEnds
CHECK_DEADLOCK FALSE
