SPECIFICATION Spec
CONSTANTS
  t1 = t1
  t2 = t2
  e1 = e1
  e2 = e2
  e3 = e3
  i1 = i1
  x1 = x1
  k1 = k1
  r1 = r1
  r2 = r2
  r3 = r3
  Tenants = {t1, t2}
  Emails = {e1, e2, e3}
  Invitations = {i1}
  Resets = {x1}
  Keys = {k1}
  Requests = {r1, r2, r3}
  InvitableRoles = {"admin"}
  Provisioned <- SomeMembers
  MaxSessions = 1
  NoRequest = NoRequest
  NoUser = NoUser
INVARIANTS
  TypeOK
  TenantKeepsAnOwner
  EmailNamesOneUser
  ResetLinkWorksOnce
PROPERTIES
  NobodyJoinsUninvited
  OwnersAnswerToOwners
SYMMETRY Sym
CHECK_DEADLOCK FALSE
