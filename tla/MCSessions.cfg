\* One old session and three new requests of any kind; a process may die.
SPECIFICATION Spec
CONSTANTS
  ana = ana
  luis = luis
  shop = shop
  lab = lab
  old = old
  New = {r1, r2, r3}
  Users <- MCUsers
  Orgs <- MCOrgs
  Requests <- MCRequests
  Past <- MCPast
  PastUser <- MCPastUser
  PastOrg <- MCPastOrg
  MayExpire = {old}
  Mortal = {r1, r2, r3}
  MaxInviting = 1
  None = None
SYMMETRY NewRequests
INVARIANTS
  SpentOnce
  RemovedStayOut
  SuspendedStayOut
  OldSessionsEnd
\* Every request ends, and nobody has to invite anybody.
CHECK_DEADLOCK FALSE
