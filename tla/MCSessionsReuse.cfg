\* The session of an earlier day is refreshed and its token is used again.
SPECIFICATION Spec
CONSTANTS
  ana = ana
  luis = luis
  shop = shop
  lab = lab
  old = old
  New = {r1, r2}
  Users <- MCUsers
  Orgs <- MCOrgs
  Requests <- MCRequests
  Past <- MCPast
  PastUser <- MCPastUser
  PastOrg <- MCPastOrg
  MayExpire = {}
  Mortal = {}
  MaxInviting = 1
  None = None
INVARIANT ReuseEndsTheFamily
CHECK_DEADLOCK FALSE
