\* Two owners, an admin, an agent, two Super Admins; two requests of any kind.
SPECIFICATION Spec
CONSTANTS
  ana = ana
  luis = luis
  eva = eva
  max = max
  Users <- MCUsers
  First <- MCFirst
  Staff <- MCStaff
  Requests = {r1, r2}
  Ranks = {"owner", "admin", "agent"}
  MaxInviting = 1
  None = None
SYMMETRY AnyRequests
INVARIANTS
  OwnerlessNeedsARace
  StafflessNeedsARace
\* Every request ends, and nobody has to promote or to invite anybody.
CHECK_DEADLOCK FALSE
