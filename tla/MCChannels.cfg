\* Run channels: two accounts, two organizations, two authorizations, three
\* requests or jobs.
SPECIFICATION Spec
CONSTANTS
  o1 = o1
  o2 = o2
  a1 = a1
  a2 = a2
  f1 = f1
  f2 = f2
  t1 = t1
  t2 = t2
  t3 = t3
  Orgs = {o1, o2}
  Accounts = {a1, a2}
  Flows = {f1, f2}
  Tasks = {t1, t2, t3}
  None = None
SYMMETRY MCSymmetry
INVARIANTS
  TypeOK
  TokenIsItsOwn
  ExpiredIsTrue
CHECK_DEADLOCK FALSE
