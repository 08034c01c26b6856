\* Run knowledge: a page and the catalog, two requests, three calls.
SPECIFICATION Spec
CONSTANTS
  w1 = w1
  c1 = c1
  c2 = c2
  r1 = r1
  r2 = r2
  k1 = k1
  k2 = k2
  k3 = k3
  Pages = {w1}
  CatalogRows = {c1, c2}
  Requests = {r1, r2}
  Calls = {k1, k2, k3}
  MaxVersion = 2
  MaxPage = 1
  Blank = {0}
  MaxAttempts = 2
  MaxStalls = 1
  Faults = TRUE
  None = None
SYMMETRY MCSymmetry
INVARIANTS
  TypeOK
  OneIngestion
  RemovedIsForgotten
  CatalogIsKnown
CHECK_DEADLOCK FALSE
