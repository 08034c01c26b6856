\* A message and an echo, every fault: failing transactions and queue, a worker
\* that may die and one that may lose its lock and go on.
SPECIFICATION Spec
CONSTANTS
  first = e1
  second = e2
  secondIsEcho = TRUE
  theContact = c1
  sent = r1
  again = r2
  Events <- MCEvents
  Echoes <- MCEchoes
  Contacts <- MCContacts
  ContactOf <- MCContactOf
  MaxStamp <- MCMaxStamp
  Stamp <- MCStamp
  Requests <- MCRequests
  BatchOf <- MCBatchOf
  Workers = {w1, w2}
  MaxAttempts = 2
  MaxStalls = 1
  DbMayFail = TRUE
  QueueMayFail = TRUE
  Mortal = {w1}
  Slow = {w2}
  None = None
INVARIANTS
  HandledOnce
  ProcessedIsStored
\* The requests are finitely many: when all are served the system stops.
CHECK_DEADLOCK FALSE
