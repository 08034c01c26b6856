\* Two messages and every fault: what fails or dies half-way, a job that runs
\* twice, a version published, the flow removed, a person who takes over.
SPECIFICATION Spec
CONSTANTS
  long = v1
  short = v2
  untimed = v3
  dangling = v4
  None = None
  Messages = {m1, m2}
  Versions <- MCVersions
  GraphOf <- MCGraphOf
  Waits = {j1, j2}
  Wakers = {w1, w2}
  MaxSteps = 3
  MaxAttempts = 2
  MaxStalls = 1
  MayFail = TRUE
  Mortal = {w1}
  Slow = {w2}
INVARIANTS
  WaitsWhereItCanResume
  FailsOnlyAtTheLimit
  
PROPERTIES
  JobEndsItsWait
  AnswersEnd
  QueuedWaitsEnd
CHECK_DEADLOCK FALSE
