\* Run answers: two messages of a contact, two rules, one agent, one tag.
SPECIFICATION Spec
CONSTANTS
  m1 = m1
  m2 = m2
  u1 = u1
  t1 = t1
  Messages = {m1, m2}
  Calls = {m1, m2}
  Users = {u1}
  Tags = {t1}
  Rules = {1, 2}
  Definitions <- MCDefinitions
  FirstRules <- MCFirstRules
  Content <- MCContent
  Budgets = {1}
  MaxCost = 2
  MaxMoves = 1
  None = None
  Gone = Gone
  Unlimited = Unlimited
SYMMETRY MCSymmetry
INVARIANTS
  TypeOK
  OneVoice
  CooldownHolds
  FirstAnswerDiscloses
  OverrunIsBounded
CHECK_DEADLOCK FALSE
