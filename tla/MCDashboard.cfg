CONSTANTS
  o1 = o1  o2 = o2  c1 = c1  c2 = c2
  Orgs = {o1, o2}
  Mine = {o1, o2}
  Calls = {c1, c2}
  MaxTokens = 3
  MaxChanges = 1
  MaxEvents = 2
  Nothing = Nothing
  Nobody = Nobody
  Unknown = Unknown
SPECIFICATION TabSpec
SYMMETRY Symmetry
CHECK_DEADLOCK FALSE
INVARIANTS
  TabTypeOK
  CookieIsLive
  ActsForShown
  HeardIsShown
  PostedOnce
