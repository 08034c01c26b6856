CONSTANTS
  t1 = t1  t2 = t2  c1 = c1  c2 = c2
  Tabs = {t1, t2}
  Calls = {c1, c2}
  MaxEdits = 2
  MaxVersions = 2
  MaxEvents = 2
  Nothing = Nothing
SPECIFICATION EditorSpec
SYMMETRY Symmetry
CHECK_DEADLOCK FALSE
INVARIANTS
  EditorTypeOK
  PublishedIsNewest
  AnnouncedIsPublished
  CleanIsSaved
