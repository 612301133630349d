SPECIFICATION FairSpec
CONSTANTS
  Configs = {c1, c2}
  First = c1
  BatchRows = 1
  LateCopies = 1
  MaxRuns = 2
  MaxRows = 2
  MaxNotes = 1
  MaxFailures = 1
  None = None
INVARIANTS NothingSkipped LabelledAsRead SessionsSettle
PROPERTIES CaughtUp
CHECK_DEADLOCK FALSE
