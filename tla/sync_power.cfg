SPECIFICATION Spec
CONSTANTS
  Configs = {c1, c2}
  First = c1
  BatchRows = 1
  LateCopies = 1
  MaxRuns = 2
  MaxRows = 2
  MaxNotes = 1
  MaxFailures = 1
  None = None
INVARIANT NeverSkips
CHECK_DEADLOCK FALSE
