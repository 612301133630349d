SPECIFICATION MCSpec
CONSTANTS
  Handlers = {h1, h2}
  MaxActive = 2
  Ttls = {2}
  MaxLinks = 3
  MaxClock = 2
  Names = {"nav", "watch"}
  MaxWrites = 4
  Drives = {"d1", "d2"}
  MaxRows = 2
  MaxTime = 4
  Nobody = Nobody
  Deadline = 2
INVARIANTS RefusedForGood RefusedForAReason AnswerIsCurrent OnlyShippedIsDeleted NoLoginNoEffect
PROPERTIES RequestEnds
CHECK_DEADLOCK FALSE
