SPECIFICATION FairSpec
CONSTANTS
  Modes = {normal, long}
  Versions = {v1, v2}
  DefaultMode = normal
  Cap = 2
  Chunk = 2
  MaxReadings = 2
  MaxNotes = 1
  MaxChanges = 3
  None = None
INVARIANTS ProvenanceHolds NoneLostNoneTwice
PROPERTIES StoreSpec PollLoopMoves
CHECK_DEADLOCK FALSE
