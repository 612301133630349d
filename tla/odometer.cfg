SPECIFICATION MCSpec
CONSTANTS
  MaxM = 5
  MaxSpeed = 1
  Slack = 1
  ResyncAfter = 2
  Glitches <- MisreadValues
  TopSpeed = 1
  Speeds = {FALSE, TRUE}
  Syncs = {TRUE}
  StepsTo = {0}
  ForwardSteps = FALSE
  Profiles = {FALSE, TRUE}
  Counters = {0, 3}
  StartClock = 1
  Streams = {s1}
  MaxGlitches = 1
  MaxClock = 4
  MaxElapsed = 4
  MaxDriven = 3
  MaxRejected = 4
  NoAnchor = NoAnchor
  Nothing = Nothing
INVARIANTS NeverInvented OutageBridged ServiceResumes StreamFresh
PROPERTY CreditFitsTime
CHECK_DEADLOCK FALSE
