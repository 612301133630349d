SPECIFICATION StreamSpec
CONSTANTS
  MaxM = 5
  MaxSpeed = 1
  Slack = 1
  ResyncAfter = 2
  Glitches <- MisreadValues
  TopSpeed = 1
  Speeds = {FALSE}
  Syncs = {TRUE}
  StepsTo = {4}
  ForwardSteps = TRUE
  Profiles = {TRUE}
  Counters = {0, 3}
  StartClock = 1
  Streams = {}
  MaxGlitches = 1
  MaxClock = 4
  MaxElapsed = 4
  MaxDriven = 3
  MaxRejected = 4
  NoAnchor = NoAnchor
  Nothing = Nothing

PROPERTIES CreditFitsTime
CHECK_DEADLOCK FALSE
