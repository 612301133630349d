SPECIFICATION MCSpec
CONSTANTS
  Absent = Absent
  Texts <- MCTexts
  Tails <- MCTails
  Default = Default
  Trees <- MCTrees
  Abilities <- MCAbilities
  Family = "dde"
  Unset = Unset
  Nowhere = Nowhere
  Cars <- MCCars
  Functional = 2
  Likely <- MCLikely
  Sweep <- MCSweep
  DdeAddr = 18
  Forced <- MCForced
  Files <- MCFiles
  MaxLosses = 2
  Candidates <- MCCandidates
  Ecus = {18, 24}
  Engine = 18
  NoTarget = 0
  Faults = 2
  MaxRounds = 2
  Stray = "stray"
  MaxGap = 1
  Preferred <- MCPreferred
  References = 1
  Currents = 1
  MaxRuns = 3
  MaxDrive = 1
  MaxNow = 3
  MaxBoots = 2
  MaxEvents = 1
  MaxBuild = 2
  Missing = Missing
  Tolerance = 1
  DrivingSpeed = 3
  Flags = {"sentinel"}
  Steps <- MCSteps
  MaxSamples = 4
  MaxTrue = 3
  Unsaid = Unsaid
  ColdStart = 4
  Marks = {6, 8, 9}
  RampMark = 8
  LagMark = 6
  Half = 1
  Lookup = 0
  MinContext = 2
  Spread <- MCSpread
  Bins <- MCBins
  Readings <- MCReadings
  MaxTs = 3
  Paths = {1, 2}
  Contents <- MCContents
  MaxVersion = 3
  MaxPulls = 2
  Gone = Gone
INVARIANTS  ResolvedIsLeast ShownIsGrounded ActiveOnlyWhenProven EvidenceIsOwn TripIsOneDrive  PairedInTruth FilterWasFitted GuardSuffices SteadyOverBothReads
  
CHECK_DEADLOCK FALSE
