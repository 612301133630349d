SPECIFICATION FairSpec
CONSTANTS
  dyn1 = dyn1
  dyn2 = dyn2
  plain = plain
  pid1 = pid1
  pid2 = pid2
  Defines = {dyn1, dyn2}
  Plain = {plain}
  Pids = {pid1, pid2}
  BatchSize = 2
  Strikes = 1
  RequestFaultLimit = 2
  TransportFaultBudget = 2
  RestSeconds = 2
  RestMax = 2
  None = None
  Unset = Unset
  Requests <- Order
  Classes = {"fast", "dyn"}
  ClassOf <- Class
  PairOf <- Pairs
  Declared <- Rates
  Modes <- DriveModes
  FirstMode <- Normal
  MaxTicks = 1
INVARIANTS ReadingIsOwn EveryPidAccounted
PROPERTIES EveryRequestComesRound
