SPECIFICATION FairSpec
CONSTANTS
  Ecus = {dde}
  Services = {"22"}
  Ids = {"a", "b"}
  Requests <- TwoReads
  Timeouts = {2, 6}
  SettleQuiet = 2
  SettleMax = 3
  PendingExtension = 2
  PendingMaxTotal = 5
  EcuDepth = 1
  Latency = 3
  NoticeLatency = 2
  MaxNotices = 2
  AnswersMayCross = FALSE
  NoRecord = NoRecord
  NoId = NoId
INVARIANTS NoSilentStale CallBounded
PROPERTIES CallReturns TransportSpec
