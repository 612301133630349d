SPECIFICATION Spec
CONSTANTS
  Ecus = {dde}
  Services = {"22"}
  Ids = {"a", "b"}
  Requests <- OneRead
  Timeouts = {2}
  SettleQuiet = 1
  SettleMax = 2
  PendingExtension = 2
  PendingMaxTotal = 5
  EcuDepth = 2
  Latency = 4
  NoticeLatency = 1
  MaxNotices = 0
  AnswersMayCross = FALSE
  NoRecord = NoRecord
  NoId = NoId
INVARIANTS NoSilentStale

