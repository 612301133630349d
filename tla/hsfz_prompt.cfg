SPECIFICATION Spec
CONSTANTS
  Ecus = {dde, egs}
  Services = {"22"}
  Ids = {"a", "b"}
  Requests <- OneRead
  Timeouts = {2}
  SettleQuiet = 2
  SettleMax = 3
  PendingExtension = 2
  PendingMaxTotal = 5
  EcuDepth = 2
  Latency = 2
  NoticeLatency = 1
  MaxNotices = 1
  AnswersMayCross = TRUE
  NoRecord = NoRecord
  NoId = NoId
INVARIANTS NoStaleAnswer

