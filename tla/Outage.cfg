SPECIFICATION Spec
CONSTANTS
  RowCount = 360
  Uncategorised <- OutageRows
  Keys <- OutageRows
  ValidCategories = {"Food", "Other"}
  Words = {"Food", "Nonsense"}
  Replies = {"error"}
  BatchSize = 20
  RetryMax = 3
  BaseDelay = 1
  BatchPause = 10
  CallTimes = {0}
  CallTimeout = 30
  WorkTime = 0
  SoftLimit = 300
INVARIANT OutageDoesNotFailJob
CHECK_DEADLOCK FALSE
