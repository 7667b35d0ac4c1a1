SPECIFICATION Spec
CONSTANTS
  RowCount = 4
  Uncategorised = {0, 2, 3}
  Keys = {0, 1, 2, 3, 9}
  ValidCategories = {"Food", "Other"}
  Words = {"Food", "Nonsense"}
  Replies = {"error", "unparsable", "wrongShape", "answer"}
  BatchSize = 2
  RetryMax = 3
  BaseDelay = 1
  BatchPause = 10
  CallTimes = {0, 3}
  CallTimeout = 3
  WorkTime = 1
  SoftLimit = 300
INVARIANT RepliesNeverCrashJob
CHECK_DEADLOCK FALSE
