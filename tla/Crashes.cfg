SPECIFICATION FairSpec
CONSTANTS
  valid = valid
  invalid = invalid
  NoTask = NoTask
  Uploads = {u1, u2}
  Workers = {w1}
  Contents = {valid, invalid}
  ValidContents = {valid}
  Content <- OneInvalid
  UpperCase <- OneUpperCase
  Faults = {"apiAbort", "stepError", "workerLost"}
  MaxRedeliveries = 1
  BacklogPastRetention = TRUE
INVARIANTS
  WorkerNeverAbandons
PROPERTIES
  JobGetsVerdict
  FilesReclaimed
CHECK_DEADLOCK FALSE
