SPECIFICATION Spec
CONSTANTS
  valid = valid
  invalid = invalid
  NoTask = NoTask
  Uploads = {u1}
  Workers = {w1}
  Contents = {valid, invalid}
  ValidContents = {valid}
  Content <- SameContent
  UpperCase = {}
  Faults = {"workerLost"}
  MaxRedeliveries = 1
  BacklogPastRetention = FALSE
INVARIANTS
  ResultsAreNotFailed
CHECK_DEADLOCK FALSE
