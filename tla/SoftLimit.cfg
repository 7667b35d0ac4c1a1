SPECIFICATION Spec
CONSTANTS
  valid = valid
  invalid = invalid
  NoTask = NoTask
  Uploads = {u1}
  Workers = {w1}
  Contents = {valid, invalid}
  ValidContents = {valid}
  Content <- SameContent
  UpperCase = {}
  Faults = {"softLimit"}
  MaxRedeliveries = 0
  BacklogPastRetention = FALSE
INVARIANTS
  WorkerNeverAbandons
CHECK_DEADLOCK FALSE
