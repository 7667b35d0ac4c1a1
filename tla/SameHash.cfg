SPECIFICATION Spec
CONSTANTS
  valid = valid
  invalid = invalid
  NoTask = NoTask
  Uploads = {u1, u2}
  Workers = {w1}
  Contents = {valid, invalid}
  ValidContents = {valid}
  Content <- SameContent
  UpperCase = {}
  Faults = {}
  MaxRedeliveries = 0
  BacklogPastRetention = FALSE
INVARIANTS
  OneLiveJobPerContent
CHECK_DEADLOCK FALSE
