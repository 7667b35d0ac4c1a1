SPECIFICATION Spec
CONSTANTS
  valid = valid
  invalid = invalid
  NoTask = NoTask
  Uploads = {u1}
  Workers = {w1}
  Contents = {valid, invalid}
  ValidContents = {valid}
  Content <- SameContent
  UpperCase = {}
  Faults = {}
  MaxRedeliveries = 0
  BacklogPastRetention = FALSE
PROPERTIES
  TerminalIsFinal
CHECK_DEADLOCK FALSE
