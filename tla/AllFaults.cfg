SPECIFICATION Spec
CONSTANTS
  valid = valid
  invalid = invalid
  NoTask = NoTask
  Uploads = {u1, u2}
  Workers = {w1, w2}
  Contents = {valid, invalid}
  ValidContents = {valid}
  Content <- SameContent
  UpperCase = {}
  Faults = {"apiAbort", "setupError", "stepError", "dbError", "workerLost", "connectionLost", "softLimit", "hardLimit"}
  MaxRedeliveries = 1
  BacklogPastRetention = FALSE
SYMMETRY Symmetry
INVARIANTS
  TypeOK
  ResultsExactlyOnce
  CompletedHasResults
  TaskInOnePlace
  DuplicateIsPublished
  UnfinishedJobHasFile
PROPERTIES
  ImplementsLedger
  ImplementsMessageLife
  VerdictsStand
  VerdictStaysDue
  UsesTables
CHECK_DEADLOCK FALSE
