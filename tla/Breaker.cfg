SPECIFICATION Spec
CONSTANTS
  Callers = {k1, k2}
  Services = {"gemini"}
  FailureThreshold = 5
  MaxStreak = 6
INVARIANT OpensAfterFailures
CHECK_DEADLOCK FALSE
