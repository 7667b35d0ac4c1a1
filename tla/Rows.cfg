SPECIFICATION Spec
CONSTANTS
  None = None
  Texts <- SomeTexts
  Headers <- SomeHeaders
  RawRows <- SomeRows
  MaxRows = 4
  Strip <- SomeStrip
  Upper <- SomeUpper
  Lower <- SomeLower
  Strptime <- SomeStrptime
  Digits <- SomeDigits
  Negative = {"-5"}
  DomesticOnly = {"swiggy"}
  Suspicious = {"suspicious"}
  Multiplier = 3
  FailedThreshold = 300
  Words = {"Food", "Other"}
INVARIANTS
  RowsTypeOK
  CountsAddUp
  FirstOccurrencesKept
  OutliersAreAMinority
  BreakdownsBalance
CHECK_DEADLOCK FALSE
