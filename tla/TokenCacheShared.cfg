SPECIFICATION MCSpec
CONSTANTS
  Workers <- TwoWorkers
  None = None
  MaxTokens = 8
  MaxCalls = 4
  MaxExpiries = 1
  MaxLost = 0
  a = a
  b = b
INVARIANTS OneExpiryAlwaysSurvived
CHECK_DEADLOCK FALSE
