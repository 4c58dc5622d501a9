SPECIFICATION MCSpec
CONSTANTS
  Workers <- TwoWorkers
  None = None
  MaxTokens = 8
  MaxCalls = 4
  MaxExpiries = 2
  MaxLost = 1
  a = a
  b = b
INVARIANTS AtMostOneEffect OneExpirySurvived
CHECK_DEADLOCK FALSE
