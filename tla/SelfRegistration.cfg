SPECIFICATION ServiceSpec
CONSTANTS
  Emails <- OneEmail
  Workers <- TwoWorkers
  Callers <- OneCaller
  None = None
  Window = 2
  MaxAttempts = 1
  Stall = 1
  MaxTime = 3
  MaxCalls = 4
  MaxEvents = 2
  e1 = e1
  e2 = e2
  a = a
  b = b
  c = c
  k1 = k1
  k2 = k2
SYMMETRY MCSymmetry
INVARIANTS ReportedAccountsStay OrphansExplained BurstBound
CHECK_DEADLOCK FALSE
