SPECIFICATION MCSpec
CONSTANTS
  Aliases <- OneAlias
  Shown <- TwoShown
  Secrets <- OneSecret
  Workers <- MCWorkers
  Ops <- AllOps
  MaxCalls = 3
  MaxEvents = 0
  None = None
  p1 = p1
  p2 = p2
  o1 = o1
  o2 = o2
  s1 = s1
  s2 = s2
  a = a
  b = b
PROPERTIES AppliesStoredState
CHECK_DEADLOCK FALSE
