SPECIFICATION MCSpec
CONSTANTS
  Aliases <- TwoAliases
  Shown <- TwoShown
  Secrets <- TwoSecrets
  Workers <- MCWorkers
  Ops <- AllOps
  MaxCalls = 3
  MaxEvents = 2
  None = None
  p1 = p1
  p2 = p2
  o1 = o1
  o2 = o2
  s1 = s1
  s2 = s2
  a = a
  b = b
SYMMETRY MCSymmetry
PROPERTIES ImplementsDesiredState UndisturbedConverges
CHECK_DEADLOCK FALSE
