SPECIFICATION MCSpec
CONSTANTS
  Dirs <- OneDir
  Shown <- OneShown
  Secrets <- TwoSecrets
  Ids <- TwoIds
  Workers <- OneWorker
  Services <- OneService
  Wired = x1
  Ops <- PutDelete
  MaxCalls = 3
  MaxEvents = 1
  None = None
  d1 = d1
  d2 = d2
  o1 = o1
  o2 = o2
  s1 = s1
  s2 = s2
  i1 = i1
  i2 = i2
  i3 = i3
  a = a
  b = b
  x1 = x1
  x2 = x2
PROPERTIES SecretChangeForcesUpdate
CHECK_DEADLOCK FALSE
