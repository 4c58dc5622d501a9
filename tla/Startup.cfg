SPECIFICATION LifeSpec
CONSTANTS
  Tokens = {t1, t2}
  AuditPaths = {"memory"}
  ArgumentFlaws = {"redirectUri"}
  PlatformFlaws = {"mergePolicy"}
  MaxSeeds = 2
  MaxStarts = 2
  Unset = Unset
SYMMETRY TokenSymmetry
INVARIANTS ReadyIsWhole NoLeftover
CHECK_DEADLOCK FALSE
