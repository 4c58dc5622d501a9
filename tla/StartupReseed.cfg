SPECIFICATION LifeSpec
CONSTANTS
  Tokens = {t1, t2}
  AuditPaths = {"memory"}
  ArgumentFlaws = {"redirectUri"}
  PlatformFlaws = {"mergePolicy"}
  MaxSeeds = 2
  MaxStarts = 1
  Unset = Unset
INVARIANTS UnseededRegistrationDisabled
CHECK_DEADLOCK FALSE
