SPECIFICATION MCSpec
CONSTANTS
  Clients = {1, 2}
  Registrations <- MCRegistrations
  Foreign = foreign
  Uuids <- MCUuids
  Workers <- MCWorkers
  None = None
  MaxCalls = 3
  MaxEvents = 1
  r1 = r1
  r2 = r2
  foreign = foreign
  u1 = u1
  u2 = u2
  u3 = u3
  a = a
  b = b
SYMMETRY MCSymmetry
INVARIANTS OneOwnClient
PROPERTIES ImplementsDesiredState UndisturbedConverges InSyncIsCurrent
CHECK_DEADLOCK FALSE
