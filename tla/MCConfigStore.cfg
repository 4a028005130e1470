SPECIFICATION StoreSpec
CONSTANTS
  x = x
  y = y
  v1 = v1
  Absent = Absent
  Names = {1, 2}
  Addrs = {x, y}
  Priorities = {0}
  Verifies = {v1}
  MaxDomains = 2
  MaxOrigins = 2
  MaxAttached = 1
  MaxId <- MCMaxId
  MaxPending = 1
SYMMETRY Interchangeable
INVARIANTS
  StoreTypeOK
  PushedIsCurrent
  DisabledNotServed
  NoOrphans
  VerifyHitsItsDomain
PROPERTIES
  ImplementsServed
CHECK_DEADLOCK FALSE
