SPECIFICATION StoreSpec
CONSTANTS
  x = x
  v1 = v1
  Absent = Absent
  Names = {1, 2}
  Addrs = {x}
  Priorities = {0}
  Verifies = {v1}
  MaxDomains = 2
  MaxOrigins = 1
  MaxAttached = 0
  MaxId <- MCMaxId
  MaxPending = 1
INVARIANTS
  NotifiedOfEveryChange
CHECK_DEADLOCK FALSE
