SPECIFICATION LoadSpec
CONSTANTS
  x = x
  y = y
  Hosts = {1, 2, 3}
  Origins = {x, y}
  Priorities = {0, 1}
  MaxRows = 2
INVARIANTS
  ReturnedIsComplete
CHECK_DEADLOCK FALSE
