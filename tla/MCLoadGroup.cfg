SPECIFICATION LoadSpec
CONSTANTS
  x = x
  y = y
  Hosts = {1, 2, 3}
  Origins = {x, y}
  Priorities = {0, 1}
  MaxRows = 4
INVARIANTS
  LoadTypeOK
  GroupedInOrder
CHECK_DEADLOCK FALSE
