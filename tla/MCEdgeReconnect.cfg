SPECIFICATION MCSpec
CONSTANTS
  n1 = n1
  s1 = s1
  s2 = s2
  u1 = u1
  None = None
  Nodes = {n1}
  Streams = {s1, s2}
  Updates = {u1}
  Purges = {}
  Cap = 1
INVARIANTS
  ConnectedNodesReached
