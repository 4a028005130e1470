SPECIFICATION MCSpec
CONSTANTS
  n1 = n1
  n2 = n2
  s1 = s1
  s2 = s2
  s3 = s3
  u1 = u1
  p1 = p1
  None = None
  Nodes = {n1, n2}
  Streams = {s1, s2, s3}
  Updates = {u1}
  Purges = {p1}
  Cap = 1
SYMMETRY Interchangeable
INVARIANTS
  TypeOK
  NoDeadRegistration
  SoleStreamsReached
  AtMostOncePerNode
