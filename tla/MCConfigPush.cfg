SPECIFICATION MCPushSpec
CONSTANTS
  n1 = n1
  s1 = s1
  u1 = u1
  u2 = u2
  None = None
  Nodes = {n1}
  Streams = {s1}
  Updates = {u1, u2}
  Purges = {}
  Cap = 1
  MaxRev = 2
  Fetchers = {s1}
  LoadMayFail = TRUE
INVARIANTS
  PushTypeOK
  VersionsDense
  EnvelopeNotOlder
  EnvelopesAscend
  SerialConverges
  SerialInOrder
  SubscribeThenFetch
  FullConfigFresh
PROPERTIES
  ImplementsFeed
