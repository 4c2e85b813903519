SPECIFICATION FairSpec
CONSTANTS
  None = None
  Calls = {c1, c2}
  Streams = {s1}
  Clients = {k1, k2}
CHECK_DEADLOCK FALSE
INVARIANTS SessionInv
PROPERTIES GuardReleased
