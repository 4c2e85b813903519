SPECIFICATION FairSpec
CONSTANTS
  None = None
  Calls = {}
  Streams = {s1}
  Clients = {k1}
CHECK_DEADLOCK FALSE
PROPERTIES AbortedStreamCloses
