\* Two windows, two requests; no symmetry, liveness is checked.
SPECIFICATION CallsSpec
CONSTANTS
  MaxRequests = 2
  Listeners = {w1, w2}
  NoListener = NoListener
  MaxQueueSize = 2
  MaxHistory = 1
  Timeout = 2
  Lease = 1
  Window = 1
  None = None
  Runs = {r}
  Writes = {w}
  ToolCalls = {t}
  Attempts = 2
  MaxCalls = 2
  MaxBreaks = 1
CHECK_DEADLOCK FALSE
INVARIANTS BridgeInv CallsInv
PROPERTIES KeepsPromise EveryRequestSettles SilentListenerLosesLease CallsSettle
