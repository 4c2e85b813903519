SPECIFICATION InterfaceSpec
CONSTANTS
  None = None
  Requests = {r1, r2}
  Tabs = {t1, t2}
  Connections = {k1, k2}
  MaxMoves = 1
  MaxRestarts = 1
  OfEngine = {}
  EditedRows = {e1}
  MaxStatements = 2
  MaxQueries = 2
CHECK_DEADLOCK FALSE
INVARIANTS EditsWhereItRead
