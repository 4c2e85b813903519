\* A query and a cancel of one adapter; the database takes as long as it likes.
SPECIFICATION SlowAdapterSpec
CONSTANTS
  c1 = c1
  c2 = c2
  x1 = x1
  a1 = a1
  k1 = k1
  k2 = k2
  None = None
  Calls = {c1}
  Cancels = {x1}
  Clients = {k1}
  Adapters = {a1}
  JdbcCalls = {c1, c2}
  t1 = t1
  t2 = t2
  ca = ca
  cb = cb
  Tables = {t1, t2}
  Columns = {ca, cb}
  Constraints <- SomeConstraints
  MaxChanges = 0
  MaxPieces = 1
CHECK_DEADLOCK FALSE
PROPERTIES CancelStopsQuery
