SPECIFICATION AdapterSpec
CONSTANTS
  c1 = c1
  c2 = c2
  x1 = x1
  a1 = a1
  k1 = k1
  k2 = k2
  None = None
  Calls = {c1, c2}
  Cancels = {x1}
  Clients = {k1, k2}
  Adapters = {a1}
  JdbcCalls = {c1, c2}
  t1 = t1
  t2 = t2
  ca = ca
  cb = cb
  Tables = {t1, t2}
  Columns = {ca, cb}
  Constraints <- SomeConstraints
  MaxChanges = 2
  MaxPieces = 5
CHECK_DEADLOCK FALSE
INVARIANTS AdapterInv SidecarInv CatalogInv ReadersInv
PROPERTIES KillIsCurrent AllEnd
