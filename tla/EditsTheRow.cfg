SPECIFICATION EditedSpec
CONSTANTS
  k1 = k1
  g1 = g1
  p1 = p1
  f1 = f1
  s1 = s1
  s2 = s2
  r1 = r1
  r2 = r2
  t1 = t1
  Elsewhere = Elsewhere
  None = None
  Connections = {k1}
  Refreshed = k1
  Groups = {g1}
  Configs = {f1}
  Slots = {p1}
  Schemas = {s1, s2}
  Contents <- TwoReaders
  Times = {t1}
  Refreshes = {r1, r2}
  MaxChanges = 1
  x = x
  y = y
  Other = Other
  Listed <- OneSchema
  ColumnOrder <- TwoColumns
  Rows = {x, y}
  Values = {0, 1}
  Written <- ClosedQueries
  Found <- OneTable
  MaxRuns = 1
  MaxDdl = 0
CHECK_DEADLOCK FALSE
INVARIANTS EditsTheRowShown
