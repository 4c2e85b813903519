SPECIFICATION AnalysisSpec
CONSTANTS
  i1 = i1
  i2 = i2
  i3 = i3
  i4 = i4
  h1 = h1
  h2 = h2
  w1 = w1
  w2 = w2
  a = a
  m1 = m1
  o1 = o1
  o2 = o2
  Edit = Edit
  None = None
  Ids = {i1, i2, i3, i4}
  Results = {h1, h2}
  Workspaces = {w1, w2}
  Federated = w2
  Bases <- TwoBases
  MaxDatasets = 3
  MaxResults = 1
  Ops = {m1, o1, o2}
  OnMain = {m1}
  Exports = {m1}
  MaxExports = 3
  MaxRows = 3
  RowSizes = {1, 4}
  Targets = {2}
  BatchRows = 2
  FrameLimit = 5
  FrameBase = 1
  DatasetBudget = 8
  SampleBudget = 6
  Fields = {"va", "vb"}
  Atoms <- SomeAtoms
  Selects <- SomeSelects
  Collections <- SomeCollections
  MaxSource = 1
  RowLimit = 1
  MaxParts = 4
  HeaderNames <- SomeNames
  MaxColumns = 4
  SourceTypes <- SomeTypes
  JsonValues <- SomeValues
  Computed <- SomeComputed
  MaxLong = 11
  MaxSafe = 5
  MaxDecimal = 5
  Day = 2
  MaxPieces = 4
  Tables <- SomeTables
  Limit = 2
  MaxBytes = 5
  Catalogs <- SomeCatalogs
  Locals <- SomeLocals
CHECK_DEADLOCK FALSE
INVARIANTS StoreInv EngineInv ExportInv ImportInv QueriesInv MongoInv ValuesInv
PROPERTIES OwnersOnly StopTakesEffect ImportEnds
