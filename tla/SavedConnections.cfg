SPECIFICATION ConnectionsSpec
CONSTANTS
  i1 = i1
  c1 = c1
  c2 = c2
  i2 = i2
  Saved = Saved
  None = None
  Ids = {i1, i2}
  Touched = {i1}
  Calls = {c1, c2}
  MaxRestarts = 1
  e1 = e1
  e2 = e2
  e3 = e3
  e4 = e4
  Refs = {e1, e2, e3, e4}
  Own <- MCOwn
  OwnGroups <- MCOwnGroups
  Lower <- MCLower
  Theirs <- MCTheirs
  CredentialFiles <- MCCredentialFiles
  MaxSaved = 6
  MaxImports = 2
  MaxFailures = 1
  MaxReads = 2
  MaxToggles = 1
CHECK_DEADLOCK FALSE
INVARIANTS ConnectionInv TransferInv
PROPERTIES LegacyPasswordKept EveryCallEnds
