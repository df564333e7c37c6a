CONSTANTS
  Types = {t1, t2}
  KeyTypes = {t2}
  IdRange = 3
  MaxId = 2
  AskedIds = {0, 4, 5}
  Keys = {k1}
  KeyVal <- MCKeyVal
  Held = v1
  Vals = {v0, v1}
  Default = v0
  Clients = {c1, c2}
  None = None
  NdiMayFail = TRUE
  MaxSaved = 2
SPECIFICATION Spec
SYMMETRY Symmetry
CONSTRAINT AtMostTwoMaps
INVARIANT TypeOK
INVARIANT IdsMatchMaps
INVARIANT StaleEntriesAreDirty
INVARIANT RollbackRestores
