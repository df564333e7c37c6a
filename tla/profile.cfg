CONSTANTS
  Ids = {i1, i2}
  Vals = {v1, v2}
  Names = {NoName}
  Handles = {h1, h2}
  Clients = {c1, c2}
  None = None
  NoName = NoName
  NdiMayFail = TRUE
  HasShadows = TRUE
  MaxOps = 2
SPECIFICATION Spec
SYMMETRY Symmetry
INVARIANT TypeOK
INVARIANT IdsMatchObjects
INVARIANT NpuMirrorsCache
INVARIANT RollbackRestores
PROPERTY Atomic
