CONSTANTS
  Pools = {k1, k2}
  Vals = {v1}
  Default = Default
  Handles = {h1, h2}
  NpuPorts = {n1, n2}
  Clients = {c1, c2}
  None = None
  Null = Null
  NdiMayFail = TRUE
  MaxRequests = 2
  MaxChanges = 3
SPECIFICATION Spec
SYMMETRY Symmetry
INVARIANT TypeOK
INVARIANT CacheFollowsDb
INVARIANT NpuFollowsCache
INVARIANT PoolsRestored
CHECK_DEADLOCK FALSE
