CONSTANTS
  N = 1
  Ids = {1, 2}
  Vals = {v1}
  Default = Default
  NpuPorts = {n1, n2}
  Clients = {c1, c2}
  None = None
  NdiMayFail = TRUE
  MaxRequests = 2
  MaxChanges = 2
SPECIFICATION Spec
SYMMETRY Symmetry
INVARIANT TypeOK
INVARIANT CacheFollowsDb
INVARIANT NpuFollowsCache
INVARIANT ListsLiveGroups
INVARIANT GroupsRestored
