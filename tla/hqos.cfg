CONSTANTS
  N = 2
  S = 1
  NpuPorts = {n1, n2}
  Clients = {c1, c2}
  None = None
  Missing = Missing
  NdiMayFail = TRUE
  MaxRequests = 2
  MaxChanges = 2
SPECIFICATION Spec
SYMMETRY Symmetry
INVARIANT TypeOK
INVARIANT ListsAgree
INVARIANT NpuFollowsCache
INVARIANT RollbackRestores
