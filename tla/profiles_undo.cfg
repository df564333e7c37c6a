CONSTANTS
  N = 1
  Ids = {1, 2}
  Vals = {v1}
  Default = Default
  NpuPorts = {n1, n2}
  Clients = {c1}
  None = None
  NdiMayFail = FALSE
  MaxRequests = 2
  MaxChanges = 2
SPECIFICATION Spec
SYMMETRY Symmetry
INVARIANT ProfilesRestored
