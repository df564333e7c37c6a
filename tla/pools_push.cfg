CONSTANTS
  Pools = {k1}
  Vals = {v1}
  Default = Default
  Handles = {h1, h2}
  NpuPorts = {n1}
  Clients = {c1}
  None = None
  Null = Null
  NdiMayFail = FALSE
  MaxRequests = 1
  MaxChanges = 1
SPECIFICATION Spec
INVARIANT DbReachesNpu
CHECK_DEADLOCK FALSE
