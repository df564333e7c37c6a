CONSTANTS
  N = 2
  S = 0
  NpuPorts = {n1}
  Clients = {c1}
  None = None
  Missing = Missing
  NdiMayFail = FALSE
  MaxRequests = 1
  MaxChanges = 2
SPECIFICATION Spec
INVARIANT ReplayRestores
