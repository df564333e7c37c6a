CONSTANTS
  i1 = i1
  i2 = i2
  Intfs = {i1, i2}
  NpuPorts = {n1, n2}
  Queues <- MCQueues
  Groups <- MCGroups
  Pools <- MCPools
  Mmus = 1
  Lacks <- MCLacks
  None = None
  MaxRefusals = 3
  MaxChanges = 1
SPECIFICATION Spec
SYMMETRY Symmetry
INVARIANT TypeOK
INVARIANT SnapshotsOfOneSync
INVARIANT NothingElse
INVARIANT NothingMissed
