CONSTANTS
  Ports = {p1}
  NpuPorts = {n1, n2}
  CpuPorts = {}
  FcPorts = {}
  CpsThreads = {cps}
  EventThread = event
  ScanThread = scan
  Absent = Absent
  Virtual = Virtual
  Broken = Broken
  None = None
  NdiMayFail = FALSE
  MaxChanges = 3
SPECIFICATION FairSpec
INVARIANT TypeOK
INVARIANT SettledUnlessRaced
INVARIANT HqosTogether
INVARIANT Settling
PROPERTY EventuallySettles
CHECK_DEADLOCK FALSE
