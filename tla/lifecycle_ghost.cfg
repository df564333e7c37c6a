CONSTANTS
  Ports = {p1}
  NpuPorts = {n1}
  CpuPorts = {}
  FcPorts = {}
  CpsThreads = {}
  EventThread = event
  ScanThread = scan
  Absent = Absent
  Virtual = Virtual
  Broken = Broken
  None = None
  NdiMayFail = FALSE
  MaxChanges = 1
SPECIFICATION Spec
INVARIANT NoGhostNodes
CHECK_DEADLOCK FALSE
