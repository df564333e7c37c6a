CONSTANTS
  Ports = {p1, p2}
  NpuPorts = {n1}
  CpuPorts = {p2}
  FcPorts = {}
  CpsThreads = {cps}
  EventThread = event
  ScanThread = scan
  Absent = Absent
  Virtual = Virtual
  Broken = Broken
  None = None
  NdiMayFail = TRUE
  MaxChanges = 1
SPECIFICATION Spec
INVARIANT Inductive
INVARIANT InitializedHasProfiles
PROPERTY InitNeverRebinds
CHECK_DEADLOCK FALSE
