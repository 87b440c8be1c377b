SPECIFICATION FairSpec
CONSTANTS
  d1 = d1
  d2 = d2
  a1 = a1
  a2 = a2
  b1 = b1
  Devices = {d1, d2}
  Conns = {a1, a2, b1}
  DeviceOf <- MCDeviceOf
  Projects = {"p1"}
  MaxOpens = 1
  None = None
INVARIANTS ProjectsReplicate
PROPERTIES InfoIsSent
CHECK_DEADLOCK FALSE
