SPECIFICATION FairSpec
CONSTANTS
  c1 = c1
  c2 = c2
  d1 = d1
  d2 = d2
  Conns = {c1, c2}
  Devices = {d1, d2}
  DeviceOf <- OwnDevice
  PRESYNC_NAMESPACES = {"auth"}
  DATA_NAMESPACES = {"data"}
  BlockedSets <- SomeBlocked
  Durations = {60}
  MaxHave = 1
  Null = Null
INVARIANTS TimerJustified
PROPERTIES FullStopSticks FullStopCompletes AutostopStops WaiterResolves
