SPECIFICATION DiscoveryFairSpec
CONSTANTS
  Low = low
  High = high
  c1 = c1
  c2 = c2
  c3 = c3
  Streams <- MCStreams
  Initiator <- MCInitiator
  MaxDrops = 1
  MaxStops = 1
  Null = Null
INVARIANTS OneHandedOver
PROPERTIES SettlesOnOne ForceStopCloses
CHECK_DEADLOCK FALSE
