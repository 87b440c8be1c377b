SPECIFICATION FairSpec
CONSTANTS
  c1 = c1
  c2 = c2
  p1 = p1
  self = self
  Cores = {c1, c2}
  Peers = {p1}
  Self = self
  OwnCores = {c1}
  Stored <- MCStored
  MaxLength = 1
  MaxUpdates = 1
  MaxChanges = 2
  NoState = NoState
INVARIANTS CacheCurrent WantsFollowFilter
PROPERTIES ChangesReported SyncCompletes
CHECK_DEADLOCK FALSE
