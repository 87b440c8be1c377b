SPECIFICATION Spec
CONSTANTS
  creator = creator
  ann = ann
  bob = bob
  c1 = c1
  c2 = c2
  Devices = {creator, ann, bob}
  Creator = creator
  Skewed = {bob}
  Rank <- MCRank
  Calls = {c1, c2}
  Assignments <- MCAssignments
  MaxCalls = 2
  MaxVersions = 3
INVARIANTS AuthorityHeld OverridesWhatWasKnown
PROPERTIES RoleNeverReverts
SYMMETRY Symmetry
CHECK_DEADLOCK FALSE
