SPECIFICATION LifecycleSpec
CONSTANTS
  i1 = i1
  i2 = i2
  i3 = i3
  k1 = k1
  k2 = k2
  Instances = {i1, i2, i3}
  Calls = {k1, k2}
  None = None
INVARIANTS LeftIsCleared JoinedIsUsable
SYMMETRY Symmetry
