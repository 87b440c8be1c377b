SPECIFICATION Spec
CONSTANTS
  a = a
  b = b
  c = c
  Devices = {a, b, c}
  Creator = c
  Inviter <- MCInviter
  Met <- MCMet
  Links <- MCLinks
  MaxConns = 2
  MaxRestarts <- MCOnce
  MaxClears <- MCOnce
INVARIANTS MembersAdded OnlyMembersAdded
PROPERTIES NothingForgotten
CHECK_DEADLOCK FALSE
