CONSTANTS
  Node = {n0, n1, n2}
  Creator = n0
  n0 = n0
  n1 = n1
  n2 = n2
  MaxPlayers = 5
  LatePings = FALSE
  MaxLeaves = 0
  MaxOrder = 2
  MaxCrashes = 1
  MaxNet = 2
SPECIFICATION Spec
INVARIANT UniqueIds
CHECK_DEADLOCK FALSE
