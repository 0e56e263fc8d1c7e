CONSTANTS
  Node = {n0, n1, n2}
  Creator = n0
  n0 = n0
  n1 = n1
  n2 = n2
  MaxPlayers = 1
  LatePings = TRUE
  MaxLeaves = 1
  MaxOrder = 3
  MaxCrashes = 1
  MaxNet = 1
SPECIFICATION Spec
INVARIANT CreatorGivesNewIds
PROPERTY ViewersOnlyWatch
CHECK_DEADLOCK FALSE
