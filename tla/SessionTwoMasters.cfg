CONSTANTS
  Deputy = n1
  Other = n2
  Node = {n0, n1, n2, n3}
  Creator = n0
  n0 = n0
  n1 = n1
  n2 = n2
  n3 = n3
  MaxPlayers = 5
  LatePings = FALSE
  MaxLeaves = 1
  MaxOrder = 2
  MaxCrashes = 1
  MaxNet = 2
SPECIFICATION SpecRoom
INVARIANT OneMaster
CHECK_DEADLOCK FALSE
