SPECIFICATION LiveSpec
CONSTANTS
  Game = {g1, g2}
  Delay = 4
  Work = 1
  Wait = 20
  MaxLost = 4
INVARIANTS TypeOK NoneTwice
PROPERTIES RunningStays ClickedIsShown EndedVanishes
CHECK_DEADLOCK FALSE
