SPECIFICATION LiveSpec
CONSTANTS
  MaxPlayers = 2
  MaxJoins = 3
INVARIANTS NobodyLost RoomLimit NilTakesRemoval
PROPERTIES GoneForGood DeputySettles
CHECK_DEADLOCK FALSE
