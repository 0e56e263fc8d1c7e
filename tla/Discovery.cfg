SPECIFICATION LiveSpec
CONSTANTS
  Program = {p, q}
  WaitTime = 6
  SendTime = 4
  AliveTime = 12
  MaxFaults = 1
INVARIANTS TypeOK NoneStale
PROPERTIES RunningStays FindEachOther
CHECK_DEADLOCK FALSE
