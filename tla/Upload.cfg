SPECIFICATION LiveSpec
CONSTANTS
  Client = {a, b}
  Path = {p, q}
  Buffer = 2
  MaxSize = 3
  MaxTotal = 3
  MaxShort = 1
  MaxFaults = 1
INVARIANTS TypeOK RightMeansAll Stored
PROPERTIES UploadEnds
CHECK_DEADLOCK FALSE
