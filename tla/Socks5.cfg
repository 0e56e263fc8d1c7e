SPECIFICATION LiveSpec
CONSTANTS
  MaxMethods = 1
  MaxName = 2
  MaxUp = 2
  MaxDown = 2
INVARIANT RightTarget
PROPERTIES Relays AnsweredOnce HalfClosePassed ConnectionEnds
CHECK_DEADLOCK FALSE
