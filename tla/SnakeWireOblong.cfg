\* A field whose width is not a multiple of its height, as the menu's 120 x 90.
CONSTANTS
  Width = 3
  Height = 4
  FoodStatic = 1
  MaxJoins = 1
  MaxCells = 4
SPECIFICATION Spec
INVARIANT RoundTrip
CHECK_DEADLOCK FALSE
