\* Two snakes on a 3 x 3 torus that together get to five or six of its cells:
\* head-on crashes, races for food, remains, and one snake over the edges.
CONSTANTS
  Width = 3
  Height = 3
  FoodStatic = 0
  MaxJoins = 2
  MaxCells = 4
SPECIFICATION Spec
INVARIANTS Disjoint SelfAvoiding Contiguous ScoreCoversGrowth RoundTrip
PROPERTIES NoReversal
CHECK_DEADLOCK FALSE
