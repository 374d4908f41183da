\* A scan in either direction.
SPECIFICATION Spec
CONSTANTS
  N = 3
  Directions = {"forward", "backward"}
  Turns = FALSE
  Unique = FALSE
  MaxSwaps = 1
INVARIANTS NoneSkipped BitmapComplete
PROPERTIES InOrder
CHECK_DEADLOCK FALSE
