\* A lookup in a unique index.
SPECIFICATION Spec
CONSTANTS
  N = 3
  Directions = {"forward"}
  Turns = FALSE
  Unique = TRUE
  MaxSwaps = 0
INVARIANTS NoneSkipped
CHECK_DEADLOCK FALSE
