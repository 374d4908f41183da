\* Every fault.
SPECIFICATION Spec
CONSTANTS
  Backends = {b1, b2}
  Free = Free
  TopIndexSize = 0
  CheckPeriod = 2
  Faults = {"error", "launch", "cancel", "crash", "block"}
  MaxInserts = 3
  MaxMerges = 1
  MaxRestarts = 1
SYMMETRY Symmetry
INVARIANTS TypeOK NoEntryLost MergeAlone AssertionsHold
CHECK_DEADLOCK FALSE
