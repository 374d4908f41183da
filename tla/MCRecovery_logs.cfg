\* A crash while the newer tree logs to backup0.
SPECIFICATION RSpec
CONSTANTS
  Keys = {1, 2}
  Vals = {v1, v2}
  Tomb = Tomb
  None = None
  Null = Null
  Hash <- MCHash
  NumFiles = 3
  MaxTreeSize = 1
  Threads = {t1}
  Adjusters = {a1, a2}
  Nobody = Nobody
  MaxWrites = 3
  MaxTime = 6
  MaxCrashes = 1
SYMMETRY Symmetry
INVARIANT LoggedWritesWin
CHECK_DEADLOCK FALSE
