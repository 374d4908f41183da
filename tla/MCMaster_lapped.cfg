\* Two serve threads: a read that two merges overtake.
SPECIFICATION Spec
CONSTANTS
  Keys = {1, 2}
  Vals = {v1}
  Tomb = Tomb
  None = None
  Null = Null
  Hash <- MCHash
  NumFiles = 3
  MaxTreeSize = 1
  Threads = {t1, t2}
  Adjusters = {a1, a2}
  Nobody = Nobody
  MaxWrites = 3
  MaxTime = 5
SYMMETRY Symmetry
INVARIANT NoMissedKey
