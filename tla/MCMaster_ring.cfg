\* Two serve threads that read while adjusts run, and a file that no adjust touches.
SPECIFICATION Spec
CONSTANTS
  Keys = {1, 2}
  Vals = {v1}
  Tomb = Tomb
  None = None
  Null = Null
  Hash <- MCHash
  NumFiles = 4
  MaxTreeSize = 1
  Threads = {t1, t2}
  Adjusters = {a1, a2}
  Nobody = Nobody
  MaxWrites = 4
  MaxTime = 6
SYMMETRY Symmetry
INVARIANTS OneAdjust ReadsValid ScanUndisturbed
