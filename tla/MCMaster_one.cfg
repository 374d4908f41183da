\* One serve thread, five writes: what KVStore promises, and progress.
SPECIFICATION FairSpec
CONSTANTS
  Keys = {1, 2}
  Vals = {v1}
  Tomb = Tomb
  None = None
  Null = Null
  Hash <- MCHash
  NumFiles = 3
  MaxTreeSize = 1
  Threads = {t1}
  Adjusters = {a1, a2}
  Nobody = Nobody
  MaxWrites = 5
  MaxTime = 5

INVARIANTS TypeOK Coherent BackupsCoverMemory
PROPERTIES TreeFreedOnceFiled Linearizable ReserveDrained ReadReturns
