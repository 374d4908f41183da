\* One serve thread: two files of up to three blocks, a buffer of two.
SPECIFICATION Spec
CONSTANTS
  Threads = {t1}
  Files = {f1, f2}
  MaxBlk = 2
  BlkSize = 2
  MaxSize = 5
  MaxVersion = 1
  Zero = Zero
  NoRead = NoRead
  NoFile = NoFile
INVARIANTS ReadsFile ListMatches
PROPERTY EvictsOldest
