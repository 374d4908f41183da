\* Two serve threads and a buffer that is never full.
SPECIFICATION Spec
CONSTANTS
  Threads = {t1, t2}
  Files = {f1, f2}
  MaxBlk = 4
  BlkSize = 2
  MaxSize = 2
  MaxVersion = 0
  Zero = Zero
  NoRead = NoRead
  NoFile = NoFile
INVARIANT ReadsFile
