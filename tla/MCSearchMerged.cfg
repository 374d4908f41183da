\* Every pair of files over four keys, and every key searched in their merge.
SPECIFICATION BothSpec
CONSTANTS
  Keys = {1, 2, 3, 4}
  Vals = {v1}
  Tomb = Tomb
  None = None
  Eof = Eof
  MaxSize = 5
  NoSearch = NoSearch
INVARIANTS MergesAll GrowsInOrder ReadsEntries FindsKey LookupNewest
PROPERTIES AppendsInOrder LookupEnds
CHECK_DEADLOCK FALSE
