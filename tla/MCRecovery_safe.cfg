\* Crashes at any step, also during a start; every start ends.
SPECIFICATION RFairSpec
CONSTANTS
  Keys = {1, 2}
  Vals = {v1}
  Tomb = Tomb
  None = None
  Null = Null
  Hash <- MCHash
  NumFiles = 3
  MaxTreeSize = 1
  Threads = {t1}
  Adjusters = {a1, a2}
  Nobody = Nobody
  MaxWrites = 2
  MaxTime = 6
  MaxCrashes = 2
INVARIANTS RecoveredCoherent BloomCovers
PROPERTIES BackupsFiled StartEnds
CHECK_DEADLOCK FALSE
