\* No fault: progress, and the refinement.
SPECIFICATION FairSpec
CONSTANTS
  Backends = {b1, b2}
  Free = Free
  TopIndexSize = 0
  CheckPeriod = 1
  Faults = {}
  MaxInserts = 3
  MaxMerges = 2
  MaxRestarts = 0
INVARIANTS CopiedOnce MergeRemembered ReclaimsReleased
PROPERTIES MergeCompletes WaitReturns StatementEnds SpinlockFreed IsIndexSet SwapsToEmpty
CHECK_DEADLOCK FALSE
