SPECIFICATION FairSpec
CONSTANTS
  Workers = {w1, w2}
  Results = {r1, r2}
  None = None
  MaxAttempts = 2
  MaxCrashes = 1
  MaxOverruns = 0
  MaxRedrives = 0
  MaxAllocErrors = 1
CHECK_DEADLOCK FALSE
INVARIANT AllocationIsRetried
