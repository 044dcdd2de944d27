SPECIFICATION FairSpec
CONSTANTS
  Workers = {w1, w2}
  Results = {r1, r2}
  None = None
  MaxAttempts = 2
  MaxCrashes = 0
  MaxOverruns = 1
  MaxRedrives = 0
  MaxAllocErrors = 0
CHECK_DEADLOCK FALSE
INVARIANT OneRunAtWork
