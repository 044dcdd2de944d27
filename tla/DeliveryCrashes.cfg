SPECIFICATION FairSpec
CONSTANTS
  Workers = {w1, w2}
  Results = {r1, r2}
  None = None
  MaxAttempts = 3
  MaxCrashes = 2
  MaxOverruns = 0
  MaxRedrives = 1
  MaxAllocErrors = 1
CHECK_DEADLOCK FALSE
INVARIANTS TypeOK OneOutcome OneRunAtWork
PROPERTIES KeepsPromise DeliveryConcludes
