SPECIFICATION FairSpec
CONSTANTS
  Workers = {w1, w2}
  Results = {r1}
  None = None
  MaxAttempts = 2
  MaxCrashes = 0
  MaxOverruns = 1
  MaxRedrives = 1
  MaxAllocErrors = 1
CHECK_DEADLOCK FALSE
INVARIANTS ReportedIsDelivered ExhaustedSpentBudget
PROPERTIES DeliveredOrderIsFinal FinalRowStays DeliveryConcludes
