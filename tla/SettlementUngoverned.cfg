SPECIFICATION GovernedSpec
CONSTANTS
  Workers = {w1, w2}
  Permits = {p1}
  Txs = {t1, t2}
  Typed = {x}
  None = none
  MaxByHand = 1
  MaxCrashes = 0
CHECK_DEADLOCK FALSE
PROPERTIES AllocationIsGoverned
