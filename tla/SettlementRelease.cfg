SPECIFICATION FairSpec
CONSTANTS
  Workers = {w1, w2}
  Permits = {p1}
  Txs = {t1, t2}
  Typed = {}
  None = none
  MaxByHand = 1
  MaxCrashes = 1
CHECK_DEADLOCK FALSE
INVARIANTS ReleasedOnce ReleaseIsRecorded
PROPERTIES SignatureIsFinal LandedIsRecorded
