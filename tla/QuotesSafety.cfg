SPECIFICATION Spec
CONSTANTS
  Quotes = {q1, q2}
  Orders = {o1, o2}
  Callers = {c1, c2}
  Sigs = {s1, s2}
  Worker = worker
  None = none
  Price <- UnitPrice
  Cap = 1
  Ttl = 1
  SweepLimit = 1
  Lookback = 1
  MaxAttempts = 1
  Postgres = TRUE
  Horizon = 2
  MaxCrashes = 1
CHECK_DEADLOCK FALSE
INVARIANTS TypeOK QuotesAreExclusive ReservedWithinCap OutcomeIsTrue
SYMMETRY Symmetric
