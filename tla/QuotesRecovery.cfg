SPECIFICATION FairSpec
CONSTANTS
  Quotes = {q1, q2}
  Orders = {o1}
  Callers = {c1}
  Sigs = {s1, s2}
  Worker = worker
  None = none
  Price <- UnitPrice
  Cap = 2
  Ttl = 1
  SweepLimit = 1
  Lookback = 1
  MaxAttempts = 2
  Postgres = TRUE
  Horizon = 2
  MaxCrashes = 1
CHECK_DEADLOCK FALSE
PROPERTIES FinalQuoteStays PaymentIsServed
