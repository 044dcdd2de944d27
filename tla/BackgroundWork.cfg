SPECIFICATION Spec
CONSTANTS
  MaxFaults = 1
  Runners = {u1, u2}
  Decisions = {d1}
  NoDecision = none
  MaxAttempts = 1
  MaxBudget = 2
  PhaseAttempts = 2
  MaxOverruns = 1
  HostedWorkers = {u1, u2}
  HostedAttempts = 2
  LastSecond = 2
  Actions = {a1}
  NoAction = noAction
  Threads = {u1, u2}
  ActionWorkers = {w1}
  NoWorker = noWorker
  MaxRequeues = 1
  ReceiptQuotes = {q1, q2}
  NoQuote = noQuote
  Channels = {"api_pull", "email"}
  Requests = {u1, u2}
  Sweepers = {s1}
  DispatchAttempts = 2
  Collectors = {u1, u2}
  Pages = {p1, p2}
  Contents = {v1}
  PageAttempts = 2
  PageRetries = 1
INVARIANTS
  WorkersTypeOK
  ClaimsAreBacked
  JournalIsSealed
  HostedJournalVerifies
  RequeueFollowsOverlap
  ReleaseRestsOnDecision
PROPERTIES
  ReceiptIsFinal
  CollectionIsReviewed
  WorkEnds
CHECK_DEADLOCK FALSE
