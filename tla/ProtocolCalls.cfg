SPECIFICATION CallsSpec
CONSTANTS
  MaxFaults = 1
  Staff = {c1, c2}
  DirectOrders = {o1, o2}
  ConnectedOrders = {o1}
  NoOrder = noOrder
  DirectPayments = {x1, x2}
  NoPayment = noPayment
  AgentsRequested = 2
  MaxAgentsAllowed = 3
  Merchants = {d1}
  Markets = {k1, k2}
  Manifests = {m1}
  NoManifest = noManifest
  Rows = {r1, r2}
  Experiments = {e1, e2}
  MaxLessons = 3
  Targets = {g1, g2}
  Rulings = {v1, v2}
  Sessions = {n1, n2}
  Sellers = {l1, l2}
  Threats = {y1, y2, y3}
  NoThreatRow = noThreat
  GlobalResponses = 3
  DampenedResponses = 2
  VerifiedClaims = {0, 2, 5}
  RejectedClaims = {0, 1}
  UncertainClaims = {0, 1, 2, 6}
  Deductions = {0, 20}
  FinalConfidences = {45, 65, 80}
SYMMETRY ThreadsAreAlike
VIEW Moving
CHECK_DEADLOCK FALSE
INVARIANTS
  CallsTypeOK
  PaymentIsKept
  RoutedIsTrusted
  ExposureIsGoverned
  ReleaseIsEarned
PROPERTIES
  AgentsAreEarned
  OutreachIsPermitted
  LearningIsEarned
  FoundationIsConsistent
  SellerIsGoverned
  ResponsesAreBounded
