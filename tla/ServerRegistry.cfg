SPECIFICATION Spec
CONSTANTS
  g1 = g1
  g2 = g2
  logic1 = logic1
  login1 = login1
  Gates <- MCGates
  Logics <- MCLogics
  Logins <- MCLogins
  Deployments <- MCDeployments
  MaxFaults = 3
  MaxRequests = 1
  NULL = NULL
INVARIANTS
  TypeOK
  RegisteredReachable
  ReplyIsForRequest
  RoutedUnlessForgotten
PROPERTY
  EventuallyRegistered
CHECK_DEADLOCK FALSE
