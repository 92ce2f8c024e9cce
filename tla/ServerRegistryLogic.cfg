SPECIFICATION Spec
CONSTANTS
  g1 = g1
  g2 = g2
  logic1 = logic1
  login1 = login1
  Gates <- MCGates
  Logics <- MCLogics
  Logins <- MCLogins
  Deployments <- MCDeployments
  MaxFaults = 1
  MaxRequests = 0
  NULL = NULL
INVARIANT
  LogicIsRouted
CHECK_DEADLOCK FALSE
