SPECIFICATION Spec
CONSTANTS
  conn1 = conn1
  conn2 = conn2
  conn3 = conn3
  ann = ann
  bob = bob
  Conns <- MCConns
  Users <- MCUsers
  userOf <- MCUserOf
  playerOf <- MCPlayerOf
  MaxLogins = 1
  MaxLosses = 1
  NULL = NULL
INVARIANTS
  TypeOK
  ForwardsOwnPlayer
  AgentMapIsOwn
  LoggedInIsReachable
PROPERTY
  LoginCompletes
CHECK_DEADLOCK FALSE
