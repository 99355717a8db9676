CONSTANTS
  MaxServers = 2
  MaxBinds = 6
  MaxConns = 2
  MaxWaiting = 1
  MaxChecks = 1
  Budgets <- MCBudgets
SPECIFICATION ServerSpec
INVARIANTS
  OneServerPerEndpoint
  RetiresOverNobodyKnown
  NoOrphans
PROPERTIES
  StopEnds
  IdleServersRetire
  EndpointSettles
CHECK_DEADLOCK FALSE
