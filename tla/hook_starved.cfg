CONSTANTS
  c1 = c1
  c2 = c2
  NoConn = NoConn
  Conns = {c1, c2}
  QueueCap = 2
  Backlog = 1
  OutLimit = 5
  MaxHooks = 1
  MaxBoot = 1
  MaxAppRuns = 1
SPECIFICATION FairHookSpec
PROPERTIES
  EveryHookArrives
CHECK_DEADLOCK FALSE
