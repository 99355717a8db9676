CONSTANTS
  c1 = c1
  c2 = c2
  NoConn = NoConn
  Conns = {c1, c2}
  QueueCap = 2
  Backlog = 1
  OutLimit = 1
  MaxHooks = 2
  MaxBoot = 2
  MaxAppRuns = 2
SPECIFICATION FairHookSpec
INVARIANTS
  HookTypeOK
  AckedWasApplied
  InOrderOnce
  ForwardedHasNoGap
PROPERTIES
  SubscriberIsServed
CHECK_DEADLOCK FALSE
