CONSTANTS
  CrashLimit = 1
  Budgets <- MCBudgets
SPECIFICATION SupervisorSpec
INVARIANTS
  OverMeansGone
PROPERTIES
  NothingStartsUnasked
  GoneIsAnswered
CHECK_DEADLOCK FALSE
