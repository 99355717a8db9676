CONSTANTS
  CrashLimit = 1
  Budgets <- MCSlowLook
SPECIFICATION SupervisorSpec
PROPERTIES
  NeverSilentlyForever
CHECK_DEADLOCK FALSE
