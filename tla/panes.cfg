SPECIFICATION PanesSpec
CHECK_DEADLOCK FALSE
CONSTANTS
  MaxPanes = 3
  MaxIds = 2
  Budgets <- MCBudgets
INVARIANTS
  PanesTypeOK
  NeverTwoPanes
  NeverAStranger
  LaunchTypedOnce
  ViewGetsTheStream

  
