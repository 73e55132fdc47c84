CONSTANTS
  Me = me
  Other = other
  None = none
  Users = {me, other}
  Budgets <- ProgressBudgets
SPECIFICATION FairSpec
PROPERTIES EditsSettle CloseCloses LockComesFree
CHECK_DEADLOCK FALSE
