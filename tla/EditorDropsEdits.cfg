CONSTANTS
  Me = me
  Other = other
  None = none
  Users = {me, other}
  Budgets <- LossBudgets
SPECIFICATION Spec
INVARIANTS NothingSilentlyDropped
CHECK_DEADLOCK FALSE
