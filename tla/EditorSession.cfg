CONSTANTS
  Me = me
  Other = other
  None = none
  Users = {me, other}
  Budgets <- SafetyBudgets
SPECIFICATION Spec
INVARIANTS TypeOK KeystrokesKept SavedMeansSaved ClosedMeansSaved NoGhost MineIsHeld
PROPERTIES NoOverwrite
CHECK_DEADLOCK FALSE
