CONSTANTS
  Members = {ann, bob}
  None = none
  Slots = {1, 2, 3}
  Notes = {n1, n2}
  Budgets <- MCBudgets
SPECIFICATION Spec
INVARIANTS TypeOK CacheIsOnlyMine ActsAsShown BoardSettles
PROPERTIES SessionSurvives
CHECK_DEADLOCK FALSE
SYMMETRY MCSymmetry
