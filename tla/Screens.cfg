CONSTANTS
  Emails = {ann, bob, eve}
  self = ann
  Pats = {p1, p2}
  AdminSlots = {1, 2}
  AdminBudgets <- MCAdminBudgets
  NoOne = noone
  Contents = {"a", "b"}
  Files = {"takeout", "older"}
  Archives <- MCArchives
  ImportSlots = {1, 2}
  ImportBudget = 4
  Visits = 1
  NoFile = nofile
  Texts = {t1, t2}
  HistoryBudget = 5
  NoText = notext
SPECIFICATION Spec
INVARIANTS TypeOK AdminsRemain SecretsShown ImportedAsReviewed RestoreSticks
CHECK_DEADLOCK FALSE
