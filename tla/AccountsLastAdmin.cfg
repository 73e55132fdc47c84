CONSTANTS
    Emails = {ann, ben, cam}
    Reqs = {r1, r2}
    Mortal = {r1, r2}
    None = none
SYMMETRY Symmetry
SPECIFICATION AuditSpec
INVARIANTS AlwaysAnAdmin
CHECK_DEADLOCK FALSE
