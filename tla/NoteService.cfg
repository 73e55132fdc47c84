CONSTANTS
    Users = {alice, bob}
    None = none
    Owner = alice
    Admins = {}
    Agents = {}
    Reqs = {r1, r2}
    Mortal = {r1, r2}
    Failing = {r1, r2}
    Contents = {c1, c2}
    MaxVersions = 2
SYMMETRY Symmetry
SPECIFICATION Spec
INVARIANTS TypeOK WritesEntitled NoOrphanVersions
PROPERTIES BorrowedLockGivenBack
CHECK_DEADLOCK FALSE
