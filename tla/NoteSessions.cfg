CONSTANTS
    Users = {alice, bob, carol}
    None = none
    Owner = alice
    Admins = {carol}
    Agents = {}
    Reqs = {r1}
    Mortal = {}
    Failing = {}
    Contents = {c1, c2}
    MaxVersions = 3
SYMMETRY Symmetry
SPECIFICATION AuditSpec
INVARIANTS SessionsStayOpen
PROPERTIES CreditIsBounded
CHECK_DEADLOCK FALSE
