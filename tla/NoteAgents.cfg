CONSTANTS
    Users = {alice, bot}
    None = none
    Owner = alice
    Admins = {}
    Agents = {bot}
    Reqs = {r1, r2}
    Mortal = {}
    Failing = {}
    Contents = {c1, c2}
    MaxVersions = 2
SYMMETRY Symmetry
SPECIFICATION StatesSpec
INVARIANTS RootIsOwners VersionsAreRealStates
CHECK_DEADLOCK FALSE
