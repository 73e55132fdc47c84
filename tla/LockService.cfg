CONSTANTS
    Users = {alice, bob}
    Calls = {c1, c2}
    None = none
    TTL = 2
    MaxTime = 6
SPECIFICATION Spec
PROPERTIES FreshNeverTakenOver SessionsDisjoint ImplementsLease
CHECK_DEADLOCK FALSE
