SPECIFICATION Spec
CONSTANTS
    Words = {"a", "b"}
    Bodies <- MCBodies
    Inserts <- MCInserts
    Edits = 3
    MaxSize = 11
INVARIANTS TypeOK StoredAsShown
PROPERTIES TextStaysPut
\* The member stops after Edits steps.
CHECK_DEADLOCK FALSE
