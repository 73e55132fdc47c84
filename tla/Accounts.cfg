CONSTANTS
    Emails = {ann, ben}
    Reqs = {r1, r2}
    Mortal = {r1}
    None = none
SPECIFICATION FairAuditSpec
INVARIANTS TypeOK OneBootstrapAdmin AdminUnlessRaced StrandedOnlyByRace
PROPERTIES BootstrapQueueMoves
CHECK_DEADLOCK FALSE
