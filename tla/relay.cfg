SPECIFICATION FairSpec
CONSTANTS
    Candidates = 4
    MaxAttempts = 3
INVARIANTS
    RelayInvariant
    OverIsSettled
    MarksAreEarned
PROPERTIES
    CommittedStays
    RequestEnds
CHECK_DEADLOCK FALSE
