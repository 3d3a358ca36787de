SPECIFICATION Spec
CONSTANTS
    Candidates = 2
    MaxAttempts = 2
INVARIANT
    BilledOnce
CHECK_DEADLOCK FALSE
