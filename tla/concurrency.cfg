SPECIFICATION FairSpec
CONSTANTS
    Requests <- MCRequests
    Limit = 1
    Ttl = 4
    QueueTimeout = 2
    MaxHold = 1
    Skew = 1
    MaxClock = 4
INVARIANTS
    ConcurrencyInvariant
    InFlightWithinLimit
PROPERTIES
    NoOvertaking
    QueueingResolves
CHECK_DEADLOCK FALSE
