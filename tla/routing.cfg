SPECIFICATION FairSpec
CONSTANTS
    k1 = k1
    k2 = k2
    r1 = r1
    r2 = r2
    l = l
    Checks <- MCChecks
    Requests <- MCRequests
    Loads <- MCLoads
    Deployments <- MCDeployments
    Threshold = 2
    MaxDeaths = 1
INVARIANTS
    RoutingInvariant
    PoolTellsRow
    TargetsTellRow
PROPERTIES
    DisabledOnEvidence
    CachesSettle
    GoodUpstreamReturns
CHECK_DEADLOCK FALSE
