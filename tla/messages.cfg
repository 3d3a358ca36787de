SPECIFICATION FairSpec
CONSTANTS
    hook = hook
    note = note
    endpoint = endpoint
    config = config
    Webhooks <- MCWebhooks
    Notices <- MCNotices
    Targets <- MCTargets
    TargetOf <- MCTargetOf
    MaxRetries = 2
    MaxAttempts = 3
    Threshold = 2
    MaxRuns = 2
    Slots = {1, 2}
    MaxUnheard = 1
INVARIANTS
    MessagingInvariant
PROPERTIES
    AcceptedOnce
    DeliveryPromise
    DeliveryEnds
CHECK_DEADLOCK FALSE
