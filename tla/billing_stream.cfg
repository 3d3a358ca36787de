SPECIFICATION FairSpec
CONSTANTS
    first = first
    second = second
    Requests <- MCRequests
    Streams <- SecondStreams
    Cost <- MCCost
    PromptOf <- MCPromptOf
    PerPayLimit = 2
    SpendLimit = 2
    MaxDepth = 0
    MaxAttempts = 2
    MaxStalls = 1
    MaxBalance = 2
INVARIANTS
    BillingInvariant
    AnswerTellsCharge
    ChargeAccounted
    RowsTraceCharges
    SoleSpenderWithinLimit
PROPERTIES
    LedgerPromise
    QueuedRowIsWritten
    AdmittedIsAnswered
CHECK_DEADLOCK FALSE
