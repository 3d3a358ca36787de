SPECIFICATION FairSpec
CONSTANTS
    paid = paid
    gift = gift
    call = call
    Orders <- MCOrders
    Transfers <- MCTransfers
    Verifies <- MCVerifies
    TransferOf <- MCTransferOf
    Enough <- MCTransfers
    Lookback = 0
    MaxHead = 3
    BlockOf <- MCBlockOf
INVARIANTS
    DepositInvariant
    ScansCreditOnce
    CursorCovers
PROPERTIES
    DepositPromise
    PendingEnds
CHECK_DEADLOCK FALSE
