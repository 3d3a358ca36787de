SPECIFICATION FairSpec
CONSTANTS
    coin = coin
    wire = wire
    one = one
    two = two
    other = other
    Orders <- MCOrders
    Fiat <- MCFiat
    Amount <- MCAmount
    Calls <- MCCalls
    OrderOf <- MCOrderOf
    MaxBalance = 2
INVARIANTS
    WithdrawalInvariant
    StatusTellsMoney
PROPERTIES
    PayoutPromise
    ProcessingResolves
CHECK_DEADLOCK FALSE
