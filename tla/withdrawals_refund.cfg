SPECIFICATION Spec
CONSTANTS
    coin = coin
    wire = wire
    one = one
    two = two
    other = other
    Orders <- MCOrders
    Fiat <- MCFiat
    Amount <- MCAmount
    Calls <- MCCalls
    OrderOf <- MCOrderOf
    MaxBalance = 2
INVARIANT
    PaidIsNotRefunded
CHECK_DEADLOCK FALSE
