SPECIFICATION BrokerSpec
CONSTANTS
    Price = {2}
    Quantity = {1, 2}
    TickValue = 2
    FeeRate = 1
    SlippageTicks = 1
    InitialCapital = 100
    MaxOrders = 2
INVARIANT
    PnlIsCashFlow
