SPECIFICATION EngineSpec
CONSTANTS
    Price = {3, 5}
    Quantity = {1}
    TickValue = 2
    FeeRate = 1
    SlippageTicks = 1
    InitialCapital = 100
    MaxOrders = 4
    HalfSpread = {1}
    MaxBatch = 2
    MaxSessions = 2
INVARIANTS
    EngineSound
    AccountInStep
    SessionEndsFlat
PROPERTIES
    EquityIsTrue
    StopEnds
CHECK_DEADLOCK FALSE
