SPECIFICATION CollectorSpec
CONSTANTS
    MaxTicks = 2
    LastMinute = 4
    MinutesPerDay = 2
    PersistCandles = TRUE
    MaxFaults = 1
INVARIANT CandleOnItsDay
CHECK_DEADLOCK FALSE
