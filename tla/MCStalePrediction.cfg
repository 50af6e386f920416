SPECIFICATION StrategySpec
CONSTANTS
    Price = {1, 2, 3, 4, 5}
    Atr = {1}
    StopMultiple = 1
    MaxStop = 1
    TargetMultiple = 2
    MinMove = 1
    TimeCut = 9
    Cooldown = 5
    HalfSpread = {0}
    Minutes = {1}
    CacheBars = 3
INVARIANT EntryIsRecent
