SPECIFICATION PipelineSpec
CONSTANTS
    MaxTicks = 8
    LastMinute = 4
    MinutesPerDay = 2
    PersistCandles = FALSE
    MaxFaults = 1
    Interval = 1
    MinCandles = 2
    Lookback = 2
    KeyLife = 2
    Nothing = Nothing
    Price = {1, 2, 3, 4, 5, 6, 7}
    Atr = {0, 1, 2}
    StopMultiple = 2
    MaxStop = 3
    TargetMultiple = 2
    MinMove = 1
    TimeCut = 2
    Cooldown = 2
    HalfSpread = {0, 1}
    Minutes = {1, 2}
    CacheBars = 2
    ReadCount = 2
    MaxLen = 2
    MaxEntries = 3
    MaxChanges = 3
INVARIANTS
    MarketSound
    PredictionSeesCandle
    RiskCapped
    StopBeforeHardLimit
    AccountFollowsView
    TradesPendingOnce
    OrdersAnnounced
PROPERTIES
    StopOnlyTightens
    HeldIsJustified
    CooldownKept
    ImplementsStrategy
CHECK_DEADLOCK FALSE
