SPECIFICATION Spec
CONSTANTS
    Price = {1, 3}
    Quantity = {1, 2}
    TickValue = 2
    FeeRate = 1
    SlippageTicks = 1
    InitialCapital = 100
    MaxOrders = 3
    MaxTicks = 4
    LastMinute = 4
    MinutesPerDay = 2
    MaxFaults = 3
    PersistCandles = TRUE
    Codes = {f1}
    Days = {1, 2}
    LastSecond = 4
    MinuteLength = 2
    PageSize = 1
    MaxPages = 3
    MinBars = 2
    MaxBroken = 1
    Prices = {10, 12, 15}
    LastBarDay = 1
    LastSlot = 3
    EntrySlots = {0, 1, 2}
    ForceSlots = {3}
    Commission = 1
    Slippage = 1
    StopLoss = 4
    TakeProfit = 4
    TrailActivation = 1
    TrailDistance = 2
    TimeStop = 3
    MaxDailyLoss = 5
    MaxDailyTrades = 2
    MaxEntries = 3
    WarmUp = 2
    MaxBars = 2
    Cooldown = 2
    AvoidMedium = TRUE
    FirstYear = 2023
    LastYear = 2026
    BarShapes <- MCBarShapes
    MaxSeries = 5
    RollPercent = 20
    RollPoints = 3
    GapPoints = 3
    NormalGap = 1
    Barriers = {1, 2, 3}
    Horizon = 2
    SeqLen = 1
    Outputs = {h1, h2}
    Accuracies = {0, 1}
    Losses = {1, 2}
    MaxEpochs = 3
    Patience = 2
    MaxRuns = 2
    NoRun = 0
    BarPrices = {10, 11, 13}
    ReplayBars = 4
    StopTicks = 2
    TakeTicks = 2
    MaxHold = 2
    SideCost = 1
    Confidence = 50
    EntryQuarters = 2
    Probabilities = {30, 70}
    Predictions <- MCPredictions
    FedBars <- MCFedBars
    MaxFed = 5
    MaFast = 2
    MaSlow = 3
    AtrPeriod = 2
    Tenkan = 1
    Kijun = 2
    SenkouB = 4
    Spare = 0
    DetectorKeeps = 3
    RankKeeps = 3
    RankAfter = 2
    SurgeAfter = 3
    Percentiles = {0, 100}
    Smoothing = 2
    Forecasts <- MCForecasts
    Lone = {10, 90}
    Markets <- MCMarkets
    DlThreshold = 85
    WindowSize = 4
    MinSamples = 4
    MaxChecks = 5
    Symbols = {s1, s2}
    Pnls <- MCPnls
    KeepTrades = 2
    RowBatch = 3
    RowLimit = 4
    MaxPasses = 3
    MaxTraded = 3
    Returns = {0, 3}
    PriceWindow = 4
    SignalWindow = 4
    MinPrices = 3
    MinSignals = 3
    VolatilityHalves = 2
    FrequencyThreshold = 1
    RecentFor = 2
    LossStreak = 2
    CriticalStreak = 3
    LastInstant = 5
    MaxRecords = 4
    Trades = {t1, t2}
    LossWarning <- MCLossWarning
    LossCritical <- MCLossCritical
    LongStreak = 2
    LastDate = 1
    MaxRestarts = 1
    Messages = {m1, m2}
    MaxAttempts = 3
    RetryDelays <- MCRetryDelays
    RedisFaults = 2
    Groups = {g1, g2}
    WarningLag = 1
    CriticalLag = 2
    EmergencyLag = 3
    AlertCooldown = 2
    MaxAcks = 2
    MaxQueries = 2
    MaxProduced = 3
    LastMoment = 2
    SaveInterval = 2
    Ttl = 3
    MaxAge = 1
    MaxChanges = 4
    LastPoint = 4
    w1 = w1
    w2 = w2
    Workers = {w1, w2}
    ProcessOf <- MCProcessOf
    Lifetime = 3
    Margin = 1
    MaxDelay = 1
    MaxIssued = 2
    LastTick = 5
INVARIANTS
    CapitalReconciles
    LastTradeIsThePosition
    CandlesSound
    BackfillSound
    BacktestSound
    ContractsSound
    OfflineSound
    
    
    CommonSound
PROPERTY
    NoneLeftBehind
CHECK_DEADLOCK FALSE
