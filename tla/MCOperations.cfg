SPECIFICATION Spec
CONSTANTS
    Callers = {c1, c2}
    FailureThreshold = 3
    SuccessThreshold = 2
    RecoveryTimeout = 2
    MaxForced = 2
    Alerts = {a1, a2, a3}
    MaxRetries = 2
    BatchSize = 4
    NoAlert = NoAlert
    Services <- PipelineServices
    Probed = {"kis_api"}
    BeatEvery = 1
    FreshFor = 2
    DownAfter = 2
    MaxMisses = 1
    Processes = {p1, p2}
    TradingDays = {0, 1, 3}
    LastDay = 3
    MaxErrors = 2
    NoDay = NoDay
INVARIANTS
    AlertsSound
    HealthSound
    ServiceSound
PROPERTIES
    TransitionsEarned
    Recovery
    StopsEnd
CHECK_DEADLOCK FALSE
