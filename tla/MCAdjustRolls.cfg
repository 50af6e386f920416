SPECIFICATION ResearchSpec
CONSTANTS
    BarShapes <- MCBarShapes
    MaxSeries = 4
    RollPercent = 20
    RollPoints = 3
    GapPoints = 3
    NormalGap = 1
    Barriers = {1}
    Horizon = 2
    SeqLen = 1
INVARIANT SubsequentScaled
CHECK_DEADLOCK FALSE
