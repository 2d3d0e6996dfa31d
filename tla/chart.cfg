SPECIFICATION ChartFairSpec
CONSTANTS
    Start = 1
    End = 6
    Rates = {1, 4}
    ClientPage = 2
    ServerPage = 2
    MaxAttempts = 2
    Lookback = 2
    Scale = 1680
    Late = 1
    Early = 1
    PollLookback = 4
    EntryRate = 3
    ExitRate = 0
    MarkerRates = {9}
    MaxMarkers = 1
    MaxDraw = 3
    MaxTooltip = 2
    TrimPercent = 30
INVARIANTS
    FeedInv
    FetchComplete
    AverageMatchesHistory
    LineIsPolledSignal
    ThinningKeepsShape
    PlotHoldsAll
    AxisIsLabelled
PROPERTIES
    FetchEnds
CHECK_DEADLOCK FALSE
