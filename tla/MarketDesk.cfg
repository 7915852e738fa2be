SPECIFICATION Spec
CONSTANTS
    StartCapital = 100000
    Brokerage = 20
    SlippagePercent = 1
    MaxOpenPositions = 2
    MaxTradesPerDay = 3
    MaxDailyLoss = 200
    MaxExposure = 15000
    Orders = {}
    OrderPrices = {}
    MaxBookLength = 0
    Frames <- MCFrames
    DayLength = 8
    StaleAfter = 1
    JumpPercent = 10
    Allowed = {"reliance"}
    Foreign = "tcs"
    Feed <- MCFeed
    EntryFrame = 2
    StopDistance = 100
    TargetDistance = 200
    SessionStart = 1
    SquareOffTime = 5
    SessionEnd = 7
    FirstMinutes = 2
    MaxPerSecond = 2
    ReadyTrades = 1
    ReadyFactor = 15
    MaxTicks = 5
    Modes <- MCModes
    Contexts <- MCContexts
    ScoreSets <- MCScores
    Regimes <- MCRegimes
    Corrs = {1, 2}
    GateConfig <- MCGateConfig
    Bars <- MCBars
    StartingEquity = 20000
    TradeBrokerage = 20
    BacktestSlippage = 1
    ScoredStop = 100
    ScoredTarget = 100
    MaxTape = 4
    Compositions <- MCCompositions
    Snapshots <- MCSnapshots
    OrderBooks <- MCOrderBooks
    Charts <- MCCharts
    TrendReadings <- MCTrendReadings
    Lookback = 2
    VwapPeriod = 2
    Desks = {"runtime", "gate", "lifecycle", "tape", "indicator"}
INVARIANTS RuntimeSound  
PROPERTIES SquareOffLeavesNothing BacktestSound
CHECK_DEADLOCK FALSE
