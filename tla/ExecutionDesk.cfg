SPECIFICATION Spec
CONSTANTS
    ExecutionDesks = {"orders", "fills", "portfolio", "validation", "strategies", "signals", "live", "research", "review", "catalog"}
    Approved <- MCApproved
    Markets <- MCMarkets
    Policy <- MCPolicy
    Schedules <- MCSchedules
    Books <- MCBooks
    MaxSubmits = 3
    SimMode = "MICROSTRUCTURE_AWARE"
    SimRequests <- MCSimRequests
    Portfolios <- MCPortfolios
    Caps <- MCCaps
    Capital = 100000
    ReturnSeries <- MCReturnSeries
    Closings <- MCClosings
    Evidences <- MCEvidences
    StartCapital = 100
    MinTrades = 3
    Windows <- MCWindows
    MaxTrades = 5
    Strategies <- MCStrategies
    Performances <- MCPerformances
    Methods <- MCMethods
    MinAllocation = 20
    MaxAllocation = 60
    Votes <- MCVotes
    Histories <- MCHistories
    Panels <- MCPanels
    Stances <- MCStances
    MaxStances = 2
    SignalInputs <- MCSignalInputs
    ModelPanels <- MCModelPanels
    Priors <- MCPriors
    MinConfidence = 55
    MinScore = 50
    MaxConflict = 35
    FrameSets <- MCFrameSets
    LastClose = 10000
    Outcomes <- MCOutcomes
    NoOutcome = NoOutcome
    NotGiven = NotGiven
    MaxRows = 4
    StudyFeatures <- MCStudyFeatures
    StudyClose = 100
    StudyAtr = 5
    ForwardCandles <- MCForward
    ForwardBars = 2
    MinCompleted = 2
    MaxTrials = 3
    SplitPlans <- MCSplitPlans
    Dossiers <- MCDossiers
    MinSamples = 100
    Contracts = {"quotes:1", "quotes:2"}
    Datasets = {"ticks", "candles"}
    Features = {"vwap", "ema"}
INVARIANTS OrdersSound  SignalsSound EvidenceSound
CHECK_DEADLOCK FALSE
