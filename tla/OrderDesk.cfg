SPECIFICATION Spec
CONSTANTS
    Keepers = {k1, k2, k3}
    Asked <- MCAsked
    Quotes <- MCQuotes
    Cases <- MCCases
    Limits <- MCLimits
    TradingMode = "PAPER"
    Instruments = {"reliance", "tcs"}
    InitialCash = 250
    MaxOrders = 4
    PlanRequests <- MCPlanRequests
    MinConfidence = 70
    MinReward = 15
    Environments <- MCEnvironments
    Reports <- MCReports
    Settings <- MCSettings
    LiveOrders <- MCLiveOrders
    Confirms <- MCConfirms
    Margins <- MCMargins
    MaxPreviews = 2
    NaN = NaN
    NoNumber = NoNumber
    StartCapital = 100000
    Brokerage = 20
    SlippagePercent = 1
    MaxOpenPositions = 2
    MaxTradesPerDay = 3
    MaxDailyLoss = 200
    MaxExposure = 15000
    Orders <- MCOrders
    OrderPrices <- MCOrderPrices
    MaxBookLength = 3
INVARIANTS PaperOrdersSound AccountSound  
PROPERTIES KillSound
CHECK_DEADLOCK FALSE
