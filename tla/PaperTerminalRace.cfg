SPECIFICATION Spec
CONSTANTS
    Threads = {t1, t2}
    Symbols = {reliance}
    Prices <- MCPrices
    Lots <- MCNoLots
    Stops <- MCNoStops
    Settings <- MCNoSettings
    Balance = 300
    TopUps <- MCTopUps
    MaxIds = 2
    MaxTrades = 1
    MaxLots = 3
INVARIANT MoneyConserved
