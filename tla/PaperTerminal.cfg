SPECIFICATION Spec
CONSTANTS
    Threads = {t1}
    Symbols = {reliance}
    Prices <- MCPrices
    Lots <- MCLots
    Stops <- MCBracket
    Settings <- MCSettings
    Balance = 300
    TopUps <- MCTopUps
    MaxIds = 2
    MaxTrades = 1
    MaxLots = 2
INVARIANTS
    TypeOK
    MoneyConserved
    OnePositionPerSymbol
    NeverOverdrawn
    
PROPERTY
    AutoWithinLimits
