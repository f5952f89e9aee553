SPECIFICATION FairSpec
CONSTANTS
    btcLong = btcLong
    btcShort = btcShort
    ethLong = ethLong
    btc = btc
    eth = eth
    a1 = a1
    a2 = a2
    Authorities = {a1, a2}
    Keys <- MCTwoKeys
    Symbols <- MCSymbols
    SymbolOf <- MCTwoSymbolOf
    DayLength = 2
    KeyCooldown = 0
    ActiveWindow = 1
    MaxOpenGlobal = 1
    MaxOpenPerSymbol = 1
    MaxOpenPerKey = 1
    MaxDailyOpens = 2
    MaxDailyAttempts = 1
    MaxActive = 1
    BatchLimit = 1
    BindCanFail = TRUE
    MaxMisreads = 1
    MaxNow = 1
    MaxIntents = 3
INVARIANTS
    BudgetInv
    BoundAtMostOnce
PROPERTIES
    SettledIsFinal
    PendingSettles
