SPECIFICATION Spec
CONSTANTS
    btcLong = btcLong
    btcShort = btcShort
    ethLong = ethLong
    btc = btc
    eth = eth
    a1 = a1
    a2 = a2
    Authorities = {a1}
    Keys <- MCTwoKeys
    Symbols <- MCSymbols
    SymbolOf <- MCTwoSymbolOf
    DayLength = 2
    KeyCooldown = 1
    ActiveWindow = 1
    MaxOpenGlobal = 1
    MaxOpenPerSymbol = 1
    MaxOpenPerKey = 1
    MaxDailyOpens = 2
    MaxDailyAttempts = 2
    MaxActive = 2
    BatchLimit = 1
    BindCanFail = FALSE
    MaxMisreads = 1
    MaxNow = 1
    MaxIntents = 3
INVARIANTS
    InfraRejectsAreFree
