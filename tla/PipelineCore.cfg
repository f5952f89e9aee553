SPECIFICATION Spec
CONSTANTS
    btcLong = btcLong
    btcShort = btcShort
    ethLong = ethLong
    btc = btc
    eth = eth
    Authorities = {a1}
    a1 = a1
    a2 = a2
    Keys <- MCKeys
    Symbols <- MCSymbols
    SymbolOf <- MCSymbolOf
    DayLength = 2
    KeyCooldown = 1
    ActiveWindow = 2
    MaxOpenGlobal = 2
    MaxOpenPerSymbol = 1
    MaxOpenPerKey = 1
    MaxDailyOpens = 1
    MaxDailyAttempts = 2
    MaxActive = 2
    BatchLimit = 1
    BindCanFail = FALSE
    MaxMisreads = 1
    MaxNow = 2
    MaxIntents = 3
INVARIANTS
    OpenCaps
    DailyOpenCap
    AttemptBudget
    ActiveBudget
    KeysCoolDown
PROPERTIES
    ImplementsLedger
SYMMETRY MCSymmetry
