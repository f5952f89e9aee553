SPECIFICATION Spec
CONSTANTS
    Writers = {w1}
    Levels <- MCLevels
    Bounds <- MCBounds
    NoRow = NoRow
    MaxJump = 1
    MaxSourceAge = 1
    MaxStatusAge = 2
    MaxPriceAge = 2
    MaxNow = 5
INVARIANTS
    RecencyInv
    TradableIsRecent
PROPERTIES
    JumpsNeedAGap
