SPECIFICATION FairSpec
CONSTANTS
    Writers = {w1, w2}
    Levels <- MCJumps
    Bounds <- MCJumpBounds
    NoRow = NoRow
    MaxJump = 1
    MaxSourceAge = 0
    MaxStatusAge = 0
    MaxPriceAge = 0
    MaxNow = 1
PROPERTIES
    PriceReturns
